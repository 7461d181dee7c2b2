----------------------------- MODULE ClusterNode -----------------------------
(***************************************************************************)
(* One node of a Redis Cluster (cluster.c): its table of the nodes and of  *)
(* the hash slots, the packets of the cluster bus, the failure detector,   *)
(* the election of a replica, manual failover, replica migration and the   *)
(* CLUSTER commands.  Everything is a function on the record of one node;  *)
(* the modules that extend this one compose nodes and a network.           *)
(*                                                                         *)
(* The clock is abstracted: what a time comparison yields is a field of    *)
(* the record that time passing may change, or a choice of e, the          *)
(* environment of a step.                                                  *)
(***************************************************************************)
EXTENDS Integers, Sequences, FiniteSets, SequencesExt, FiniteSetsExt

CONSTANTS Slot,     \* the hash slots
          Null,     \* no node, no address
          Temp,     \* random names of nodes in handshake
          Smaller(_, _)    \* the order of node names

\* The table of a node starts with itself.
createClusterNode(flags, addr) ==
    [flags |-> flags, slaveof |-> Null, epoch |-> 0, ping |-> FALSE, reports |-> {},
     offset |-> 0, link |-> FALSE, addr |-> addr, voted |-> FALSE]

Fresh(me, addr) ==
    [me |-> me, nodes |-> (me :> createClusterNode({"master"}, addr)),
     slots |-> [j \in Slot |-> Null], mig |-> [j \in Slot |-> Null], imp |-> [j \in Slot |-> Null],
     keys |-> [j \in Slot |-> {}], cur |-> 0, vote |-> 0, state |-> "fail", size |-> 1,
     todo |-> {}, black |-> {}, out |-> <<>>, offset |-> 0,
     auth |-> [phase |-> "old", count |-> 0, sent |-> FALSE, rank |-> 0, epoch |-> 0],
     mf |-> [end |-> FALSE, can |-> FALSE, slave |-> Null, offset |-> 0],
     disk |-> Null]

Names(c) == DOMAIN c.nodes
My(c) == c.nodes[c.me]
Flag(c, n, f) == f \in c.nodes[n].flags
nodeIsMaster(c, n) == Flag(c, n, "master")
nodeIsSlave(c, n) == Flag(c, n, "slave")
nodeFailed(c, n) == Flag(c, n, "fail")
Known(c, n) == n \in Names(c)
SlotsOf(c, n) == {j \in Slot : c.slots[j] = n}
Slaves(c, n) == {x \in Names(c) : c.nodes[x].slaveof = n}
Flags(c, n, add, del) == [c EXCEPT !.nodes[n].flags = (@ \ del) \cup add]
clusterDoBeforeSleep(c, todo) == [c EXCEPT !.todo = @ \cup todo]

Quorum(c) == c.size \div 2 + 1
Without(f, k) == [x \in DOMAIN f \ {k} |-> f[x]]

----------------------------------------------------------------------------
(* Slots.                                                                  *)

clusterMastersHaveSlaves(c) == \E n \in Names(c) : ~nodeIsSlave(c, n) /\ Slaves(c, n) # {}

\* A slot that has an owner keeps it.  With its first slot a master becomes a
\* target of replica migration, if there are replicas at all.
clusterAddSlot(c, n, j) ==
    IF c.slots[j] # Null THEN c
    ELSE Flags([c EXCEPT !.slots[j] = n], n,
               IF SlotsOf(c, n) = {} /\ clusterMastersHaveSlaves(c) THEN {"migrate_to"} ELSE {}, {})

clusterDelSlot(c, j) == [c EXCEPT !.slots[j] = Null]
clusterDelNodeSlots(c, n) == [c EXCEPT !.slots = [j \in Slot |-> IF @[j] = n THEN Null ELSE @[j]]]
clusterCloseAllSlots(c) == [c EXCEPT !.mig = [j \in Slot |-> Null], !.imp = [j \in Slot |-> Null]]

----------------------------------------------------------------------------
(* The table of nodes.                                                     *)

clusterNodeRemoveSlave(c, master, n) ==
    IF Slaves(c, master) = {n} THEN Flags(c, master, {}, {"migrate_to"}) ELSE c

SlaveOf(c, n, master) == Flags([c EXCEPT !.nodes[n].slaveof = master], master, {"migrate_to"}, {})

\* The slots, reports and replicas of the node go with it.
clusterDelNode(c, n) ==
    LET a == [c EXCEPT !.slots = [j \in Slot |-> IF @[j] = n THEN Null ELSE @[j]],
                       !.mig = [j \in Slot |-> IF @[j] = n THEN Null ELSE @[j]],
                       !.imp = [j \in Slot |-> IF @[j] = n THEN Null ELSE @[j]],
                       !.nodes = [x \in DOMAIN @ |->
                           [@[x] EXCEPT !.reports = @ \ {n},
                                        !.slaveof = IF @ = n THEN Null ELSE @]]]
        b == IF a.nodes[n].slaveof # Null THEN clusterNodeRemoveSlave(a, a.nodes[n].slaveof, n) ELSE a
    IN [b EXCEPT !.nodes = Without(@, n)]

clusterRenameNode(c, old, new) ==
    [c EXCEPT !.nodes = (new :> @[old]) @@ Without(@, old)]

clusterGetMaxEpoch(c) == Max({c.cur} \cup {c.nodes[n].epoch : n \in Names(c)})

NewEpoch(c) == [c EXCEPT !.cur = @ + 1, !.nodes[c.me].epoch = c.cur + 1]

clusterBumpConfigEpochWithoutConsensus(c) ==
    IF My(c).epoch = 0 \/ My(c).epoch # clusterGetMaxEpoch(c)
    THEN clusterDoBeforeSleep(NewEpoch(c), {"save"}) ELSE c

clusterSetNodeAsMaster(c, n) ==
    LET m == c.nodes[n].slaveof
        a == IF m = Null THEN c ELSE clusterNodeRemoveSlave(c, m, n)
        b == IF m # Null /\ n # c.me THEN Flags(a, n, {"migrate_to"}, {}) ELSE a
    IN IF nodeIsMaster(c, n) THEN c
       ELSE clusterDoBeforeSleep(Flags([b EXCEPT !.nodes[n].slaveof = Null], n, {"master"}, {"slave"}),
                                 {"save", "update"})

resetManualFailover(c) ==
    [c EXCEPT !.mf = [end |-> FALSE, can |-> FALSE, slave |-> Null, offset |-> 0]]

clusterSetMaster(c, n) ==
    LET a == IF nodeIsMaster(c, c.me)
             THEN clusterCloseAllSlots(Flags(c, c.me, {"slave"}, {"master", "migrate_to"}))
             ELSE IF My(c).slaveof # Null THEN clusterNodeRemoveSlave(c, My(c).slaveof, c.me) ELSE c
    IN resetManualFailover(SlaveOf(a, c.me, n))

----------------------------------------------------------------------------
(* nodes.conf: the flags that have a name, no node in handshake, both      *)
(* epochs.  A restart loses everything else.                 *)

clusterSaveConfig(c) ==
    [c EXCEPT !.todo = @ \ {"save"},
              !.disk = [nodes |-> [n \in {x \in Names(c) : ~Flag(c, x, "handshake")} |->
                                      [c.nodes[n] EXCEPT !.flags = @ \ {"migrate_to", "meet"},
                                         !.reports = {}, !.offset = 0, !.link = FALSE, !.voted = FALSE]],
                        slots |-> c.slots, mig |-> c.mig, imp |-> c.imp, cur |-> c.cur, vote |-> c.vote]]

\* e.order: whether the line of a master without replicas comes after that of
\* a replica, which decides what clusterAddSlot finds.
clusterLoadConfig(c, e) ==
    LET d == c.disk
        a == [Fresh(c.me, My(c).addr) EXCEPT !.nodes = d.nodes, !.slots = d.slots, !.mig = d.mig,
                 !.imp = d.imp, !.cur = d.cur, !.vote = d.vote, !.disk = d,
                 !.keys = c.keys, !.offset = c.offset]
        to == {n \in Names(a) : \/ Slaves(a, n) # {}
                                \/ e.order /\ SlotsOf(a, n) # {} /\ clusterMastersHaveSlaves(a)}
        b == [a EXCEPT !.nodes = [n \in DOMAIN @ |->
                 IF n \in to THEN [@[n] EXCEPT !.flags = @ \cup {"migrate_to"}] ELSE @[n]]]
    IN [b EXCEPT !.cur = clusterGetMaxEpoch(b)]

----------------------------------------------------------------------------
(* Packets.  A header describes the sender.  to is the name the sender has *)
(* for the receiver and dst the address it is sent to; reply is the name   *)
(* under which the receiver knows the link the packet comes back on, Null  *)
(* when the packet comes over a connection the receiver accepted.          *)

clusterBuildMessageHdr(c, type) ==
    LET master == IF nodeIsSlave(c, c.me) /\ My(c).slaveof # Null THEN My(c).slaveof ELSE c.me
    IN [type |-> type, to |-> Null, dst |-> Null, reply |-> Null, sender |-> c.me, addr |-> My(c).addr,
        slots |-> SlotsOf(c, master), slaveof |-> My(c).slaveof,
        flags |-> My(c).flags \ {"migrate_to"},
        cur |-> c.cur, epoch |-> c.nodes[master].epoch, offset |-> c.offset,
        paused |-> nodeIsMaster(c, c.me) /\ c.mf.end,
        force |-> FALSE, about |-> Null, aboutepoch |-> 0, aboutslots |-> {}, gossip |-> {}]

clusterSendMessage(c, n, hdr) ==
    [c EXCEPT !.out = Append(@, [hdr EXCEPT !.to = n, !.dst = c.nodes[n].addr])]

\* Nodes the code may pick for the gossip section, and those it always adds.
Gossipable(c) ==
    {n \in Names(c) \ {c.me} : /\ c.nodes[n].flags \cap {"pfail", "handshake", "noaddr"} = {}
                               /\ c.nodes[n].link \/ SlotsOf(c, n) # {}}
PfailGossip(c) ==
    {n \in Names(c) : Flag(c, n, "pfail") /\ c.nodes[n].flags \cap {"handshake", "noaddr"} = {}}

clusterSetGossipEntry(c, n) ==
    [name |-> n, flags |-> c.nodes[n].flags \ {"migrate_to"}, addr |-> c.nodes[n].addr]

PingHdr(c, type, pick) ==
    [clusterBuildMessageHdr(c, type) EXCEPT !.gossip =
        {clusterSetGossipEntry(c, n) : n \in (pick \cap Gossipable(c)) \cup PfailGossip(c)}]

clusterSendPing(c, type, n, pick) ==
    LET a == IF type = "ping" THEN [c EXCEPT !.nodes[n].ping = TRUE] ELSE c
    IN clusterSendMessage(a, n, PingHdr(a, type, pick))

\* The answer goes back over the connection the ping came on.
SendPong(c, hdr, pick) ==
    [c EXCEPT !.out = Append(@, [PingHdr(c, "pong", pick) EXCEPT
                                    !.to = hdr.sender, !.dst = hdr.addr, !.reply = hdr.to])]

Connected(c) == {n \in Names(c) \ {c.me} : c.nodes[n].link /\ ~Flag(c, n, "handshake")}

clusterBroadcastMessage(c, hdr, to) == FoldSet(LAMBDA n, x : clusterSendMessage(x, n, hdr), c, to)

clusterBroadcastPong(c, localSlaves) ==
    LET local(n) == nodeIsSlave(c, n) /\ c.nodes[n].slaveof # Null
                    /\ c.nodes[n].slaveof \in {c.me, My(c).slaveof}
    IN clusterBroadcastMessage(c, PingHdr(c, "pong", {}), {n \in Connected(c) : localSlaves => local(n)})

\* A bug for comparison: no FAIL packet.
NoFailPacket(c, n) == c

clusterSendFail(c, n) ==
    clusterBroadcastMessage(c, [clusterBuildMessageHdr(c, "fail") EXCEPT !.about = n], Connected(c))

clusterSendUpdate(c, to, n) ==
    IF ~c.nodes[to].link THEN c
    ELSE clusterSendMessage(c, to, [clusterBuildMessageHdr(c, "update") EXCEPT !.about = n,
                                       !.aboutepoch = c.nodes[n].epoch, !.aboutslots = SlotsOf(c, n)])

----------------------------------------------------------------------------
(* The failure detector: a report per master, FAIL with a majority.        *)

clusterNodeAddFailureReport(c, n, sender) == [c EXCEPT !.nodes[n].reports = @ \cup {sender}]
clusterNodeDelFailureReport(c, n, sender) == [c EXCEPT !.nodes[n].reports = @ \ {sender}]

\* A bug for comparison: one report is enough.
OneReport(c, n) ==
    IF ~Flag(c, n, "pfail") \/ nodeFailed(c, n) \/ c.nodes[n].reports = {} THEN c
    ELSE clusterDoBeforeSleep(Flags(c, n, {"fail"}, {"pfail"}), {"update", "save"})

markNodeAsFailingIfNeeded(c, n) ==
    LET failures == Cardinality(c.nodes[n].reports) + (IF nodeIsMaster(c, c.me) THEN 1 ELSE 0)
        a == Flags(c, n, {"fail"}, {"pfail"})
        b == IF nodeIsMaster(c, c.me) THEN clusterSendFail(a, n) ELSE a
    IN IF ~Flag(c, n, "pfail") \/ nodeFailed(c, n) \/ failures < Quorum(c) THEN c
       ELSE clusterDoBeforeSleep(b, {"update", "save"})

\* e.undo: the node has been failing for long enough.
clearNodeFailureIfNeeded(c, n, e) ==
    IF nodeIsSlave(c, n) \/ SlotsOf(c, n) = {} \/ (nodeIsMaster(c, n) /\ e.undo)
    THEN clusterDoBeforeSleep(Flags(c, n, {}, {"fail"}), {"update", "save"}) ELSE c

clusterHandshakeInProgress(c, addr) ==
    \E n \in Names(c) : Flag(c, n, "handshake") /\ c.nodes[n].addr = addr

FreeTemp(c) == CHOOSE t \in Temp : ~Known(c, t)

clusterStartHandshake(c, addr) ==
    IF clusterHandshakeInProgress(c, addr) THEN c
    ELSE [c EXCEPT !.nodes = (FreeTemp(c) :> createClusterNode({"handshake", "meet"}, addr)) @@ @]

\* One entry of the gossip section; from is the node the packet is credited to.
GossipEntry(c, g, from) ==
    LET down == g.flags \cap {"fail", "pfail"} # {}
        n == g.name
        address(x) == IF /\ Flag(x, n, "fail") \/ Flag(x, n, "pfail")
                         /\ "noaddr" \notin g.flags /\ ~down /\ x.nodes[n].addr # g.addr
                      THEN Flags([x EXCEPT !.nodes[n].link = FALSE, !.nodes[n].addr = g.addr], n, {}, {"noaddr"})
                      ELSE x
    IN IF ~Known(c, n)
       THEN IF from # Null /\ "noaddr" \notin g.flags /\ n \notin c.black
            THEN clusterStartHandshake(c, g.addr) ELSE c
       ELSE address(IF from = Null \/ ~nodeIsMaster(c, from) \/ n = c.me THEN c
                    ELSE IF down THEN markNodeAsFailingIfNeeded(clusterNodeAddFailureReport(c, n, from), n)
                    ELSE clusterNodeDelFailureReport(c, n, from))

clusterProcessGossipSection(c, hdr) ==
    LET from == IF hdr.reply # Null THEN hdr.reply ELSE IF Known(c, hdr.sender) THEN hdr.sender ELSE Null
    IN FoldSeq(LAMBDA g, x : GossipEntry(x, g, from), c, SetToSeq(hdr.gossip))

\* A ping over an accepted connection shows where the sender is now.
nodeUpdateAddressIfNeeded(c, n, hdr) ==
    IF hdr.reply = n \/ c.nodes[n].addr = hdr.addr THEN c
    ELSE clusterDoBeforeSleep(
            Flags([c EXCEPT !.nodes[n].addr = hdr.addr, !.nodes[n].link = FALSE], n, {}, {"noaddr"}),
            {"save", "update"})

----------------------------------------------------------------------------
(* Slots claimed by another node.                                          *)

clusterUpdateSlotsConfigWith(c, sender, epoch, slots) ==
    LET curmaster == IF nodeIsMaster(c, c.me) THEN c.me ELSE My(c).slaveof
        moved == {j \in slots : /\ c.slots[j] # sender /\ c.imp[j] = Null
                                /\ c.slots[j] = Null \/ c.nodes[c.slots[j]].epoch < epoch}
        mine == {j \in moved : c.slots[j] = c.me}
        follow(x) == IF (\E j \in moved : c.slots[j] = curmaster) /\ SlotsOf(x, curmaster) = {}
                     THEN clusterSetMaster(x, sender)
                     ELSE [x EXCEPT !.keys = [j \in Slot |-> IF j \in mine THEN {} ELSE @[j]]]
    IN IF sender = c.me \/ moved = {} THEN c
       ELSE follow(FoldSet(LAMBDA j, x : clusterAddSlot(clusterDelSlot(x, j), sender, j),
                           clusterDoBeforeSleep(c, {"save", "update"}), moved))

clusterHandleConfigEpochCollision(c, sender) ==
    IF \/ c.nodes[sender].epoch # My(c).epoch
       \/ ~nodeIsMaster(c, sender) \/ ~nodeIsMaster(c, c.me)
       \/ Smaller(sender, c.me)
    THEN c ELSE clusterSaveConfig(NewEpoch(c))

----------------------------------------------------------------------------
(* Votes and the election of a replica.                                    *)

\* A bug for comparison: the epoch of the last vote is not looked at.
VoteAgain(c, hdr) ==
    LET n == hdr.sender
        master == c.nodes[n].slaveof
    IN IF \/ nodeIsSlave(c, c.me) \/ SlotsOf(c, c.me) = {} \/ hdr.cur < c.cur
          \/ nodeIsMaster(c, n) \/ master = Null \/ (~nodeFailed(c, master) /\ ~hdr.force)
       THEN c
       ELSE IF c.nodes[n].link THEN clusterSendMessage(c, n, clusterBuildMessageHdr(c, "ack")) ELSE c

clusterSendFailoverAuthIfNeeded(c, hdr) ==
    LET n == hdr.sender
        master == c.nodes[n].slaveof
        denied == \/ nodeIsSlave(c, c.me) \/ SlotsOf(c, c.me) = {}
                  \/ hdr.cur < c.cur
                  \/ c.vote = c.cur
                  \/ nodeIsMaster(c, n) \/ master = Null
                  \/ ~nodeFailed(c, master) /\ ~hdr.force
                  \/ c.nodes[master].voted
                  \/ \E j \in hdr.slots : c.slots[j] # Null /\ c.nodes[c.slots[j]].epoch > hdr.epoch
        a == clusterDoBeforeSleep([c EXCEPT !.vote = c.cur, !.nodes[master].voted = TRUE], {"save"})
    IN IF denied THEN c
       ELSE IF c.nodes[n].link THEN clusterSendMessage(a, n, clusterBuildMessageHdr(a, "ack")) ELSE a

clusterGetSlaveRank(c) ==
    Cardinality({n \in Slaves(c, My(c).slaveof) \ {c.me} :
                    ~Flag(c, n, "nofailover") /\ c.nodes[n].offset > c.offset})

\* e.writable, e.rejoin: the delays after a start and after a partition are over.
clusterUpdateState(c, e) ==
    LET covered == \A j \in Slot : c.slots[j] # Null /\ ~nodeFailed(c, c.slots[j])
        voters == {n \in Names(c) : nodeIsMaster(c, n) /\ SlotsOf(c, n) # {}}
        reachable == {n \in voters : c.nodes[n].flags \cap {"fail", "pfail"} = {}}
        ok == covered /\ Cardinality(reachable) >= Cardinality(voters) \div 2 + 1
        a == [c EXCEPT !.todo = @ \ {"update"}]
    IN IF nodeIsMaster(c, c.me) /\ c.state = "fail" /\ ~e.writable THEN a
       ELSE [a EXCEPT !.size = Cardinality(voters),
                      !.state = IF ~ok THEN "fail"
                                ELSE IF nodeIsMaster(c, c.me) /\ ~e.rejoin THEN @ ELSE "ok"]

clusterFailoverReplaceYourMaster(c, e) ==
    LET old == My(c).slaveof
        a == clusterSetNodeAsMaster(c, c.me)
        b == FoldSet(LAMBDA j, x : clusterAddSlot(clusterDelSlot(x, j), c.me, j), a, SlotsOf(a, old))
        d == clusterSaveConfig(clusterUpdateState(b, e))
    IN IF nodeIsMaster(c, c.me) \/ old = Null THEN c
       ELSE resetManualFailover(clusterBroadcastPong(d, FALSE))

ManualFailover(c) == c.mf.end /\ c.mf.can

\* The phases of an attempt: waiting for its time, due, expired, and old enough
\* for the next one.  e.fresh: the data of the replica is recent; e.pushed: a
\* worse rank puts the start of the election off again.
StartAttempt(c) ==
    LET manual == c.mf.end
        a == [c EXCEPT !.auth = [@ EXCEPT !.count = 0, !.sent = FALSE,
                 !.phase = IF manual THEN "due" ELSE "waiting",
                 !.rank = IF manual THEN 0 ELSE clusterGetSlaveRank(c)]]
    IN clusterBroadcastPong(IF manual THEN clusterDoBeforeSleep(a, {"failover"}) ELSE a, TRUE)

clusterRequestFailoverAuth(c) ==
    clusterBroadcastMessage(c, [clusterBuildMessageHdr(c, "request") EXCEPT !.force = c.mf.end], Connected(c))

AskForVotes(c) ==
    LET a == [c EXCEPT !.cur = @ + 1, !.auth = [@ EXCEPT !.epoch = c.cur + 1]]
        b == clusterRequestFailoverAuth(a)
    IN clusterDoBeforeSleep([b EXCEPT !.auth.sent = TRUE], {"save", "update"})

WinElection(c, e) ==
    clusterFailoverReplaceYourMaster([c EXCEPT !.nodes[c.me].epoch = Max({@, c.auth.epoch})], e)

clusterHandleSlaveFailover(c0, e) ==
    LET c == [c0 EXCEPT !.todo = @ \ {"failover"}]
        master == My(c).slaveof
        no == \/ nodeIsMaster(c, c.me) \/ master = Null
              \/ ~nodeFailed(c, master) /\ ~ManualFailover(c)
              \/ Flag(c, c.me, "nofailover") /\ ~ManualFailover(c)
              \/ SlotsOf(c, master) = {}
              \/ ~e.fresh /\ ~ManualFailover(c)
        rank == clusterGetSlaveRank(c)
        late == ~c.auth.sent /\ ~c.mf.end /\ rank > c.auth.rank
        a == IF late THEN [c EXCEPT !.auth = [@ EXCEPT !.rank = rank,
                                      !.phase = IF e.pushed THEN "waiting" ELSE @]] ELSE c
    IN IF no THEN c
       ELSE IF c.auth.phase = "old" THEN StartAttempt(c)
       ELSE IF a.auth.phase # "due" THEN a
       ELSE IF ~a.auth.sent THEN AskForVotes(a)
       ELSE IF a.auth.count >= Quorum(a) THEN WinElection(a, e)
       ELSE a

----------------------------------------------------------------------------
(* Replica migration, manual failover and the cron.                        *)

clusterCountNonFailingSlaves(c, n) == Cardinality({x \in Slaves(c, n) : ~nodeFailed(c, x)})

Orphaned(c, n) == /\ ~nodeIsSlave(c, n) /\ ~nodeFailed(c, n) /\ Flag(c, n, "migrate_to")
                  /\ nodeIsMaster(c, n) => clusterCountNonFailingSlaves(c, n) = 0

\* The first node of a set in the order of the dictionary.
First(S) == CHOOSE n \in S : TRUE

\* e.migrate: the orphans for which the delay of the migration is over.
clusterHandleSlaveMigration(c, max, e) ==
    LET okslaves == {x \in Slaves(c, My(c).slaveof) : c.nodes[x].flags \cap {"fail", "pfail"} = {}}
        targets == {n \in Names(c) : Orphaned(c, n) /\ SlotsOf(c, n) # {}}
        rivals == UNION {Slaves(c, n) : n \in {x \in Names(c) : nodeIsMaster(c, x) /\
                                                  clusterCountNonFailingSlaves(c, x) = max}}
    IN IF \/ c.state # "ok" \/ Cardinality(okslaves) <= e.barrier
          \/ \E x \in rivals : Smaller(x, c.me)
          \/ targets = {} \/ First(targets) \notin e.migrate
       THEN c
       ELSE clusterSetMaster(c, First(targets))

\* A bug for comparison: every replica moves when there is an orphan.
AnyReplicaMoves(c, e) ==
    LET targets == {n \in Names(c) : nodeIsMaster(c, n) /\ Slaves(c, n) \ {c.me} = {} /\ n # My(c).slaveof}
    IN IF e.migrate = {} \/ targets = {} THEN c ELSE clusterSetMaster(c, First(targets))

SlaveMigration(c, e) ==
    LET others == {n \in Names(c) \ {c.me} : c.nodes[n].flags \cap {"noaddr", "handshake"} = {}}
        masters == {n \in others : nodeIsMaster(c, n) /\ ~nodeFailed(c, n)}
        ok(n) == clusterCountNonFailingSlaves(c, n)
        max == Max({0} \cup {ok(n) : n \in masters})
        orphans == {n \in masters : ok(n) = 0 /\ SlotsOf(c, n) # {} /\ Flag(c, n, "migrate_to")}
    IN IF orphans # {} /\ max >= 2 /\ My(c).slaveof \in masters /\ ok(My(c).slaveof) = max
       THEN clusterHandleSlaveMigration(c, max, e) ELSE c

\* A bug for comparison: the replica does not wait for the master's offset.
DoNotWait(c) == [c EXCEPT !.mf.can = @ \/ (c.mf.end /\ c.mf.offset # 0)]

\* An offset of 0 is an offset not received yet.
clusterHandleManualFailover(c) ==
    [c EXCEPT !.mf.can = @ \/ (c.mf.end /\ c.mf.offset # 0 /\ c.mf.offset = c.offset)]

clusterSendMFStart(c, n) ==
    IF c.nodes[n].link THEN clusterSendMessage(c, n, clusterBuildMessageHdr(c, "mfstart")) ELSE c

\* A link is opened with a MEET or a PING; e.refused: nodes no connection is
\* made to.  A ping that was waiting for its answer goes on waiting.
Reconnect(c, n, e) ==
    IF c.nodes[n].link \/ Flag(c, n, "noaddr") THEN c
    ELSE IF n \in e.refused THEN [c EXCEPT !.nodes[n].ping = TRUE]
    ELSE LET a == [c EXCEPT !.nodes[n].link = TRUE]
             type == IF Flag(c, n, "meet") THEN "meet" ELSE "ping"
             b == clusterSendPing(a, type, n, e.pick)
         IN Flags(b, n, {}, {"meet"})

\* e.half, e.idle, e.late: the answer is missing for half the timeout, the last
\* answer is old, the answer is missing for the whole timeout.
CheckNode(c, n, e) ==
    LET a == IF c.nodes[n].ping /\ n \in e.half THEN [c EXCEPT !.nodes[n].link = FALSE] ELSE c
    IN IF /\ a.nodes[n].link
          /\ \/ ~a.nodes[n].ping /\ n \in e.idle
             \/ a.mf.end /\ nodeIsMaster(a, a.me) /\ a.mf.slave = n
       THEN clusterSendPing(a, "ping", n, e.pick)
       ELSE IF a.nodes[n].ping /\ n \in e.late /\ a.nodes[n].flags \cap {"pfail", "fail"} = {}
       THEN clusterDoBeforeSleep(Flags(a, n, {"pfail"}, {}), {"update"})
       ELSE a

DropHandshakes(c, e) ==
    FoldSet(LAMBDA n, x : clusterDelNode(x, n), c,
            {n \in Names(c) : Flag(c, n, "handshake") /\ ~Flag(c, n, "noaddr") /\ n \in e.expired})

ReconnectAll(c, e) == FoldSet(LAMBDA n, x : Reconnect(x, n, e), c, Names(c) \ {c.me})

PingRandom(c, e) ==
    FoldSet(LAMBDA n, x : clusterSendPing(x, "ping", n, e.pick), c,
            {n \in e.random \cap Names(c) : /\ c.nodes[n].link /\ ~c.nodes[n].ping
                                            /\ n # c.me /\ ~Flag(c, n, "handshake")})

CheckAll(c, e) ==
    FoldSet(LAMBDA n, x : CheckNode(x, n, e), c,
            {n \in Names(c) \ {c.me} : c.nodes[n].flags \cap {"noaddr", "handshake"} = {}})

manualFailoverCheckTimeout(c, e) == IF e.mftimeout /\ c.mf.end THEN resetManualFailover(c) ELSE c

ReplicaCron(c, e) ==
    IF ~nodeIsSlave(c, c.me) THEN c
    ELSE SlaveMigration(clusterHandleSlaveFailover(clusterHandleManualFailover(c), e), e)

StateCron(c, e) == IF "update" \in c.todo \/ c.state = "fail" THEN clusterUpdateState(c, e) ELSE c

clusterCron(c, e) ==
    StateCron(ReplicaCron(manualFailoverCheckTimeout(CheckAll(PingRandom(ReconnectAll(
        DropHandshakes(c, e), e), e), e), e), e), e)

clusterBeforeSleep(c, e) ==
    LET failover(x) == IF "failover" \in x.todo THEN clusterHandleSlaveFailover(x, e) ELSE x
        update(x) == IF "update" \in x.todo THEN clusterUpdateState(x, e) ELSE x
        save(x) == IF "save" \in x.todo THEN clusterSaveConfig(x) ELSE x
    IN [save(update(failover(c))) EXCEPT !.todo = {}]

----------------------------------------------------------------------------
(* A packet arrives.                                                       *)

Trusted(c, hdr) == Known(c, hdr.sender) /\ ~Flag(c, hdr.sender, "handshake")

LearnEpochs(c, hdr) ==
    LET n == hdr.sender
        newer == hdr.epoch > c.nodes[n].epoch
        a == [c EXCEPT !.cur = Max({@, hdr.cur}), !.nodes[n].epoch = Max({@, hdr.epoch}),
                       !.nodes[n].offset = hdr.offset,
                       !.mf.offset = IF /\ c.mf.end /\ nodeIsSlave(c, c.me) /\ My(c).slaveof = n
                                        /\ hdr.paused /\ @ = 0
                                     THEN hdr.offset ELSE @]
    IN IF ~Trusted(c, hdr) THEN c
       ELSE IF newer THEN clusterDoBeforeSleep(a, {"save"}) ELSE a

\* A MEET adds the sender, under a random name, and its gossip is believed.
AnswerPing(c, hdr, e) ==
    LET new == createClusterNode({"handshake"}, hdr.addr)
        a == IF hdr.type = "meet" /\ ~Known(c, hdr.sender)
             THEN clusterProcessGossipSection(
                    clusterDoBeforeSleep([c EXCEPT !.nodes = (FreeTemp(c) :> new) @@ @], {"save"}), hdr)
             ELSE c
    IN IF hdr.type = "pong" THEN c ELSE SendPong(a, hdr, e.pick)

\* What the header of a known sender says of its role.
LearnRole(c, hdr) ==
    LET n == hdr.sender
        a == IF ~nodeIsMaster(c, n) THEN c
             ELSE clusterDoBeforeSleep(Flags(clusterDelNodeSlots(c, n), n, {"slave"}, {"master", "migrate_to"}),
                                       {"save", "update"})
        old == c.nodes[n].slaveof
        b == IF old = Null THEN a ELSE clusterNodeRemoveSlave(a, old, n)
    IN IF hdr.slaveof = Null THEN clusterSetNodeAsMaster(c, n)
       ELSE IF Known(c, hdr.slaveof) /\ old # hdr.slaveof
       THEN clusterDoBeforeSleep(SlaveOf(b, n, hdr.slaveof), {"save"})
       ELSE a

\* The slots it claims: newer claims are taken, older ones are answered with
\* the configuration of the first slot that has moved.
LearnSlots(c, hdr) ==
    LET n == hdr.sender
        master == IF nodeIsMaster(c, n) THEN n ELSE c.nodes[n].slaveof
        dirty == master # Null /\ SlotsOf(c, master) # hdr.slots
        old(x) == {j \in hdr.slots : /\ x.slots[j] \notin {n, Null}
                                     /\ x.nodes[x.slots[j]].epoch > hdr.epoch}
        answer(x) == IF old(x) # {} THEN clusterSendUpdate(x, n, x.slots[Min(old(x))]) ELSE x
    IN IF ~dirty THEN c
       ELSE answer(IF nodeIsMaster(c, n) THEN clusterUpdateSlotsConfigWith(c, n, hdr.epoch, hdr.slots) ELSE c)

Collision(c, hdr) ==
    IF nodeIsMaster(c, c.me) /\ nodeIsMaster(c, hdr.sender) /\ hdr.epoch = My(c).epoch
    THEN clusterHandleConfigEpochCollision(c, hdr.sender) ELSE c

PongReceived(c, n, e) ==
    LET a == [c EXCEPT !.nodes[n].ping = FALSE]
    IN IF Flag(a, n, "pfail") THEN clusterDoBeforeSleep(Flags(a, n, {}, {"pfail"}), {"save", "update"})
       ELSE IF nodeFailed(a, n) THEN clearNodeFailureIfNeeded(a, n, e) ELSE a

\* The link a packet came on: finish a handshake with a new node, drop the
\* handshake with a node already known, disown a link to another node.
FinishHandshake(c, hdr, e) ==
    LET a == clusterRenameNode(c, hdr.reply, hdr.sender)
        b == Flags(a, hdr.sender, hdr.flags \cap {"master", "slave"}, {"handshake"})
    IN PongReceived(clusterDoBeforeSleep(b, {"save"}), hdr.sender, e)

DisownLink(c, n) ==
    clusterDoBeforeSleep(Flags([c EXCEPT !.nodes[n].addr = Null, !.nodes[n].link = FALSE],
                               n, {"noaddr"}, {}), {"save"})

LearnConfig(c, hdr, e) ==
    LET n == hdr.sender
        a == Flags(c, n, hdr.flags \cap {"nofailover"}, {"nofailover"} \ hdr.flags)
        b == IF hdr.type = "ping" /\ Trusted(c, hdr) THEN nodeUpdateAddressIfNeeded(a, n, hdr) ELSE a
        d == IF hdr.reply # Null THEN PongReceived(b, hdr.reply, e) ELSE b
    IN clusterProcessGossipSection(Collision(LearnSlots(LearnRole(d, hdr), hdr), hdr), hdr)

\* A bug for comparison: a link is not checked against the name of the sender.
AnyLink(c, hdr, e) ==
    LET link == hdr.reply
        known == Known(c, hdr.sender)
    IN IF link # Null /\ Flag(c, link, "handshake")
       THEN IF known THEN clusterDelNode(nodeUpdateAddressIfNeeded(c, hdr.sender, hdr), link)
            ELSE Flags(clusterRenameNode(c, link, link), link, {"master"}, {"handshake"})
       ELSE IF known THEN LearnConfig(c, hdr, e) ELSE c

ProcessPing(c, hdr, e) ==
    LET link == hdr.reply
        known == Known(c, hdr.sender)
    IN IF link # Null /\ Flag(c, link, "handshake")
       THEN IF known THEN clusterDelNode(nodeUpdateAddressIfNeeded(c, hdr.sender, hdr), link)
            ELSE FinishHandshake(c, hdr, e)
       ELSE IF link # Null /\ link # hdr.sender THEN DisownLink(c, link)
       ELSE IF known THEN LearnConfig(c, hdr, e) ELSE c

ProcessUpdate(c, hdr) ==
    LET n == hdr.about
        a == IF nodeIsSlave(c, n) THEN clusterSetNodeAsMaster(c, n) ELSE c
        b == clusterDoBeforeSleep([a EXCEPT !.nodes[n].epoch = hdr.aboutepoch], {"save"})
    IN IF ~Known(c, n) \/ c.nodes[n].epoch >= hdr.aboutepoch THEN c
       ELSE clusterUpdateSlotsConfigWith(b, n, hdr.aboutepoch, hdr.aboutslots)

ProcessFail(c, n) ==
    IF ~Known(c, n) \/ n = c.me \/ nodeFailed(c, n) THEN c
    ELSE clusterDoBeforeSleep(Flags(c, n, {"fail"}, {"pfail"}), {"save", "update"})

ProcessAck(c, hdr) ==
    IF nodeIsMaster(c, hdr.sender) /\ SlotsOf(c, hdr.sender) # {} /\ hdr.cur >= c.auth.epoch
    THEN clusterDoBeforeSleep([c EXCEPT !.auth.count = @ + 1], {"failover"}) ELSE c

ProcessMFStart(c, hdr) ==
    IF c.nodes[hdr.sender].slaveof # c.me THEN c
    ELSE [c EXCEPT !.mf = [end |-> TRUE, can |-> FALSE, slave |-> hdr.sender, offset |-> 0]]

clusterProcessPacket(c, hdr, e) ==
    LET a == LearnEpochs(c, hdr)
    IN IF hdr.type \in {"ping", "pong", "meet"} THEN ProcessPing(AnswerPing(a, hdr, e), hdr, e)
       ELSE IF ~Known(c, hdr.sender) THEN a
       ELSE CASE hdr.type = "fail" -> ProcessFail(a, hdr.about)
              [] hdr.type = "request" -> clusterSendFailoverAuthIfNeeded(a, hdr)
              [] hdr.type = "ack" -> ProcessAck(a, hdr)
              [] hdr.type = "mfstart" -> ProcessMFStart(a, hdr)
              [] hdr.type = "update" -> ProcessUpdate(a, hdr)

----------------------------------------------------------------------------
(* The CLUSTER command.  A command that is refused changes nothing.        *)

NoKeys(c) == \A j \in Slot : c.keys[j] = {}

FlushSlots(c) ==
    IF NoKeys(c) THEN clusterDoBeforeSleep(clusterDelNodeSlots(c, c.me), {"update", "save"}) ELSE c

AddSlots(c, slots) ==
    LET a == [c EXCEPT !.imp = [j \in Slot |-> IF j \in slots THEN Null ELSE @[j]]]
    IN IF \E j \in slots : c.slots[j] # Null THEN c
       ELSE clusterDoBeforeSleep(FoldSet(LAMBDA j, x : clusterAddSlot(x, c.me, j), a, slots), {"update", "save"})

\* A bug for comparison: nodes.conf is not saved.
DelUnsaved(c, slots) ==
    IF \E j \in slots : c.slots[j] = Null THEN c
    ELSE clusterDoBeforeSleep(FoldSet(LAMBDA j, x : clusterDelSlot(x, j), c, slots), {"update"})

DelSlots(c, slots) ==
    LET a == [c EXCEPT !.imp = [j \in Slot |-> IF j \in slots THEN Null ELSE @[j]]]
    IN IF \E j \in slots : c.slots[j] = Null THEN c
       ELSE clusterDoBeforeSleep(FoldSet(LAMBDA j, x : clusterDelSlot(x, j), a, slots), {"update", "save"})

SetSlotMigrating(c, j, n) ==
    IF nodeIsSlave(c, c.me) \/ c.slots[j] # c.me \/ ~Known(c, n) THEN c
    ELSE clusterDoBeforeSleep([c EXCEPT !.mig[j] = n], {"save", "update"})

SetSlotImporting(c, j, n) ==
    IF nodeIsSlave(c, c.me) \/ c.slots[j] = c.me \/ ~Known(c, n) THEN c
    ELSE clusterDoBeforeSleep([c EXCEPT !.imp[j] = n], {"save", "update"})

SetSlotStable(c, j) ==
    IF nodeIsSlave(c, c.me) THEN c
    ELSE clusterDoBeforeSleep([c EXCEPT !.imp[j] = Null, !.mig[j] = Null], {"save", "update"})

\* The node that closes the slot it imported takes a new epoch.
SetSlotNode(c, j, n) ==
    LET a == IF c.keys[j] = {} THEN [c EXCEPT !.mig[j] = Null] ELSE c
        b == IF n = c.me /\ c.imp[j] # Null
             THEN [clusterBumpConfigEpochWithoutConsensus(a) EXCEPT !.imp[j] = Null] ELSE a
    IN IF \/ nodeIsSlave(c, c.me) \/ ~Known(c, n)
          \/ c.slots[j] = c.me /\ n # c.me /\ c.keys[j] # {}
       THEN c
       ELSE clusterDoBeforeSleep(clusterAddSlot(clusterDelSlot(b, j), n, j), {"save", "update"})

Forget(c, n) ==
    IF ~Known(c, n) \/ n = c.me \/ My(c).slaveof = n THEN c
    ELSE clusterDoBeforeSleep([clusterDelNode(c, n) EXCEPT !.black = @ \cup {n}], {"update", "save"})

Replicate(c, n) ==
    IF \/ ~Known(c, n) \/ n = c.me \/ nodeIsSlave(c, n)
       \/ nodeIsMaster(c, c.me) /\ (SlotsOf(c, c.me) # {} \/ ~NoKeys(c))
    THEN c
    ELSE clusterDoBeforeSleep(clusterSetMaster(c, n), {"update", "save"})

\* mode: "soft" talks to the master first, "force" only to the voters,
\* "takeover" to nobody.
Failover(c, mode, e) ==
    LET master == My(c).slaveof
        a == [resetManualFailover(c) EXCEPT !.mf.end = TRUE]
    IN IF \/ nodeIsMaster(c, c.me) \/ master = Null
          \/ mode = "soft" /\ (nodeFailed(c, master) \/ ~c.nodes[master].link)
       THEN c
       ELSE CASE mode = "takeover" ->
                   clusterFailoverReplaceYourMaster(clusterBumpConfigEpochWithoutConsensus(a), e)
              [] mode = "force" -> [a EXCEPT !.mf.can = TRUE]
              [] mode = "soft" -> clusterSendMFStart(a, master)

SetConfigEpoch(c, epoch) ==
    IF Names(c) # {c.me} \/ My(c).epoch # 0 THEN c
    ELSE clusterDoBeforeSleep([c EXCEPT !.nodes[c.me].epoch = epoch, !.cur = Max({@, epoch})],
                              {"update", "save"})

clusterReset(c, hard, name) ==
    LET a == IF nodeIsSlave(c, c.me)
             THEN [clusterSetNodeAsMaster(c, c.me) EXCEPT !.keys = [j \in Slot |-> {}]] ELSE c
        b == resetManualFailover(clusterCloseAllSlots([a EXCEPT !.slots = [j \in Slot |-> Null]]))
        d == FoldSet(LAMBDA n, x : clusterDelNode(x, n), b, Names(b) \ {c.me})
        f == IF ~hard THEN d
             ELSE [d EXCEPT !.cur = 0, !.vote = 0, !.me = name,
                            !.nodes = (name :> [d.nodes[c.me] EXCEPT !.epoch = 0])]
    IN IF nodeIsMaster(c, c.me) /\ ~NoKeys(c) THEN c
       ELSE clusterDoBeforeSleep(f, {"save", "update"})

\* After a start: keys of slots that are not ours.
verifyClusterConfigWithData(c) ==
    LET odd == {j \in Slot : c.keys[j] # {} /\ c.slots[j] # c.me /\ c.imp[j] = Null}
        a == [c EXCEPT !.imp = [j \in Slot |-> IF j \in odd THEN c.slots[j] ELSE @[j]]]
        b == FoldSet(LAMBDA j, x : clusterAddSlot(x, c.me, j), a, odd)
    IN IF nodeIsSlave(c, c.me) \/ odd = {} THEN c ELSE clusterSaveConfig(b)

\* A step with nothing out of the ordinary.
Calm == [pick |-> {}, undo |-> FALSE, order |-> FALSE, writable |-> TRUE, rejoin |-> TRUE, fresh |-> TRUE,
         pushed |-> TRUE, barrier |-> 1, migrate |-> {}, refused |-> {}, half |-> {}, idle |-> {},
         late |-> {}, expired |-> {}, random |-> {}, mftimeout |-> FALSE]
=============================================================================
