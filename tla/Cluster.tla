------------------------------- MODULE Cluster -------------------------------
(***************************************************************************)
(* Processes of ClusterNode joined by the cluster bus, and what happens to *)
(* them.  A process is named by its address.  Between two processes there  *)
(* are two TCP connections, one opened by each; a connection delivers in   *)
(* order what it delivers, a broken one loses what it carried.  One step   *)
(* of a process is one handler of its event loop followed by               *)
(* clusterBeforeSleep: the loop writes what the handler queued only after  *)
(* nodes.conf has been saved (AE_BARRIER).                                 *)
(*                                                                         *)
(* The argument o of the actions describes a cluster: who its members are  *)
(* at the start and what may happen to them.                               *)
(***************************************************************************)
EXTENDS ClusterNode

VARIABLES node,  \* the process at an address, Null when there is none
          net,   \* the packets on their way: per sender, receiver and direction of the connection
          x      \* the files of processes that are down, what was done so far, and what is still to be done

vars == <<node, net, x>>
bus == <<node, net>>

Addr == DOMAIN node
Channels == DOMAIN net
Up(a) == node[a] # Null
InFlight == FoldFunction(LAMBDA q, n : n + Len(q), 0, net)
Peers(a) == Names(node[a]) \ {node[a].me}

\* What a handler queued goes to the connections; a packet for an address
\* where nobody listens is lost.
Deliver(n, from, out) ==
    FoldLeft(LAMBDA y, hdr :
                IF hdr.dst \notin Addr \/ hdr.dst = from THEN y
                ELSE [y EXCEPT ![<<from, hdr.dst, hdr.reply # Null>>] = Append(@, hdr)], n, out)

\* The end of a handler that leaves the process at a with the record c.
Settle(a, c, e, n) ==
    \E d \in {clusterBeforeSleep(c, e)} :
       /\ node' = [node EXCEPT ![a] = [d EXCEPT !.out = <<>>, !.disk = IF x.durable THEN @ ELSE Null]]
       /\ net' = Deliver(n, a, d.out)

\* A packet over a link that was closed meanwhile is not read.
LinkIsUp(a, hdr) == hdr.reply # Null => Known(node[a], hdr.reply) /\ node[a].nodes[hdr.reply].link

Receive(ch, e) ==
    LET a == ch[2]
        hdr == Head(net[ch])
        rest == [net EXCEPT ![ch] = Tail(@)]
    IN /\ net[ch] # <<>>
       /\ IF Up(a) /\ LinkIsUp(a, hdr)
          THEN Settle(a, clusterProcessPacket(node[a], hdr, e), e, rest)
          ELSE net' = rest /\ UNCHANGED node

Cron(a, e) == Up(a) /\ Settle(a, clusterCron(node[a], e), e, net)

\* freeClusterLink: what the connection carried, both ways, is lost.
BreakLink(a, n) ==
    LET b == node[a].nodes[n].addr
    IN /\ Up(a) /\ n \in Peers(a) /\ node[a].nodes[n].link /\ b \in Addr
       /\ node' = [node EXCEPT ![a].nodes[n].link = FALSE]
       /\ net' = [net EXCEPT ![<<a, b, FALSE>>] = <<>>, ![<<b, a, TRUE>>] = <<>>]

Command(a, c) == Up(a) /\ c # node[a] /\ Settle(a, c, Calm, net) /\ UNCHANGED x

----------------------------------------------------------------------------
(* The cluster at the start: the processes o.addr, of which o.down do not  *)
(* run and those of o.failed are known to have failed; the owners of the   *)
(* slots, o.owner, and the replicas, o.of.                                 *)

Replicas(o) == DOMAIN o.of

View(o, a) ==
    [n \in (IF a \in o.old THEN o.old ELSE {a}) |->
        [createClusterNode(IF n \in Replicas(o) THEN {"slave"}
                           ELSE {"master"} \cup (IF n \in Range(o.of) \cup o.orphans THEN {"migrate_to"} ELSE {})
                                \cup (IF n \in o.failed \ {a} THEN {"fail"} ELSE {}), n) EXCEPT
            !.slaveof = IF n \in Replicas(o) THEN o.of[n] ELSE Null,
            !.link = (n # a /\ n \notin o.down /\ {a, n} \notin o.cut),
            !.ping = (n # a /\ (n \in o.failed \/ {a, n} \in o.cut)),
            !.epoch = IF n \notin Replicas(o) THEN o.epoch[n] ELSE IF n = a THEN 0 ELSE o.epoch[o.of[n]]]]

Member(o, a) ==
    LET c == [Fresh(a, a) EXCEPT
                !.nodes = View(o, a), !.slots = o.owner,
                !.cur = Max(Range(o.epoch)), !.size = Max({1, Cardinality(o.masters)}),
                !.state = IF o.masters = {} \/ o.failed \ {a} # {} THEN "fail" ELSE "ok",
                !.offset = IF a \in o.ahead THEN 1 ELSE 0]
    IN IF o.durable THEN clusterSaveConfig(c) ELSE c

Init(o) ==
    /\ node = [a \in o.addr |-> IF a \in o.down THEN Null ELSE Member(o, a)]
    /\ net = [ch \in o.addr \X o.addr \X BOOLEAN |-> <<>>]
    /\ x = [durable |-> o.durable, conf |-> [a \in o.addr |-> IF a \in o.returns THEN Member(o, a) ELSE Null],
            acks |-> {}, suspected |-> {}, faults |-> 0, tries |-> 0, starts |-> 0, writes |-> 0,
            meet |-> o.meet, forget |-> o.forget, rename |-> o.rename, timeouts |-> o.timeouts, last |-> Null]

----------------------------------------------------------------------------
(* Packets and crons                                                       *)

Everybody == [Calm EXCEPT !.pick = Addr \cup Temp]
Gone(o, a) == {n \in Addr : ~Up(n) \/ {a, n} \in o.cut}
Quiet == InFlight = 0

Votes == {<<p.sender, p.cur, p.to>> : p \in {m \in UNION {Range(net'[ch]) : ch \in Channels} : m.type = "ack"}}

Get(o, ch) ==
    /\ Receive(ch, IF o.gossip THEN Everybody ELSE Calm)
    /\ \A a \in Addr : node'[a] # Null => node'[a].cur <= o.epochs
    /\ x' = [x EXCEPT !.acks = IF o.durable THEN @ \cup Votes ELSE @,
                      !.starts = @ + (IF Head(net[ch]).type = "mfstart" THEN 1 ELSE 0)]

\* The cron of a process under circumstances e.  The bounds: packets in flight,
\* and epochs a replica starts.
Tick(o, a, e) ==
    /\ a \in o.crons /\ Up(a) /\ InFlight < o.inflight
    /\ nodeIsSlave(node[a], node[a].me) /\ ~node[a].auth.sent => node[a].cur < o.epochs \/ o.pings
    /\ LET late == {n \in e.late : <<a, n>> \in o.suspects}
       IN /\ Cron(a, [e EXCEPT !.refused = Gone(o, a), !.pick = IF o.gossip THEN Addr \cup Temp ELSE {},
                               !.idle = IF o.pings THEN Names(node[a]) ELSE {}, !.late = late, !.half = late])
          /\ x' = [x EXCEPT !.last = IF o.fair THEN a ELSE @,
                            !.suspected = @ \cup {<<a, n>> : n \in {y \in late : Flag(node'[a], y, "pfail")}}]
    /\ bus' # bus \/ x' # x

----------------------------------------------------------------------------
(* Time                                                                    *)

\* The time of an attempt passes.  Unless o.late no request and no vote is
\* slower than the retry time of an election; with pings the network is faster
\* than the timeouts.
After(p) == CASE p = "waiting" -> "due" [] p = "due" -> "expired" [] p = "expired" -> "old"
TimePasses(o, a) ==
    /\ Up(a) /\ nodeIsSlave(node[a], node[a].me) /\ node[a].auth.phase # "old"
    /\ node[a].auth.phase = "expired" /\ ~o.late =>
          \A ch \in Channels : a \in {ch[1], ch[2]} => \A p \in Range(net[ch]) : p.type \notin {"ack", "request"}
    /\ o.pings => Quiet /\ (node[a].auth.phase = "due" => node[a].auth.sent)
    /\ node' = [node EXCEPT ![a].auth.phase = After(@)]
    /\ UNCHANGED <<net, x>>

\* Twice the node timeout has passed since the vote about a failed master.
VoteTimePasses(o, a, n) ==
    /\ o.durable /\ Up(a) /\ Known(node[a], n) /\ node[a].nodes[n].voted /\ (o.pings => Quiet)
    /\ node' = [node EXCEPT ![a].nodes[n].voted = FALSE]
    /\ UNCHANGED <<net, x>>

\* The handshakes of a process take too long.
TimeOut(a) ==
    /\ x.timeouts > 0 /\ Up(a) /\ \E n \in Names(node[a]) : Flag(node[a], n, "handshake")
    /\ Cron(a, [Everybody EXCEPT !.expired = Temp])
    /\ x' = [x EXCEPT !.timeouts = @ - 1]

\* A minute after CLUSTER FORGET.
BlacklistCleanup(a, n) ==
    /\ Up(a) /\ n \in node[a].black /\ node' = [node EXCEPT ![a].black = @ \ {n}] /\ UNCHANGED <<net, x>>

\* A ping that stays without an answer: the network lost it.
Unanswered(o, a, n) ==
    /\ <<a, n>> \in o.suspects /\ Up(a) /\ ~node[a].nodes[n].ping /\ node[a].nodes[n].link
    /\ node' = [node EXCEPT ![a].nodes[n].ping = TRUE]
    /\ UNCHANGED <<net, x>>

\* clusterNodeCleanupFailureReports: a report older than twice the timeout.
ReportExpires(o, a, n, m) ==
    /\ o.expiry /\ Up(a) /\ Known(node[a], n) /\ m \in node[a].nodes[n].reports
    /\ node' = [node EXCEPT ![a] = clusterNodeDelFailureReport(@, n, m)]
    /\ UNCHANGED <<net, x>>

----------------------------------------------------------------------------
(* Faults                                                                  *)

Crash(o, a) ==
    /\ a \in o.crashing /\ Up(a) /\ x.faults < o.faults
    /\ node' = [b \in Addr |-> IF b = a THEN Null
                               ELSE IF Up(b) /\ Known(node[b], a) THEN [node[b] EXCEPT !.nodes[a].link = FALSE] ELSE node[b]]
    /\ net' = [ch \in Channels |-> IF a \in {ch[1], ch[2]} THEN <<>> ELSE net[ch]]
    /\ x' = [x EXCEPT !.conf[a] = node[a], !.faults = @ + 1]

\* A process starts from nodes.conf and the data set.
Restart(a) ==
    /\ ~Up(a) /\ x.conf[a] # Null
    /\ node' = [node EXCEPT ![a] = verifyClusterConfigWithData(clusterLoadConfig(x.conf[a], Calm))]
    /\ x' = [x EXCEPT !.conf[a] = Null] /\ UNCHANGED net

\* The cron of a voter that was restarted connects to the others again; its pings
\* are slower than the election.
Rejoin(o, a) ==
    LET back == {n \in Peers(a) : n \in Addr /\ Up(n) /\ {a, n} \notin o.cut /\ ~node[a].nodes[n].link}
    IN /\ a \in o.crashing \ o.crons /\ Up(a) /\ back # {}
       /\ node' = [node EXCEPT ![a] = FoldSet(LAMBDA n, y : [Reconnect(y, n, Calm) EXCEPT !.out = <<>>], @, back)]
       /\ UNCHANGED <<net, x>>

Break(o, a, n) ==
    a \in o.breaks /\ x.faults < o.faults /\ BreakLink(a, n) /\ x' = [x EXCEPT !.faults = @ + 1]

----------------------------------------------------------------------------
(* Manual failover.  Replication is seen from outside: a number of bytes,  *)
(* at the master and at the replica.                                       *)

Ask(o, a, mode) ==
    /\ x.tries < o.tries /\ Up(a) /\ \E c \in {Failover(node[a], mode, Calm)} : c # node[a] /\ Settle(a, c, Calm, net)
    /\ x' = [x EXCEPT !.tries = @ + 1]

\* The end of a manual failover is checked by the cron.  Both sides allow it the
\* same time and the master starts later, so the attempt that the master still
\* waits for is over at the replica.
MasterIsLate(a) ==
    nodeIsMaster(node[a], a) => x.starts < x.tries \/ \A b \in Slaves(node[a], a) : ~node[b].mf.end
GiveUp(a) ==
    /\ Up(a) /\ node[a].mf.end /\ MasterIsLate(a)
    /\ Cron(a, [Calm EXCEPT !.mftimeout = TRUE]) /\ UNCHANGED x

\* The clients of a master write, unless they are paused.
Write(o, a) ==
    /\ a \in o.ahead /\ Up(a) /\ nodeIsMaster(node[a], a) /\ ~node[a].mf.end /\ x.writes < o.writes
    /\ node' = [node EXCEPT ![a].offset = @ + 1]
    /\ x' = [x EXCEPT !.writes = @ + 1] /\ UNCHANGED net

\* The replica gets the rest of the data of its master.
Sync(o, a) ==
    LET m == My(node[a]).slaveof
    IN /\ o.writes > 0 /\ Up(a) /\ nodeIsSlave(node[a], node[a].me) /\ m # Null /\ nodeIsMaster(node[m], m)
       /\ node[a].offset # node[m].offset
       /\ node' = [node EXCEPT ![a].offset = node[m].offset]
       /\ UNCHANGED <<net, x>>

----------------------------------------------------------------------------
(* An administrator                                                        *)

Meet(a, b) == /\ <<a, b>> \in x.meet /\ Settle(a, clusterStartHandshake(node[a], b), Calm, net)
              /\ x' = [x EXCEPT !.meet = @ \ {<<a, b>>}]

Forgetting(a, n) == /\ <<a, n>> \in x.forget /\ Settle(a, Forget(node[a], n), Calm, net)
                    /\ x' = [x EXCEPT !.forget = @ \ {<<a, n>>}]

\* CLUSTER RESET HARD: the other nodes, and the connections, are gone.
Rename(a, name) ==
    /\ <<a, name>> \in x.rename
    /\ node' = [node EXCEPT ![a] = [clusterBeforeSleep(clusterReset(node[a], TRUE, name), Calm)
                                      EXCEPT !.out = <<>>, !.disk = IF x.durable THEN @ ELSE Null]]
    /\ net' = [ch \in Channels |-> IF (ch[1] = a /\ ~ch[3]) \/ (ch[2] = a /\ ch[3]) THEN <<>> ELSE net[ch]]
    /\ x' = [x EXCEPT !.rename = @ \ {<<a, name>>}]

Import(o, a, j) == o.imports /\ node[a].slots[j] \notin {a, Null} /\ Command(a, SetSlotImporting(node[a], j, node[a].slots[j]))
Close(o, a, j) == o.imports /\ node[a].imp[j] # Null /\ node[a].cur < o.epochs /\ Command(a, SetSlotNode(node[a], j, a))

\* A node that was met, and of which nothing more is modelled.
Introduce(a, n) ==
    LET c == node[a]
    IN ~Known(c, n) /\ n \notin c.black /\
       Command(a, clusterDoBeforeSleep([c EXCEPT !.nodes = (n :> createClusterNode({"master"}, n)) @@ @], {"save"}))

\* A ping of that node, which claims slots with some epoch.
Claim(o, a, n, S, epoch) ==
    LET c == node[a]
        hdr == [clusterBuildMessageHdr(c, "ping") EXCEPT !.sender = n, !.to = c.me, !.addr = n, !.slots = S,
                   !.epoch = epoch, !.cur = Max({epoch, c.cur}), !.slaveof = Null, !.flags = {"master"}]
    IN /\ Known(c, n) /\ epoch > c.nodes[n].epoch /\ (My(c).epoch = epoch => c.cur < o.epochs)
       /\ Command(a, clusterProcessPacket(c, hdr, Calm))

\* Any CLUSTER command, and the clients of the process.
Admin(o, a, n) ==
    LET c == node[a]
    IN \/ Introduce(a, n) \/ Command(a, Forget(c, n)) \/ Command(a, Replicate(c, n))
       \/ Command(a, FlushSlots(c)) \/ Command(a, clusterReset(c, FALSE, a))
       \/ \E S \in SUBSET o.slots \ {{}} : Command(a, AddSlots(c, S)) \/ Command(a, DelSlots(c, S))
       \/ \E S \in SUBSET o.slots, epoch \in 1..o.epochs : Claim(o, a, n, S, epoch) \/ Command(a, SetConfigEpoch(c, epoch))
       \/ c.cur < o.epochs /\ Command(a, clusterBumpConfigEpochWithoutConsensus(c))
       \/ \E j \in o.slots, m \in {c.me, n} :
             \/ Command(a, SetSlotMigrating(c, j, m)) \/ Command(a, SetSlotImporting(c, j, m))
             \/ Command(a, SetSlotStable(c, j)) \/ (c.cur < o.epochs /\ Command(a, SetSlotNode(c, j, m)))
       \/ \E j \in o.slots :
             /\ c.keys[j] # {} \/ (c.slots[j] = c.me /\ nodeIsMaster(c, c.me))
             /\ node' = [node EXCEPT ![a].keys[j] = IF @ = {} THEN {"k"} ELSE {}] /\ UNCHANGED <<net, x>>

Next(o) ==
    \/ \E ch \in Channels : Get(o, ch)
    \/ \E a \in Addr : \/ \E e \in o.ticks : Tick(o, a, e)
                       \/ TimePasses(o, a) \/ TimeOut(a) \/ Crash(o, a) \/ Restart(a) \/ Rejoin(o, a)
                       \/ GiveUp(a) \/ Write(o, a) \/ Sync(o, a)
                       \/ \E mode \in o.modes : Ask(o, a, mode)
    \/ \E a, n \in Addr : \/ VoteTimePasses(o, a, n) \/ BlacklistCleanup(a, n) \/ Unanswered(o, a, n) \/ Break(o, a, n)
                          \/ Meet(a, n) \/ Forgetting(a, n)
                          \/ \E m \in Addr : ReportExpires(o, a, n, m)
    \/ \E y \in o.rename : Rename(y[1], y[2])
    \/ o.imports /\ \E a \in Addr, j \in o.slots : Import(o, a, j) \/ Close(o, a, j)
    \/ \E n \in o.known, a \in Addr : Up(a) /\ Admin(o, a, n)

----------------------------------------------------------------------------
(* Properties                                                              *)

Epoch(a) == node[a].nodes[node[a].me].epoch
IsMaster(a) == Up(a) /\ nodeIsMaster(node[a], node[a].me)
Serves(a) == IsMaster(a) /\ SlotsOf(node[a], node[a].me) # {}

\* A voter votes once in an epoch, whatever crashes between: lastVoteEpoch is
\* in nodes.conf before the answer is written.  So no two masters that serve
\* slots have the same configuration epoch.
OneMasterPerEpoch ==
    /\ \A p, q \in x.acks : p[1] = q[1] /\ p[2] = q[2] => p[3] = q[3]
    /\ \A a, b \in Addr : a # b /\ Serves(a) /\ Serves(b) => Epoch(a) # Epoch(b)

\* No process knows a configuration epoch above its current one, the case of
\* which clusterLoadConfig says that it "should never happen".
CurrentEpochIsGreatest == \A a \in Addr : Up(a) => \A n \in Names(node[a]) : node[a].nodes[n].epoch <= node[a].cur

\* markNodeAsFailingIfNeeded: a node is FAIL in some table only if a majority of
\* the masters has suspected it, each of them itself, and reports are only
\* those of masters that have.
FailHasMajority(o) ==
    \A a \in Addr : Up(a) => \A n \in Names(node[a]) \ o.failed :
        /\ nodeFailed(node[a], n) => Cardinality({m \in o.masters : <<m, n>> \in x.suspected}) > Cardinality(o.masters) \div 2
        /\ \A m \in node[a].nodes[n].reports : m \in o.masters /\ <<m, n>> \in x.suspected

\* A process reports the cluster as failed as long as it knows a failed master
\* as the owner of its slots and not as reachable (clusterUpdateState).
FailedIsNotOk(o) ==
    \A a \in Addr \ o.failed, n \in o.failed :
        Up(a) /\ SlotsOf(node[a], n) # {} /\ nodeFailed(node[a], n) => node[a].state = "fail"

Real(a) == {n \in Names(node[a]) : ~Flag(node[a], n, "handshake")}

\* An entry that is not in handshake and has an address leads to the process of
\* that name, or to a process that gave the name up; a node that was forgotten
\* stays away as long as it is in the blacklist, although others gossip of it.
EntriesAreRight(o) ==
    \A a \in Addr : Up(a) =>
        /\ \A n \in Real(a) : LET b == node[a].nodes[n].addr
                              IN b \in Addr /\ Up(b) /\ node[b].me # n => \E y \in o.rename : y[1] = b /\ y \notin x.rename
        /\ o.meet = {} => Real(a) \cap node[a].black = {}

\* A restart brings back what the process had announced: every handler that
\* changes its slots or its master saves nodes.conf.  Only slots that hold keys
\* and have no owner are added (verifyClusterConfigWithData).
RestartKeeps ==
    \A a \in Addr : Up(a) /\ x.durable =>
        LET c == node[a]
            d == clusterLoadConfig(c, Calm)
            v == verifyClusterConfigWithData(d)
        IN /\ SlotsOf(d, d.me) = SlotsOf(c, c.me) /\ My(d).slaveof = My(c).slaveof
           /\ SlotsOf(v, v.me) \ SlotsOf(c, c.me) \subseteq {j \in Slot : c.slots[j] = Null /\ c.keys[j] # {}}

\* After a manual failover has ended, exactly one of master and replica is the
\* master, and they agree (cluster-manual failover, the vote and the pong).
OneOfTheTwo(o) ==
    Quiet /\ (\A a \in o.ahead : ~node[a].mf.end) =>
        \A a, b \in o.ahead : a # b => (IsMaster(a) <=> My(node[b]).slaveof = a)

\* "Don't migrate if my master will not be left with at least
\* 'migration-barrier' slaves after my migration."
BarrierIsKept(o) ==
    \A m \in Range(o.of) : Cardinality({n \in Replicas(o) : Up(n) /\ My(node[n]).slaveof = m}) >= Calm.barrier

\* In the table of a process a slot goes from one owner to another only with a
\* greater configuration epoch, or because the process closed the slot it was
\* importing (clusterUpdateSlotsConfigWith, CLUSTER SETSLOT).
SlotsMoveForward ==
    \A a \in Addr, j \in Slot : Up(a) /\ Up(a)' =>
        LET old == node[a].slots[j]
            new == node'[a].slots[j]
        IN new \notin {old, Null} /\ old # Null /\ Known(node'[a], old) =>
              node'[a].nodes[new].epoch > node'[a].nodes[old].epoch \/ (new = a /\ node[a].imp[j] # Null)

TakesOver(a) == Up(a) /\ ~IsMaster(a) /\ IsMaster(a)'

\* A replica takes over with the votes of a majority of the masters for its
\* epoch, which is above all that it knows, and after a manual failover with
\* all the data of its master, "without data loss".
TakeoverIsSafe(o) ==
    \A a \in Replicas(o) : TakesOver(a) =>
        /\ o.durable => Cardinality({v[1] : v \in {y \in x'.acks : y[2] = Epoch(a)' /\ y[3] = a}}) * 2 > Cardinality(o.masters)
        /\ \A n \in Names(node'[a]) \ {a} : node'[a].nodes[n].epoch < node'[a].nodes[a].epoch
        /\ o.modes = {"soft"} => LET m == My(node[a]).slaveof IN node[a].offset >= node[m].offset

Was(a) == IF Up(a) THEN node[a] ELSE x.conf[a]

\* No handler lets the epochs of a process go back, and no restart its
\* configuration epoch and the epoch of its last vote, which are saved when they
\* change; the current epoch learnt from others is not.  CLUSTER RESET HARD
\* makes the process another node.  After a start a master has no key in a
\* slot that it neither owns nor imports.
EpochsGrow ==
    \A a \in Addr : Was(a) # Null /\ Up(a)' =>
        /\ node'[a].me = Was(a).me => /\ My(node'[a]).epoch >= My(Was(a)).epoch /\ node'[a].vote >= Was(a).vote
                                      /\ Up(a) => node'[a].cur >= Was(a).cur
        /\ ~Up(a) => \A j \in Slot : nodeIsMaster(node'[a], node'[a].me) /\ node'[a].keys[j] # {} =>
                                        node'[a].slots[j] = node'[a].me \/ node'[a].imp[j] # Null

\* "Either we reach the majority and eventually the FAIL state will propagate to
\* all the cluster": with a majority of masters alive a dead node ends as FAIL
\* in every table.
DeadAreFailed(o) == \A a \in Addr \ o.down, n \in o.down : nodeFailed(node[a], n)
=============================================================================
