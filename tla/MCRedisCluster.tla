--------------------------- MODULE MCRedisCluster ---------------------------
(***************************************************************************)
(* Small Redis Clusters, one for each thing that can happen to them.       *)
(***************************************************************************)
EXTENDS Integers, Sequences, FiniteSets, TLC

CONSTANT Parts,  \* the clusters to explore
         Null    \* no node

VARIABLES part, node, net, x
vars == <<part, node, net, x>>

Lower(a, b) == a < b
C == INSTANCE Cluster WITH Slot <- 1..3, Temp <- {11, 12, 13, 14}, Smaller <- Lower

Calm == C!Calm
Three == 1..3

\* Three masters at peace.
Peace ==
    [addr |-> Three, down |-> {}, failed |-> {}, masters |-> Three, of |-> <<>>, orphans |-> {}, old |-> Three, cut |-> {},
     epoch |-> [n \in Three |-> n], owner |-> [j \in Three |-> j], ahead |-> {}, durable |-> FALSE, returns |-> {},
     meet |-> {}, forget |-> {}, rename |-> {}, timeouts |-> 0, gossip |-> FALSE, epochs |-> 9, crons |-> Three,
     inflight |-> 1, pings |-> FALSE, suspects |-> {}, fair |-> FALSE, late |-> FALSE, expiry |-> FALSE, crashing |-> {},
     faults |-> 0, breaks |-> {}, tries |-> 0, writes |-> 0, modes |-> {}, imports |-> FALSE, known |-> {}, slots |-> {},
     ticks |-> {Calm}]

\* The master 1 has failed and its replicas stand for election.
Votes ==
    [Peace EXCEPT !.addr = 1..5, !.old = 1..5, !.down = {1}, !.failed = {1}, !.of = (4 :> 1 @@ 5 :> 1), !.cut = {{4, 5}},
        !.ahead = {4}, !.durable = TRUE, !.epochs = 5, !.crons = {4, 5}, !.inflight = 9]

Clusters ==
    [epochs |-> [Peace EXCEPT !.owner = <<1, Null, Null>>, !.epoch = [n \in Three |-> 1], !.epochs = 2, !.imports = TRUE,
                    !.slots = {1}, !.ticks = {[Calm EXCEPT !.random = {n}] : n \in Three}],
     votes |-> Votes,
     crashes |-> [Votes EXCEPT !.addr = 1..4, !.old = 1..4, !.masters = {1, 2}, !.of = (3 :> 1 @@ 4 :> 1), !.cut = {{3, 4}},
                    !.epoch = (1 :> 1 @@ 2 :> 2), !.owner = <<1, 2, 2>>, !.ahead = {3}, !.epochs = 3, !.crons = {3, 4},
                    !.crashing = {2}, !.breaks = {4}, !.faults = 1],
     return |-> [Votes EXCEPT !.addr = 1..4, !.old = 1..4, !.of = (4 :> 1), !.cut = {{1, 4}}, !.epochs = 4, !.crons = {1, 2, 4},
                    !.inflight = 1, !.pings = TRUE, !.returns = {1}],
     manual |-> [Peace EXCEPT !.masters = {1, 3}, !.of = (2 :> 1), !.epoch = (1 :> 1 @@ 3 :> 3), !.owner = <<1, 3, 3>>,
                    !.ahead = {1, 2}, !.epochs = 5, !.inflight = 3, !.tries = 1, !.writes = 1, !.modes = {"soft"}],
     forced |-> [Peace EXCEPT !.masters = {1, 3}, !.of = (2 :> 1), !.epoch = (1 :> 1 @@ 3 :> 3), !.owner = <<1, 3, 3>>,
                    !.ahead = {1, 2}, !.epochs = 5, !.inflight = 3, !.tries = 1,
                    !.modes = {"soft", "force", "takeover"}],
     meet |-> [Peace EXCEPT !.masters = {}, !.owner = <<Null, Null, Null>>, !.old = {1}, !.meet = {<<1, 2>>, <<1, 3>>},
                    !.gossip = TRUE, !.pings = TRUE, !.fair = TRUE],
     rename |-> [Peace EXCEPT !.masters = {}, !.owner = <<Null, Null, Null>>, !.meet = {<<1, 2>>}, !.rename = {<<2, 9>>},
                    !.gossip = TRUE, !.pings = TRUE, !.timeouts = 1],
     forget |-> [Peace EXCEPT !.masters = {}, !.owner = <<Null, Null, Null>>, !.forget = {<<1, 3>>},
                    !.gossip = TRUE, !.pings = TRUE, !.timeouts = 1],
     dead |-> [Peace EXCEPT !.addr = 1..4, !.old = 1..4, !.of = (4 :> 1), !.down = {1}, !.pings = TRUE, !.crons = 1..4, !.fair = TRUE,
                    !.suspects = {<<a, 1>> : a \in 1..4},
                    !.ticks = {[Calm EXCEPT !.late = S, !.fresh = FALSE] : S \in {{}, {1}}}],
     alarm |-> [Peace EXCEPT !.addr = 1..4, !.old = 1..4, !.of = (4 :> 1), !.pings = TRUE, !.crons = 1..4,
                    !.suspects = {<<2, 1>>, <<4, 1>>}, !.expiry = TRUE,
                    !.ticks = {[Calm EXCEPT !.late = S, !.fresh = FALSE] : S \in {{}, {1}}}],
     migration |-> [Peace EXCEPT !.addr = 1..4, !.old = 1..4, !.masters = {1, 2}, !.of = (3 :> 1 @@ 4 :> 1), !.orphans = {2},
                    !.epoch = (1 :> 1 @@ 2 :> 2), !.owner = <<1, 2, 2>>, !.durable = TRUE, !.crons = 1..4,
                    !.pings = TRUE, !.ticks = {[Calm EXCEPT !.migrate = S] : S \in {{}, {2}}}],
     admin |-> [Peace EXCEPT !.addr = {1}, !.masters = {}, !.owner = <<Null, Null, Null>>, !.old = {1}, !.epoch = (1 :> 0),
                    !.durable = TRUE, !.epochs = 2, !.crons = {}, !.crashing = {1}, !.faults = 1, !.known = {2}, !.slots = {1}]]

O == Clusters[part]

Init == part \in Parts /\ C!Init(O)
Next == C!Next(O) /\ UNCHANGED part

\* The cron of every process that runs is called again and again (serverCron);
\* it finds the dead late at some time, and the administrator gives all the
\* commands.
Fairness ==
    /\ \A a \in 1..4 : []<>(O.fair /\ a \in O.addr \ O.down => x.last = a)
    /\ []<>(part = "dead" => \A a \in 2..4 : node[a].nodes[1].flags \cap {"pfail", "fail"} # {})
    /\ []<>(x.meet = {} \/ ~O.fair)
Spec == Init /\ [][Next]_vars /\ Fairness

\* A voter votes once in an epoch, through crashes too, so that no two masters
\* that serve slots have the same configuration epoch
\* (clusterSendFailoverAuthIfNeeded); no process knows a configuration epoch
\* above its current one, which clusterLoadConfig says "should never happen".
OneMasterPerEpoch ==
    /\ part \in {"votes", "crashes", "return"} => C!OneMasterPerEpoch
    /\ C!CurrentEpochIsGreatest

\* A node is FAIL in a table only if a majority of the masters has suspected it,
\* and reports are those of masters that have (markNodeAsFailingIfNeeded); as
\* long as a failed master owns slots the cluster is not ok
\* (clusterUpdateState).
FailHasMajority == C!FailHasMajority(O) /\ C!FailedIsNotOk(O)

\* Handshakes, gossip, changed names and FORGET leave no entry that leads to
\* another process than the one of that name, and a forgotten node stays away
\* (clusterProcessGossipSection, clusterBlacklistAddNode).
EntriesAreRight == C!EntriesAreRight(O)

\* A process that restarts is what it had announced: every handler that changes
\* its slots or its master saves nodes.conf.  clusterHandleSlaveMigration does
\* not, so the part with migrations is left out.
RestartKeeps == part # "migration" => C!RestartKeeps

\* When a manual failover has ended, master and replica agree which of them is
\* the master; replicas that migrate do not leave their master with fewer than
\* cluster-migration-barrier (clusterHandleSlaveMigration).
RolesAgree ==
    /\ part = "manual" => C!OneOfTheTwo(O)
    /\ part = "migration" => C!BarrierIsKept(O)

\* A slot passes from one owner to another only with a greater configuration
\* epoch, a replica takes over only with a majority, in an epoch above all it
\* knows and without data loss, and no epoch goes back (clusterUpdateSlotsConfigWith,
\* clusterHandleSlaveFailover, clusterLoadConfig).
ClusterMovesForward ==
    [][(part # "admin" => C!SlotsMoveForward) /\ C!TakeoverIsSafe(O) /\ C!EpochsGrow]_vars

\* A dead master ends as FAIL in every table, although gossip names few nodes at
\* a time (clusterSendFail), and nodes that one of them was told to meet end up
\* knowing each other.
ClusterSettles ==
    <>[](/\ part = "dead" => C!DeadAreFailed(O)
         /\ part = "meet" => \A a \in O.addr : DOMAIN node[a].nodes = O.addr)
=============================================================================
