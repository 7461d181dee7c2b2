--------------------------- MODULE MCRedisServers ---------------------------
(***************************************************************************)
(* Small instances of what Redis servers and Sentinels do with clients and *)
(* with each other.  Each part is one protocol with its own initial state  *)
(* and steps; the variables u to z are its state.                          *)
(***************************************************************************)
EXTENDS Integers, Sequences, FiniteSets, TLC

CONSTANT Parts,  \* the protocols to explore
         Null    \* no node

VARIABLES part, u, v, w, x, y, z
vars == <<part, u, v, w, x, y, z>>
None == <<>>

----------------------------------------------------------------------------
(* Clients                                                                 *)

k == "k"
l == "l"

ListArgv == {<<"BLPOP", <<k, l>>>>, <<"BRPOPLPUSH", k, l>>, <<"BRPOPLPUSH", l, k>>, <<"LPUSH", k>>, <<"SET", l>>, <<"DEL", l>>}
TypeArgv == {<<"BZPOPMIN", <<k, l>>>>, <<"BZPOPMAX", <<k>>>>, <<"BLPOP", <<k>>>>, <<"ZADD", k>>, <<"LPUSH", k>>,
             <<"DEL", k>>, <<"RENAME", l, k>>, <<"ZADD", l>>}
QueueArgv == {<<"BLPOP", <<k>>>>, <<"BZPOPMIN", <<k>>>>, <<"LPUSH", k>>}
StreamArgv == {<<"XREAD", k, "$">>, <<"XREAD", k, "0">>, <<"XREADGROUP", k>>, <<"XADD", k>>, <<"XGROUP", k>>, <<"DEL", k>>,
               <<"BLPOP", <<k>>>>, <<"LPUSH", k>>, <<"SET", k>>}
BL == INSTANCE Blocked WITH s <- u, Client <- 1..2, Key <- {k, l}, Argv <- ListArgv, Blocks <- {1, 2}, Roles <- FALSE, MaxElement <- 2
BT == INSTANCE Blocked WITH s <- u, Client <- 1..2, Key <- {k, l}, Argv <- TypeArgv, Blocks <- {1}, Roles <- FALSE, MaxElement <- 2
BQ == INSTANCE Blocked WITH s <- u, Client <- 1..3, Key <- {k}, Argv <- QueueArgv, Blocks <- {1}, Roles <- FALSE, MaxElement <- 2
BS == INSTANCE Blocked WITH s <- u, Client <- 1..2, Key <- {k}, Argv <- StreamArgv, Blocks <- {1}, Roles <- TRUE, MaxElement <- 2

WatchArgv == {<<"INCR", k>>, <<"DEL", k>>, <<"FLUSHALL">>, <<"WATCH", k>>, <<"WATCH", l>>, <<"UNWATCH">>}
RefusedArgv == {<<"INCR", k>>, <<"GET", k>>, <<"UNKNOWN">>}
TW == INSTANCE Multi WITH cl <- u, db <- v, srv <- w, ran <- x, Client <- 1..2, Key <- {k, l}, Commands <- WatchArgv,
        Conditions <- {"replica"}, MaxQueued <- 1, MaxVersion <- 2
TR == INSTANCE Multi WITH cl <- u, db <- v, srv <- w, ran <- x, Client <- 1..1, Key <- {k}, Commands <- RefusedArgv,
        Conditions <- {"moved", "oom", "disk", "slaves", "script"}, MaxQueued <- 2, MaxVersion <- 2

Lower(a, b) == a < b
RS == INSTANCE Resharding WITH node <- u, req <- v, mig <- w, late <- x, truth <- y, stale <- z,
        Slot <- {1}, Temp <- {}, Smaller <- Lower, Src <- 2, Dst <- 1, Key <- {k, l}, Volatile <- {k}, Lossy <- FALSE,
        Deletes <- TRUE, MaxVersion <- 3, MaxLate <- 2
RL == INSTANCE Resharding WITH node <- u, req <- v, mig <- w, late <- x, truth <- y, stale <- z,
        Slot <- {1}, Temp <- {}, Smaller <- Lower, Src <- 2, Dst <- 1, Key <- {k, l}, Volatile <- {}, Lossy <- TRUE,
        Deletes <- FALSE, MaxVersion <- 2, MaxLate <- 1

----------------------------------------------------------------------------
(* Replicas                                                                *)

P == INSTANCE Psync WITH srv <- u, link <- v, rdb <- w, used <- x, Server <- {"a", "b", "c"}, BacklogSize <- 1, MaxWrites <- 2,
        MaxTurns <- 3, MaxBreaks <- 0, MaxRestarts <- 0
PR == INSTANCE Psync WITH srv <- u, link <- v, rdb <- w, used <- x, Server <- {"a", "b"}, BacklogSize <- 1, MaxWrites <- 1,
        MaxTurns <- 2, MaxBreaks <- 1, MaxRestarts <- 1
F == INSTANCE FullSync WITH m <- u, slave <- v, order <- w, rep <- x, count <- y, Replica <- {"a", "b"}, Eof <- {"a"}, Db <- {0, 1},
        Proxy <- FALSE, MaxWrites <- 1, MaxLosses <- 1, MaxSaves <- 1
FP == INSTANCE FullSync WITH m <- u, slave <- v, order <- w, rep <- x, count <- y, Replica <- {"a", "b"}, Eof <- {"a", "b"},
        Db <- {0, 1}, Proxy <- TRUE, MaxWrites <- 1, MaxLosses <- 1, MaxSaves <- 1
\* The file holds parts of the mark at its end.
H == INSTANCE ReplHandshake WITH s <- u, wire <- v, trouble <- w, Host <- {"x", "y"}, Auth <- TRUE, AnnounceIp <- TRUE,
        File <- <<1, 0, 1, 1>>, Mark <- <<1, 2>>, MaxTrouble <- 3

----------------------------------------------------------------------------
(* Sentinels                                                               *)

SE == INSTANCE SentinelElection WITH st <- u, disk <- v, net <- w, granted <- x, won <- y, restarts <- z,
        Sentinel <- {"s", "t", "v"}, quorum <- 1, MaxEpoch <- 1, MaxRestarts <- 0, Cut <- {"s", "t"}, Crashing <- {}
SR == INSTANCE SentinelElection WITH st <- u, disk <- v, net <- w, granted <- x, won <- y, restarts <- z,
        Sentinel <- {"s", "t"}, quorum <- 1, MaxEpoch <- 1, MaxRestarts <- 2, Cut <- {"s", "t"}, Crashing <- {"s", "t"}
Instances == {"r1", "r2", "r3"}
SF == INSTANCE SentinelFailover WITH m <- u, repl <- v, up <- w, sent <- x, hello <- y, Addr <- Instances, master0 <- "r1",
        parallelSyncs <- 1, MaxEpoch <- 1, priority <- [a \in Instances |-> 100],
        offset <- [a \in Instances |-> IF a = "r3" THEN 2 ELSE 1], Mortal <- {"r1", "r2"}, MaxCommands <- 1,
        UserCommands <- {"reset", "failover"}, OtherEpochs <- {2}
SX == INSTANCE SentinelFailover WITH m <- u, repl <- v, up <- w, sent <- x, hello <- y, Addr <- Instances, master0 <- "r1",
        parallelSyncs <- 1, MaxEpoch <- 1, priority <- [a \in Instances |-> 100],
        offset <- [a \in Instances |-> IF a = "r3" THEN 2 ELSE 1], Mortal <- {"r1"}, MaxCommands <- 1,
        UserCommands <- {}, OtherEpochs <- {2}
Fleet == Instances \cup {"r4"}
SY == INSTANCE SentinelFailover WITH m <- u, repl <- v, up <- w, sent <- x, hello <- y, Addr <- Fleet, master0 <- "r1",
        parallelSyncs <- 1, MaxEpoch <- 1, priority <- [a \in Fleet |-> 100],
        offset <- [a \in Fleet |-> IF a = "r3" THEN 2 ELSE 1], Mortal <- {"r1"}, MaxCommands <- 1,
        UserCommands <- {}, OtherEpochs <- {}
SC == INSTANCE SentinelConfig WITH masters <- u, epoch <- v, file <- w, failures <- x, Name <- {"n"}, Addr <- {"a1", "a2", "a3"},
        RunId <- {"s1"}, Option <- {"quorum", "notification-script"}, Value <- {0, 1, 2}, denyScripts <- FALSE,
        MaxEpoch <- 2, MaxFailures <- 1

----------------------------------------------------------------------------

One == {"lists", "types", "queue", "streams"}
Three == {"handshake"}
Four == {"watching", "refusals", "psync", "restarts", "file"}
Five == {"full sync", "proxy", "failover", "one failover", "resync"}
Six == {"resharding", "lossy", "election", "crash"}

Init ==
    \/ part \in Parts \cap One /\ v = None /\ w = None /\ x = None /\ y = None /\ z = None
       /\ \/ part = "lists" /\ BL!Init
          \/ part = "types" /\ BT!Init
          \/ part = "queue" /\ BQ!Init
          \/ part = "streams" /\ BS!Init
    \/ part \in Parts \cap Three /\ x = None /\ y = None /\ z = None /\ H!Init
    \/ part \in Parts \cap Four /\ y = None /\ z = None
       /\ \/ part = "watching" /\ TW!Init
          \/ part = "refusals" /\ TR!Init
          \/ part = "psync" /\ P!Init
          \/ part = "restarts" /\ PR!Init
          \/ part = "file" /\ SC!Init
    \/ part \in Parts \cap Five /\ z = None
       /\ \/ part = "full sync" /\ F!Init
          \/ part = "proxy" /\ FP!Init
          \/ part = "failover" /\ SF!Init
          \/ part = "one failover" /\ SX!Init
          \/ part = "resync" /\ SY!Init
    \/ part \in Parts \cap Six
       /\ \/ part = "resharding" /\ RS!Init
          \/ part = "lossy" /\ RL!Init
          \/ part = "election" /\ SE!Init
          \/ part = "crash" /\ SR!Init

Next ==
    \/ part \in One /\ UNCHANGED <<part, v, w, x, y, z>>
       /\ \/ part = "lists" /\ BL!Next
          \/ part = "types" /\ BT!Next
          \/ part = "queue" /\ BQ!Next
          \/ part = "streams" /\ BS!Next
    \/ part \in Three /\ UNCHANGED <<part, x, y, z>> /\ H!Next
    \/ part \in Four /\ UNCHANGED <<part, y, z>>
       /\ \/ part = "watching" /\ TW!Next
          \/ part = "refusals" /\ TR!Next
          \/ part = "psync" /\ P!Next
          \/ part = "restarts" /\ PR!Next
          \/ part = "file" /\ SC!Next
    \/ part \in Five /\ UNCHANGED <<part, z>>
       /\ \/ part = "full sync" /\ F!Next
          \/ part = "proxy" /\ FP!Next
          \/ part = "failover" /\ SF!Next
          \/ part = "one failover" /\ SX!Next
          \/ part = "resync" /\ SY!Next
    \/ part \in Six /\ UNCHANGED part
       /\ \/ part = "resharding" /\ RS!Next
          \/ part = "lossy" /\ RL!Next
          \/ part = "election" /\ SE!Next
          \/ part = "crash" /\ SR!Next

\* The cron of a replica runs and its master answers (ReplHandshake); the timer
\* of a Sentinel fires for ever, so every delay is over at some visit
\* (SentinelFailover); children end, the cron runs and sockets are written
\* (FullSync).
Fairness ==
    /\ WF_vars(part = "handshake" /\ H!Progress /\ UNCHANGED <<part, x, y, z>>)
    /\ WF_vars(part = "one failover" /\ UNCHANGED <<part, z>> /\ \E p, e \in BOOLEAN : SX!sentinelTimer(FALSE, TRUE, TRUE, p, e))
    /\ WF_vars(part = "full sync" /\ F!Ends /\ UNCHANGED <<part, z>>)
    /\ \A r \in {"a", "b"} : WF_vars(part = "full sync" /\ F!Reads(r) /\ UNCHANGED <<part, z>>)
Spec == Init /\ [][Next]_vars /\ Fairness

----------------------------------------------------------------------------

\* No client waits for an element its key has, clients are served in the order
\* in which they began to wait, no element is lost or given twice, replicas get
\* what was served, and input that arrived meanwhile is processed (blocked.c).
ClientsAreServed ==
    /\ part = "lists" => BL!NobodyWaitsInVain /\ BL!ElementsAreKept /\ BL!ListsAgree /\ BL!ReplicaFollows
    /\ part = "types" => BT!NobodyWaitsInVain /\ BT!ElementsAreKept /\ BT!ReplicaFollows
    /\ part = "queue" => BQ!NobodyWaitsInVain /\ BQ!FirstComeFirstServed
    /\ part = "streams" => BS!ReplicaFollows /\ BS!InputIsProcessed

\* EXEC runs all the commands since MULTI or none, exactly if no watched key has
\* changed, and not on a read-only replica; the replication stream has an EXEC
\* for every MULTI (multi.c).
TransactionsAreWhole ==
    /\ part = "watching" => TW!WatchHolds /\ TW!DirtyMeansChanged /\ TW!WatchersAgree /\ TW!NoWritesOnReplica
    /\ part = "refusals" => TR!AllOrNothing /\ TR!StreamIsBalanced

\* While a slot moves from one master to another, with retries and lost answers,
\* every key is at one of them with its own value, and no request is answered
\* with an old one (migrateCommand, restoreCommand, getNodeByQuery).
NoKeyIsLost ==
    /\ part = "resharding" => RS!NoKeyIsLost /\ RS!NoStaleAnswer /\ RS!KeysKeepTheirValues /\ RS!OwnerIsBelieved
    /\ part = "lossy" => RL!NoKeyIsLost /\ RL!NoStaleAnswer /\ RL!OwnerIsBelieved

\* Servers with the same replication ID and offset have the same data, through
\* role changes and restarts; a replica that has loaded the file and read its
\* buffer has the data and the offset of its master, and a connection that is
\* given up leaves no socket or file behind (replication.c).
ReplicasAreCopies ==
    /\ part = "psync" => P!SameHistorySameData /\ P!ReplicaIsCopy /\ P!CachedOffsetIsValid
    /\ part = "restarts" => PR!SameHistorySameData /\ PR!CachedOffsetIsValid
    /\ part = "full sync" => F!ReplicaIsComplete /\ F!OffsetIsRight /\ F!StreamIsUnderstood
    /\ part = "proxy" => FP!ReplicaIsComplete /\ FP!OffsetIsRight
    /\ part = "handshake" => H!NothingLeaks /\ H!OneMaster /\ H!LoadedIsTheFile

\* A Sentinel votes once in an epoch and a winner has a majority; the promoted
\* instance is a slave of the table as long as it is used, few slaves
\* resynchronise at a time, and the file brings back what was in memory
\* (sentinel.c).
FailoversAreSound ==
    /\ part = "election" => SE!OneVotePerEpoch /\ SE!WinnerHasMajority
    /\ part = "crash" => SR!OneVotePerEpoch
    /\ part = "failover" => SF!PromotedIsASlave /\ SF!ConfigEpochIsPast
    /\ part = "one failover" => SX!PromotedIsASlave /\ SX!ConfigEpochIsPast
    /\ part = "resync" => SY!PromotedIsASlave /\ SY!ParallelSyncsRespected
    /\ part = "file" => SC!FileMatchesMemory /\ SC!FileLoads

\* The epoch of a Sentinel never goes back, not even through a crash, and the
\* address it publishes for the master changes only with a newer epoch
\* (sentinelFlushConfig, sentinelGetCurrentMasterAddress).
EpochsGoForward ==
    [][/\ part = "crash" => SR!EpochNeverGoesBack
       /\ part = "one failover" => SX!NewAddressNewEpoch]_vars

\* A replica ends up connected to its master, a replica that waits for a file
\* goes online or tries again, and a failover of which the promoted slave lives
\* comes to its end (replicationCron, updateSlavesWaitingBgsave,
\* sentinelFailoverDetectEnd).
NobodyWaitsForever ==
    /\ []<>(part = "handshake" => u.state \in {"CONNECTED", "NONE"})
    /\ []<>(part = "one failover" => ~SX!InProgress(u))
    /\ \A r \in {"a", "b"} : []<>(part = "full sync" => v[r].state \in {"none", "online"})
=============================================================================
