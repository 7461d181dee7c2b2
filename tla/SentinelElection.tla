-------------------------- MODULE SentinelElection --------------------------
(***************************************************************************)
(* How Redis Sentinels agree that a master is down and elect the one that  *)
(* fails it over (sentinel.c).  One master is monitored by every Sentinel  *)
(* and the Sentinels know each other.  st[s] is what the process s holds   *)
(* in memory, disk[s] what sentinelFlushConfig() wrote.  Clocks are        *)
(* abstracted to the outcome of their comparisons: each timeout may be     *)
(* found expired or not whenever the code looks at it.                     *)
(***************************************************************************)
EXTENDS Integers, FiniteSets, FiniteSetsExt

CONSTANTS Sentinel, quorum, MaxEpoch, MaxRestarts,
          Cut,       \* the Sentinels whose pings the master does not answer
          Crashing   \* those that may crash

None == "none"

\* The states of the failover as far as the election is concerned.
FailoverStates == {"none", "wait_start", "select_slave"}

VARIABLES st, disk, net, granted, won, restarts

vars == <<st, disk, net, granted, won, restarts>>

Peers(s) == Sentinel \ {s}

NoReply == [masterDown |-> FALSE, leader |-> None, leaderEpoch |-> 0]

\* createSentinelRedisInstance() and the configuration file read at startup:
\* the epochs come from the file, the leader's name and the peers' answers
\* do not.
Boot(d) ==
    [currentEpoch |-> d.currentEpoch, leaderEpoch |-> d.leaderEpoch, leader |-> None,
     sdown |-> FALSE, odown |-> FALSE, failoverState |-> "none", failoverEpoch |-> 0,
     peer |-> [t \in Sentinel |-> NoReply]]

\* A bug for comparison: only the epoch of the last vote is written.
SavedVoteOnly(m) == [currentEpoch |-> m.leaderEpoch, leaderEpoch |-> m.leaderEpoch]

\* What sentinelFlushConfig() writes of the master record and the current epoch.
Saved(m) == [currentEpoch |-> m.currentEpoch, leaderEpoch |-> m.leaderEpoch]

sentinelCheckSubjectivelyDown(m, unreachable) == [m EXCEPT !.sdown = unreachable]

sentinelCheckObjectivelyDown(m) ==
    [m EXCEPT !.odown =
        m.sdown /\ 1 + Cardinality({t \in Sentinel : m.peer[t].masterDown}) >= quorum]

\* A bug for comparison: the vote is given again although the epoch already has one.
VoteTwice(m, reqEpoch, reqRunid) ==
    LET e == Max({m.currentEpoch, reqEpoch}) IN
    IF e <= reqEpoch
    THEN [m EXCEPT !.currentEpoch = e, !.leader = reqRunid, !.leaderEpoch = e]
    ELSE [m EXCEPT !.currentEpoch = e]

\* The first request for an epoch newer than the last vote gets the vote.
sentinelVoteLeader(m, reqEpoch, reqRunid) ==
    LET e == Max({m.currentEpoch, reqEpoch}) IN
    IF m.leaderEpoch < reqEpoch /\ e <= reqEpoch
    THEN [m EXCEPT !.currentEpoch = e, !.leader = reqRunid, !.leaderEpoch = e]
    ELSE [m EXCEPT !.currentEpoch = e]

\* sentinelLeaderIncr() over the peers' answers for the current epoch.
PeerVotes(m, r) ==
    Cardinality({t \in Sentinel : m.peer[t].leader = r
                                  /\ m.peer[t].leaderEpoch = m.currentEpoch})

\* The dictionary of counters is visited in an arbitrary order, so any of the
\* most voted may be the one this Sentinel joins when it still has its vote.
MostVoted(m) ==
    {r \in Sentinel : PeerVotes(m, r) > 0
                      /\ \A q \in Sentinel : PeerVotes(m, q) <= PeerVotes(m, r)}

\* The winner of the election as this Sentinel sees it once it has cast its
\* own vote for "joined": more than half of all the voters, and the quorum.
sentinelGetLeader(m, s, joined) ==
    LET v == sentinelVoteLeader(m, m.failoverEpoch, joined)
        own == v.leader # None /\ v.leaderEpoch = m.failoverEpoch
        votes(r) == PeerVotes(m, r) + (IF own /\ v.leader = r THEN 1 ELSE 0)
        best == IF own /\ votes(v.leader) > PeerVotes(m, joined) THEN v.leader ELSE joined
    IN  IF votes(best) > Cardinality(Sentinel) \div 2 /\ votes(best) >= quorum
        THEN best ELSE None

sentinelStartFailover(m) ==
    [m EXCEPT !.failoverState = "wait_start", !.currentEpoch = m.currentEpoch + 1,
              !.failoverEpoch = m.currentEpoch + 1]

\* "due": the last attempt, or the last vote for somebody else, is more than
\* twice the failover timeout ago.
sentinelStartFailoverIfNeeded(m, due) == m.odown /\ m.failoverState = "none" /\ due

sentinelAbortFailover(m) == [m EXCEPT !.failoverState = "none"]

\* One visit of sentinelFailoverWaitStart(): vote, then go on when elected,
\* give up when the election timeout has passed, or stay.
sentinelFailoverWaitStart(m, s, joined, timedOut) ==
    LET v == sentinelVoteLeader(m, m.failoverEpoch, joined) IN
    IF sentinelGetLeader(m, s, joined) = s
    THEN [v EXCEPT !.failoverState = "select_slave"]
    ELSE IF timedOut THEN sentinelAbortFailover(v) ELSE v

Joinable(m, s) == IF MostVoted(m) = {} THEN {s} ELSE MostVoted(m)

\* Answers older than five ask periods are forgotten.
Forget(m, stale) ==
    [m EXCEPT !.peer = [t \in Sentinel |->
        IF t \in stale THEN [m.peer[t] EXCEPT !.masterDown = FALSE, !.leader = None]
        ELSE m.peer[t]]]

\* sentinelAskMasterStateToOtherSentinels(): the request carries the current
\* epoch, and asks for a vote only during a failover.
Ask(m, s, asked) ==
    IF ~m.sdown THEN {}
    ELSE {[from |-> s, to |-> t, epoch |-> m.currentEpoch,
           runid |-> IF m.failoverState = "none" THEN None ELSE s] : t \in asked}

Grant(s, m) == IF m.leaderEpoch = 0 \/ m.leader = None THEN {}
               ELSE {[voter |-> s, epoch |-> m.leaderEpoch, leader |-> m.leader]}

Init ==
    /\ disk = [s \in Sentinel |-> [currentEpoch |-> 0, leaderEpoch |-> 0]]
    /\ st = [s \in Sentinel |-> Boot([currentEpoch |-> 0, leaderEpoch |-> 0])]
    /\ net = {} /\ granted = {} /\ won = {} /\ restarts = 0

\* The acting half of sentinelHandleRedisInstance() for the master: the down
\* checks, a new failover if one is due, a step of the state machine while it
\* waits for the election, and the questions to the peers.  "late": the clock
\* comparison the step makes finds its delay over.
HandleMaster(s, unreachable, late, stale, asked) ==
    LET m1 == sentinelCheckObjectivelyDown(
                  sentinelCheckSubjectivelyDown(st[s], unreachable))
        starts == sentinelStartFailoverIfNeeded(m1, late)
        m2 == IF starts THEN sentinelStartFailover(m1) ELSE m1
    IN \E joined \in Joinable(m2, s) :
        LET waiting == m2.failoverState = "wait_start"
            m3 == IF waiting THEN sentinelFailoverWaitStart(m2, s, joined, late /\ ~starts) ELSE m2
            m4 == Forget(m3, stale)
        IN /\ starts => m2.currentEpoch <= MaxEpoch
           /\ st' = [st EXCEPT ![s] = m4]
           /\ disk' = [disk EXCEPT ![s] =
                  IF waiting /\ m3.leaderEpoch # m2.leaderEpoch THEN Saved(m3) ELSE @]
           /\ net' = net \cup Ask(IF starts THEN m2 ELSE m4, s, asked)
           /\ granted' = granted \cup Grant(s, m3)
           /\ won' = IF waiting /\ m3.failoverState = "select_slave"
                     THEN won \cup {[who |-> s, epoch |-> m2.failoverEpoch]} ELSE won
           /\ UNCHANGED restarts

\* sentinelTimer(), with every outcome of the clock comparisons.  A peer is asked
\* again when nothing is in flight between the two (the bound on the network).
sentinelTimer(s) ==
    \E late \in BOOLEAN, old \in {{}, Peers(s)} :
        HandleMaster(s, s \in Cut, late, old,
                     {t \in Peers(s) : ~ \E q \in net : {q.from, q.to} = {s, t}})

sentinelReceiveIsMasterDownReply(view, r) ==
    [masterDown |-> r.down,
     leader |-> IF r.leader = None THEN view.leader ELSE r.leader,
     leaderEpoch |-> IF r.leader = None THEN view.leaderEpoch ELSE r.epoch]

\* The receiver of SENTINEL IS-MASTER-DOWN-BY-ADDR says whether the master is
\* down for it, and votes if a vote is asked for.  The request may have been on
\* its way for any time; an answer that gets lost is one forgotten at once.
isMasterDownByAddr(t, q) ==
    LET m == IF q.runid = None THEN st[t]
             ELSE sentinelVoteLeader(st[t], q.epoch, q.runid)
        reply == [down |-> m.sdown,
                  leader |-> IF q.runid = None THEN None ELSE m.leader,
                  epoch |-> IF q.runid = None THEN 0 ELSE m.leaderEpoch]
    IN /\ q.to = t
       /\ st' = [st EXCEPT ![t] = m, ![q.from].peer[t] =
                     sentinelReceiveIsMasterDownReply(@, reply)]
       /\ disk' = IF Saved(m) # Saved(st[t]) THEN [disk EXCEPT ![t] = Saved(m)] ELSE disk
       /\ net' = net \ {q}
       /\ granted' = IF q.runid = None THEN granted ELSE granted \cup Grant(t, m)
       /\ UNCHANGED <<won, restarts>>

\* The epoch part of sentinelProcessHelloMessage(): a peer's newer epoch is
\* taken over and written.
ReceiveHello(s, t) ==
    /\ st[t].currentEpoch > st[s].currentEpoch
    /\ st' = [st EXCEPT ![s].currentEpoch = st[t].currentEpoch]
    /\ disk' = [disk EXCEPT ![s] = Saved(st'[s])]
    /\ UNCHANGED <<net, granted, won, restarts>>

\* The elected Sentinel finds no good slave, or ends its failover and resets
\* the master record (sentinelResetMaster).
FailoverEnds(s) ==
    /\ st[s].failoverState = "select_slave"
    /\ \/ st' = [st EXCEPT ![s] = sentinelAbortFailover(@)]
       \/ st' = [st EXCEPT ![s] =
              [@ EXCEPT !.failoverState = "none", !.leader = None,
                        !.sdown = FALSE, !.odown = FALSE]]
    /\ UNCHANGED <<disk, net, granted, won, restarts>>

\* The process dies and starts again from its configuration file; its
\* connections, with what is in flight on them, are gone.
Restart(s) ==
    /\ s \in Crashing /\ restarts < MaxRestarts /\ restarts' = restarts + 1
    /\ st' = [st EXCEPT ![s] = Boot(disk[s])]
    /\ net' = {q \in net : s \notin {q.from, q.to}}
    /\ UNCHANGED <<disk, granted, won>>

Next ==
    \E s \in Sentinel :
        \/ sentinelTimer(s)
        \/ \E q \in net : isMasterDownByAddr(s, q)
        \/ \E t \in Peers(s) : ReceiveHello(s, t)
        \/ FailoverEnds(s)
        \/ Restart(s)

Spec == Init /\ [][Next]_vars

\* One vote per epoch: whatever the order of requests, and across restarts, a
\* Sentinel never gives two different candidates its vote for the same epoch.
\* sentinelVoteLeader() relies on leader_epoch being on disk before the answer
\* leaves.
OneVotePerEpoch ==
    \A g, h \in granted :
        g.voter = h.voter /\ g.epoch = h.epoch => g.leader = h.leader

\* A Sentinel never falls back to an epoch older than one it has been in, not
\* even through a crash: every epoch taken from a request, a hello message or
\* a failover of its own is on disk when the handler returns.
EpochNeverGoesBack ==
    \A s \in Sentinel : st'[s].currentEpoch >= st[s].currentEpoch

\* Every candidate that wins has more than half of the Sentinels behind it,
\* counting the votes of its failover epoch and of the later ones the code
\* adds to them.
WinnerHasMajority ==
    \A w \in won :
        2 * Cardinality({g.voter : g \in {h \in granted : h.epoch >= w.epoch
                                                          /\ h.leader = w.who}})
            > Cardinality(Sentinel)
=============================================================================
