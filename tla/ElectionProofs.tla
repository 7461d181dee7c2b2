--------------------------- MODULE ElectionProofs ---------------------------
(***************************************************************************)
(* Proofs about the votes of Sentinels (SentinelElection), for any finite  *)
(* set of Sentinels, any epochs and any number of restarts.                *)
(***************************************************************************)
EXTENDS SentinelElection, FiniteSetTheorems, TLAPS

SentinelAssumption == IsFiniteSet(Sentinel) /\ None \notin Sentinel /\ quorum \in Nat

Voters == Sentinel \cup {None}
Views == [masterDown : BOOLEAN, leader : Voters, leaderEpoch : Nat]
Memories ==
    [currentEpoch : Nat, leaderEpoch : Nat, leader : Voters, sdown : BOOLEAN, odown : BOOLEAN,
     failoverState : FailoverStates, failoverEpoch : Nat, peer : [Sentinel -> Views]]
Files == [currentEpoch : Nat, leaderEpoch : Nat]
Requests == [from : Sentinel, to : Sentinel, epoch : Nat, runid : Voters]
Grants == [voter : Sentinel, epoch : Nat, leader : Sentinel]

\* The type invariant.  A Sentinel asks only others.
ElectionTypes ==
    /\ st \in [Sentinel -> Memories]
    /\ disk \in [Sentinel -> Files]
    /\ net \subseteq Requests /\ \A q \in net : q.from # q.to
    /\ granted \subseteq Grants
    /\ won \subseteq [who : Sentinel, epoch : Nat]

\* A vote and a failover are never of an epoch the Sentinel has not reached; who
\* has voted has done so in an epoch above 0.
EpochsHold(m) ==
    /\ m.leaderEpoch <= m.currentEpoch /\ m.failoverEpoch <= m.currentEpoch
    /\ m.leader # None => m.leaderEpoch # 0

\* What is on disk is what a restart needs of the memory.
FilesHold == \A s \in Sentinel : disk[s] = Saved(st[s]) /\ EpochsHold(st[s])

\* The votes that were given are of epochs up to that of the last vote; of the
\* last one the name may have been forgotten, by a restart or a reset.
VotesHold ==
    /\ \A g \in granted : /\ g.epoch <= st[g.voter].leaderEpoch
                          /\ g.epoch = st[g.voter].leaderEpoch => st[g.voter].leader \in {None, g.leader}
    /\ \A s \in Sentinel : st[s].leader # None =>
           [voter |-> s, epoch |-> st[s].leaderEpoch, leader |-> st[s].leader] \in granted

\* An answer that names a leader reports a vote that was given; a Sentinel keeps
\* no answer of its own.
AnswersHold ==
    \A s, t \in Sentinel : st[s].peer[t].leader # None =>
        /\ t # s
        /\ [voter |-> t, epoch |-> st[s].peer[t].leaderEpoch, leader |-> st[s].peer[t].leader] \in granted

\* The inductive invariant.
VoteInv == ElectionTypes /\ FilesHold /\ VotesHold /\ OneVotePerEpoch /\ AnswersHold

----------------------------------------------------------------------------
(* Operators on the memory of one Sentinel.                                *)

\* The larger of two epochs.
LEMMA MaxOfTwo ==
    ASSUME NEW a \in Nat, NEW b \in Nat
    PROVE  Max({a, b}) = IF a >= b THEN a ELSE b
<1>1. \E x \in {a, b} : \A y \in {a, b} : x >= y
  OBVIOUS
<1>2. Max({a, b}) \in {a, b} /\ \A y \in {a, b} : Max({a, b}) >= y
  BY <1>1 DEF Max
<1> QED BY <1>2

\* What a visit or a request may do to the votes and epochs of a Sentinel.
Follows(m, v) ==
    /\ v \in Memories /\ EpochsHold(v) /\ v.currentEpoch >= m.currentEpoch
    /\ \/ v.leaderEpoch = m.leaderEpoch /\ v.leader \in {None, m.leader}
       \/ v.leaderEpoch > m.leaderEpoch /\ v.leader # None

\* A vote is kept, or replaced by one of a later epoch.
LEMMA VoteFollows ==
    ASSUME NEW m \in Memories, EpochsHold(m), NEW e \in Nat, NEW r \in Sentinel, SentinelAssumption,
           NEW v, v = sentinelVoteLeader(m, e, r)
    PROVE  /\ Follows(m, v)
           /\ v.peer = m.peer /\ v.failoverState = m.failoverState /\ v.failoverEpoch = m.failoverEpoch
           /\ v.currentEpoch = IF m.currentEpoch >= e THEN m.currentEpoch ELSE e
           /\ m.leaderEpoch < e /\ m.currentEpoch <= e => v.leaderEpoch = e
<1> DEFINE x == Max({m.currentEpoch, e})
<1>1. x = (IF m.currentEpoch >= e THEN m.currentEpoch ELSE e) /\ x \in Nat
  BY MaxOfTwo DEF Memories
<1>2. v = IF m.leaderEpoch < e /\ x <= e
          THEN [m EXCEPT !.currentEpoch = x, !.leader = r, !.leaderEpoch = x] ELSE [m EXCEPT !.currentEpoch = x]
  BY DEF sentinelVoteLeader
<1> HIDE DEF x
<1>3. r # None /\ r \in Voters
  BY DEF SentinelAssumption, Voters
<1>4. CASE m.leaderEpoch < e /\ x <= e
  <2>1. v = [m EXCEPT !.currentEpoch = x, !.leader = r, !.leaderEpoch = x]
    BY <1>2, <1>4
  <2>2. v \in Memories
    BY ZenonT(60), <1>1, <1>3, <2>1 DEF Memories
  <2>3. /\ v.currentEpoch = x /\ v.leader = r /\ v.leaderEpoch = x
        /\ v.peer = m.peer /\ v.failoverState = m.failoverState /\ v.failoverEpoch = m.failoverEpoch
    BY <2>1 DEF Memories
  <2>4. m.leaderEpoch \in Nat /\ m.currentEpoch \in Nat /\ m.failoverEpoch \in Nat
    BY DEF Memories
  <2> QED BY <1>1, <1>3, <1>4, <2>2, <2>3, <2>4 DEF Follows, EpochsHold
<1>5. CASE ~(m.leaderEpoch < e /\ x <= e)
  <2>1. v = [m EXCEPT !.currentEpoch = x]
    BY <1>2, <1>5
  <2>2. v \in Memories
    BY <1>1, <2>1 DEF Memories
  <2>3. /\ v.currentEpoch = x /\ v.leader = m.leader /\ v.leaderEpoch = m.leaderEpoch
        /\ v.peer = m.peer /\ v.failoverState = m.failoverState /\ v.failoverEpoch = m.failoverEpoch
    BY <2>1 DEF Memories
  <2>4. m.leaderEpoch \in Nat /\ m.currentEpoch \in Nat /\ m.failoverEpoch \in Nat
    BY DEF Memories
  <2> QED BY <1>1, <1>5, <2>2, <2>3, <2>4 DEF Follows, EpochsHold
<1> QED BY <1>4, <1>5

\* Who is elected has more than half of the Sentinels behind it: the peers whose
\* answers are of the current epoch, and itself if it has its own vote.
LEMMA ElectedByMost ==
    ASSUME SentinelAssumption, NEW m \in Memories, NEW s \in Sentinel, NEW joined \in Sentinel,
           sentinelGetLeader(m, s, joined) = s,
           NEW v, v = sentinelVoteLeader(m, m.failoverEpoch, joined),
           NEW V, V \subseteq Sentinel, m.peer[s].leader = None,
           \A t \in Sentinel : m.peer[t].leader = s /\ m.peer[t].leaderEpoch = m.currentEpoch => t \in V,
           v.leader = s /\ v.leaderEpoch = m.failoverEpoch => s \in V
    PROVE  2 * Cardinality(V) > Cardinality(Sentinel)
<1> DEFINE P(r) == {t \in Sentinel : m.peer[t].leader = r /\ m.peer[t].leaderEpoch = m.currentEpoch}
           own == v.leader # None /\ v.leaderEpoch = m.failoverEpoch
           votes(r) == PeerVotes(m, r) + (IF own /\ v.leader = r THEN 1 ELSE 0)
           best == IF own /\ votes(v.leader) > PeerVotes(m, joined) THEN v.leader ELSE joined
<1>1. s = IF votes(best) > Cardinality(Sentinel) \div 2 /\ votes(best) >= quorum THEN best ELSE None
  BY DEF sentinelGetLeader
<1>2. s # None
  BY DEF SentinelAssumption
<1> HIDE DEF best
<1>3. votes(s) > Cardinality(Sentinel) \div 2
  BY <1>1, <1>2
<1>4. PeerVotes(m, s) = Cardinality(P(s))
  BY DEF PeerVotes
<1>5. P(s) \subseteq V /\ s \notin P(s)
  BY <1>2
<1>6. IsFiniteSet(Sentinel) /\ IsFiniteSet(V)
  BY FS_Subset DEF SentinelAssumption
<1>7. IsFiniteSet(P(s)) /\ Cardinality(P(s)) <= Cardinality(V)
  BY <1>5, <1>6, FS_Subset
<1>8. Cardinality(V) \in Nat /\ Cardinality(P(s)) \in Nat /\ Cardinality(Sentinel) \in Nat
  BY <1>6, <1>7, FS_CardinalityType
<1> HIDE DEF P
<1>9. CASE own /\ v.leader = s
  <2>1. Cardinality(P(s) \cup {s}) = Cardinality(P(s)) + 1
    BY ZenonT(60), <1>5, <1>7, FS_AddElement
  <2>2. P(s) \cup {s} \subseteq V
    BY <1>5, <1>9
  <2>3. Cardinality(P(s) \cup {s}) <= Cardinality(V)
    BY <1>6, <2>2, FS_Subset
  <2>4. Cardinality(P(s)) + 1 > Cardinality(Sentinel) \div 2
    BY <1>3, <1>4, <1>9
  <2> QED BY <1>8, <2>1, <2>3, <2>4
<1>10. CASE ~(own /\ v.leader = s)
  <2>1. Cardinality(P(s)) + 0 > Cardinality(Sentinel) \div 2
    BY <1>3, <1>4, <1>10
  <2> QED BY <1>7, <1>8, <2>1
<1> QED BY <1>9, <1>10

\* A visit of sentinelFailoverWaitStart() votes and moves the failover on.
LEMMA WaitStartFollows ==
    ASSUME SentinelAssumption, NEW m \in Memories, EpochsHold(m), NEW s \in Sentinel,
           NEW joined \in Sentinel, NEW late \in BOOLEAN, m.failoverState = "wait_start",
           NEW v, v = sentinelFailoverWaitStart(m, s, joined, late)
    PROVE  /\ Follows(m, v) /\ v.peer = m.peer /\ v.currentEpoch = m.currentEpoch
           /\ v.leader = sentinelVoteLeader(m, m.failoverEpoch, joined).leader
           /\ v.leaderEpoch = sentinelVoteLeader(m, m.failoverEpoch, joined).leaderEpoch
           /\ v.failoverState = "select_slave" => sentinelGetLeader(m, s, joined) = s
<1>1. PICK w : w = sentinelVoteLeader(m, m.failoverEpoch, joined)
  OBVIOUS
<1>2. m.failoverEpoch \in Nat /\ m.currentEpoch \in Nat /\ m.failoverEpoch <= m.currentEpoch
  BY DEF Memories, EpochsHold
<1>3. /\ Follows(m, w) /\ w.peer = m.peer /\ w.failoverState = "wait_start"
      /\ w.currentEpoch = IF m.currentEpoch >= m.failoverEpoch THEN m.currentEpoch ELSE m.failoverEpoch
  BY <1>1, <1>2, VoteFollows
<1>4. w.currentEpoch = m.currentEpoch
  BY <1>2, <1>3
<1>5. w \in Memories /\ EpochsHold(w)
  BY <1>3 DEF Follows
<1>6. PICK x \in FailoverStates : /\ v = [w EXCEPT !.failoverState = x]
                                  /\ x = "select_slave" => sentinelGetLeader(m, s, joined) = s
  <2>1. w = [w EXCEPT !.failoverState = "wait_start"]
    BY <1>3, <1>5 DEF Memories
  <2>2. v = IF sentinelGetLeader(m, s, joined) = s THEN [w EXCEPT !.failoverState = "select_slave"]
            ELSE IF late THEN [w EXCEPT !.failoverState = "none"] ELSE w
    BY <1>1 DEF sentinelFailoverWaitStart, sentinelAbortFailover
  <2> QED BY <2>1, <2>2 DEF FailoverStates
<1>7. /\ v \in Memories /\ v.currentEpoch = w.currentEpoch /\ v.leader = w.leader
      /\ v.leaderEpoch = w.leaderEpoch /\ v.peer = w.peer /\ v.failoverState = x /\ v.failoverEpoch = w.failoverEpoch
  BY <1>5, <1>6 DEF Memories
<1>8. EpochsHold(v) /\ Follows(m, v)
  BY <1>3, <1>5, <1>7 DEF EpochsHold, Follows
<1> QED BY <1>1, <1>3, <1>4, <1>6, <1>7, <1>8

\* The down checks and the start of a failover: the vote stays, and the epoch
\* moves only together with a failover that waits for its election in it.
LEMMA ChecksFollow ==
    ASSUME NEW m \in Memories, EpochsHold(m), NEW unreachable \in BOOLEAN, NEW late \in BOOLEAN,
           NEW m1, m1 = sentinelCheckObjectivelyDown(sentinelCheckSubjectivelyDown(m, unreachable)),
           NEW m2, m2 = IF sentinelStartFailoverIfNeeded(m1, late) THEN sentinelStartFailover(m1) ELSE m1
    PROVE  /\ m2 \in Memories /\ EpochsHold(m2) /\ m2.currentEpoch >= m.currentEpoch
           /\ m2.leader = m.leader /\ m2.leaderEpoch = m.leaderEpoch /\ m2.peer = m.peer
           /\ \/ m2.currentEpoch = m.currentEpoch
              \/ /\ m2.failoverState = "wait_start" /\ m2.failoverEpoch = m2.currentEpoch
                 /\ m2.leaderEpoch < m2.failoverEpoch
<1>1. PICK m0 : m0 = [m EXCEPT !.sdown = unreachable]
  BY ZenonT(60)
<1>2. /\ m1 \in Memories /\ m1.currentEpoch = m.currentEpoch /\ m1.leader = m.leader
      /\ m1.leaderEpoch = m.leaderEpoch /\ m1.peer = m.peer /\ m1.failoverEpoch = m.failoverEpoch
  <2>1. PICK d : d = (m0.sdown /\ 1 + Cardinality({t \in Sentinel : m0.peer[t].masterDown}) >= quorum)
    BY ZenonT(60)
  <2>2. m1 = [m0 EXCEPT !.odown = d] /\ d \in BOOLEAN
    BY <1>1, <2>1 DEF sentinelCheckObjectivelyDown, sentinelCheckSubjectivelyDown
  <2>3. /\ m0 \in Memories /\ m0.currentEpoch = m.currentEpoch /\ m0.leader = m.leader
        /\ m0.leaderEpoch = m.leaderEpoch /\ m0.peer = m.peer /\ m0.failoverEpoch = m.failoverEpoch
    BY <1>1 DEF Memories
  <2> QED BY <2>2, <2>3 DEF Memories
<1>3. m.currentEpoch \in Nat /\ m.leaderEpoch \in Nat /\ m.failoverEpoch \in Nat
  BY DEF Memories
<1>4. CASE m2 = m1
  BY <1>2, <1>3, <1>4 DEF EpochsHold
<1>5. CASE m2 = sentinelStartFailover(m1)
  <2>1. m2 = [m1 EXCEPT !.failoverState = "wait_start", !.currentEpoch = m1.currentEpoch + 1,
                        !.failoverEpoch = m1.currentEpoch + 1]
    BY <1>5 DEF sentinelStartFailover
  <2>2. m1.currentEpoch + 1 \in Nat /\ "wait_start" \in FailoverStates
    BY <1>2, <1>3 DEF FailoverStates
  <2>3. m2 \in Memories
    BY ZenonT(60), <1>2, <2>1, <2>2 DEF Memories
  <2>4. /\ m2.failoverState = "wait_start" /\ m2.currentEpoch = m1.currentEpoch + 1
        /\ m2.failoverEpoch = m1.currentEpoch + 1 /\ m2.leader = m1.leader
        /\ m2.leaderEpoch = m1.leaderEpoch /\ m2.peer = m1.peer
    BY ZenonT(60), <1>2, <2>1 DEF Memories
  <2>5. /\ m2.currentEpoch = m.currentEpoch + 1 /\ m2.failoverEpoch = m.currentEpoch + 1
        /\ m2.leader = m.leader /\ m2.leaderEpoch = m.leaderEpoch /\ m2.peer = m.peer
    BY ZenonT(60), <1>2, <2>4
  <2> QED BY SMTT(60), <1>3, <2>3, <2>4, <2>5 DEF EpochsHold
<1> QED BY <1>4, <1>5

----------------------------------------------------------------------------
(* Steps.                                                                  *)

\* The votes stay unique when one Sentinel keeps its vote, forgets its name or
\* gives one of a later epoch, and the others keep theirs.
LEMMA VotesKept ==
    ASSUME VoteInv, SentinelAssumption, st' \in [Sentinel -> Memories],
           NEW s \in Sentinel, NEW v, Follows(st[s], v), granted' = granted \cup Grant(s, v),
           st'[s].leader = v.leader, st'[s].leaderEpoch = v.leaderEpoch,
           \A t \in Sentinel \ {s} : st'[t].leader = st[t].leader /\ st'[t].leaderEpoch = st[t].leaderEpoch
    PROVE  /\ granted' \subseteq Grants
           /\ VotesHold' /\ OneVotePerEpoch'
<1> DEFINE new == [voter |-> s, epoch |-> v.leaderEpoch, leader |-> v.leader]
<1>1. /\ \A t \in Sentinel : st[t] \in Memories
      /\ granted \subseteq Grants
  BY DEF VoteInv, ElectionTypes
<1>2. \A t \in Sentinel : st[t].leaderEpoch \in Nat /\ st[t].leader \in Voters
  BY <1>1 DEF Memories
<1>3. v.leaderEpoch \in Nat /\ v.leader \in Voters /\ (v.leader # None => v.leaderEpoch # 0)
  BY DEF Follows, Memories, EpochsHold
<1>4. Grant(s, v) = IF v.leader = None THEN {} ELSE {new}
  BY <1>3 DEF Grant
<1>5. v.leader # None => new \in Grants
  BY <1>3 DEF Voters, Grants
<1>6. granted' \subseteq Grants
  BY <1>1, <1>4, <1>5
<1>7. \A g \in granted : /\ g.voter \in Sentinel /\ g.epoch \in Nat /\ g.leader \in Sentinel
                         /\ g.epoch <= st[g.voter].leaderEpoch
                         /\ g.epoch = st[g.voter].leaderEpoch => st[g.voter].leader \in {None, g.leader}
  BY <1>1 DEF VoteInv, VotesHold, Grants
<1>8. \A g \in granted : g.voter = s /\ g.epoch = v.leaderEpoch => v.leader \in {None, g.leader}
  BY <1>2, <1>3, <1>7 DEF Follows
<1>9. v.leaderEpoch >= st[s].leaderEpoch
  BY <1>2, <1>3 DEF Follows
<1>10. VotesHold'
  <2>1. ASSUME NEW g \in granted'
        PROVE  /\ g.epoch <= st'[g.voter].leaderEpoch
               /\ g.epoch = st'[g.voter].leaderEpoch => st'[g.voter].leader \in {None, g.leader}
    <3>1. CASE g \in granted
      <4>1. CASE g.voter = s
        BY <1>2, <1>3, <1>7, <1>8, <1>9, <3>1, <4>1
      <4>2. CASE g.voter # s
        BY <1>7, <3>1, <4>2
      <4> QED BY <4>1, <4>2
    <3>2. CASE g \notin granted
      <4>1. g = new
        BY <1>4, <3>2
      <4> QED BY <1>3, <4>1
    <3> QED BY <3>1, <3>2
  <2>2. ASSUME NEW t \in Sentinel, st'[t].leader # None
        PROVE  [voter |-> t, epoch |-> st'[t].leaderEpoch, leader |-> st'[t].leader] \in granted'
    <3>1. CASE t = s
      BY <1>4, <2>2, <3>1
    <3>2. CASE t # s
      BY <2>2, <3>2 DEF VoteInv, VotesHold
    <3> QED BY <3>1, <3>2
  <2> QED BY <2>1, <2>2 DEF VotesHold
<1>11. OneVotePerEpoch'
  <2> SUFFICES ASSUME NEW g \in granted', NEW h \in granted', g.voter = h.voter, g.epoch = h.epoch
               PROVE  g.leader = h.leader
    BY DEF OneVotePerEpoch
  <2>1. CASE g \in granted /\ h \in granted
    BY <2>1 DEF VoteInv, OneVotePerEpoch
  <2>2. CASE g \in granted /\ h \notin granted
    <3>1. h = new /\ v.leader # None
      BY <1>4, <2>2
    <3> QED BY <1>8, <2>2, <3>1
  <2>3. CASE g \notin granted /\ h \in granted
    <3>1. g = new /\ v.leader # None
      BY <1>4, <2>3
    <3> QED BY <1>8, <2>3, <3>1
  <2>4. CASE g \notin granted /\ h \notin granted
    BY <1>4, <2>4
  <2> QED BY <2>1, <2>2, <2>3, <2>4
<1> QED BY <1>6, <1>10, <1>11

\* A visit of the timer: the Sentinel's memory follows what it was, its file is
\* written with the epochs the memory ends with, answers are only forgotten, and
\* who wins the election has its votes.
LEMMA VisitFollows ==
    ASSUME VoteInv, SentinelAssumption, NEW s \in Sentinel, NEW unreachable \in BOOLEAN,
           NEW late \in BOOLEAN, NEW stale, NEW asked, asked \subseteq Peers(s),
           HandleMaster(s, unreachable, late, stale, asked)
    PROVE  \E v : /\ Follows(st[s], v) /\ st' = [st EXCEPT ![s] = v]
                  /\ disk' = [disk EXCEPT ![s] = Saved(v)]
                  /\ granted' = granted \cup Grant(s, v)
                  /\ \A t \in Sentinel : v.peer[t].leader # None => v.peer[t] = st[s].peer[t]
                  /\ \A q \in net' \ net : q \in Requests /\ q.from # q.to
                  /\ \/ won' = won
                     \/ \E e \in Nat : /\ won' = won \cup {[who |-> s, epoch |-> e]}
                                       /\ 2 * Cardinality({g.voter : g \in {h \in granted' : h.epoch >= e
                                                                                 /\ h.leader = s}})
                                              > Cardinality(Sentinel)
<1>1. PICK m : m = st[s]
  OBVIOUS
<1>2. PICK m1 : m1 = sentinelCheckObjectivelyDown(sentinelCheckSubjectivelyDown(m, unreachable))
  OBVIOUS
<1>3. PICK m2 : m2 = IF sentinelStartFailoverIfNeeded(m1, late) THEN sentinelStartFailover(m1) ELSE m1
  OBVIOUS
<1>4. PICK over \in BOOLEAN : over = (late /\ ~sentinelStartFailoverIfNeeded(m1, late))
  BY ZenonT(60)
<1> DEFINE M3(j) == IF m2.failoverState = "wait_start" THEN sentinelFailoverWaitStart(m2, s, j, over) ELSE m2
<1>5. PICK joined \in Joinable(m2, s) :
          /\ st' = [st EXCEPT ![s] = Forget(M3(joined), stale)]
          /\ disk' = [disk EXCEPT ![s] =
                  IF m2.failoverState = "wait_start" /\ M3(joined).leaderEpoch # m2.leaderEpoch
                  THEN Saved(M3(joined)) ELSE @]
          /\ \E n \in {m2, Forget(M3(joined), stale)} : net' = net \cup Ask(n, s, asked)
          /\ granted' = granted \cup Grant(s, M3(joined))
          /\ won' = IF m2.failoverState = "wait_start" /\ M3(joined).failoverState = "select_slave"
                    THEN won \cup {[who |-> s, epoch |-> m2.failoverEpoch]} ELSE won
  BY ZenonT(60), <1>1, <1>2, <1>3, <1>4 DEF HandleMaster
<1>5a. PICK m3 : m3 = M3(joined)
  OBVIOUS
<1>5b. PICK m4 : m4 = Forget(m3, stale)
  OBVIOUS
<1>5c. m3 = IF m2.failoverState = "wait_start" THEN sentinelFailoverWaitStart(m2, s, joined, over) ELSE m2
  BY <1>5a
<1>5d. /\ st' = [st EXCEPT ![s] = m4]
       /\ disk' = [disk EXCEPT ![s] =
                  IF m2.failoverState = "wait_start" /\ m3.leaderEpoch # m2.leaderEpoch THEN Saved(m3) ELSE @]
       /\ \E n \in {m2, m4} : net' = net \cup Ask(n, s, asked)
       /\ granted' = granted \cup Grant(s, m3)
       /\ won' = IF m2.failoverState = "wait_start" /\ m3.failoverState = "select_slave"
                 THEN won \cup {[who |-> s, epoch |-> m2.failoverEpoch]} ELSE won
  BY ZenonT(60), <1>5, <1>5a, <1>5b
<1> HIDE DEF M3
<1>6. m \in Memories /\ EpochsHold(m) /\ disk[s] = Saved(m) /\ disk \in [Sentinel -> Files]
  BY <1>1 DEF VoteInv, ElectionTypes, FilesHold
<1>7. /\ m2 \in Memories /\ EpochsHold(m2) /\ m2.currentEpoch >= m.currentEpoch
      /\ m2.leader = m.leader /\ m2.leaderEpoch = m.leaderEpoch /\ m2.peer = m.peer
      /\ \/ m2.currentEpoch = m.currentEpoch
         \/ /\ m2.failoverState = "wait_start" /\ m2.failoverEpoch = m2.currentEpoch
            /\ m2.leaderEpoch < m2.failoverEpoch
  BY <1>2, <1>3, <1>6, ChecksFollow
<1>8. /\ m.currentEpoch \in Nat /\ m.leaderEpoch \in Nat /\ m2.currentEpoch \in Nat
      /\ m2.leaderEpoch \in Nat /\ m2.failoverEpoch \in Nat
  BY <1>6, <1>7 DEF Memories
<1>9. joined \in Sentinel
  BY <1>5 DEF Joinable, MostVoted
<1>10. PICK w : w = sentinelVoteLeader(m2, m2.failoverEpoch, joined)
  BY ZenonT(60)
<1>11. m2.failoverState = "wait_start" =>
                  /\ Follows(m2, m3) /\ m3.peer = m2.peer /\ m3.currentEpoch = m2.currentEpoch
                  /\ m3.leader = w.leader /\ m3.leaderEpoch = w.leaderEpoch
                  /\ m3.failoverState = "select_slave" => sentinelGetLeader(m2, s, joined) = s
  BY SMTT(60), <1>5c, <1>7, <1>9, <1>10, WaitStartFollows
<1>12. Follows(m, m3) /\ m3.peer = m.peer /\ m3 \in Memories /\ EpochsHold(m3)
  <2>1. CASE m2.failoverState = "wait_start"
    <3>1. m3.leaderEpoch \in Nat /\ m3.currentEpoch \in Nat
      BY <1>11, <2>1 DEF Follows, Memories
    <3> QED BY <1>7, <1>8, <1>11, <2>1, <3>1 DEF Follows
  <2>2. CASE m2.failoverState # "wait_start"
    BY ZenonT(60), <1>5c, <1>7, <1>8, <2>2 DEF Follows
  <2> QED BY ZenonT(60), <2>1, <2>2
<1>13. disk' = [disk EXCEPT ![s] = Saved(m3)]
  <2>1. CASE m2.failoverState = "wait_start" /\ m3.leaderEpoch # m2.leaderEpoch
    BY <1>5d, <2>1
  <2>2. CASE ~(m2.failoverState = "wait_start" /\ m3.leaderEpoch # m2.leaderEpoch)
    <3>1. m2.leaderEpoch < m2.failoverEpoch /\ m2.currentEpoch <= m2.failoverEpoch
              => w.leaderEpoch = m2.failoverEpoch
      BY <1>7, <1>8, <1>9, <1>10, VoteFollows
    <3>2. m2.currentEpoch = m.currentEpoch
      BY <1>7, <1>8, <1>11, <2>2, <3>1
    <3>3. m3.currentEpoch = m.currentEpoch /\ m3.leaderEpoch = m.leaderEpoch
      BY <1>5c, <1>7, <1>11, <2>2, <3>2
    <3>4. Saved(m3) = disk[s]
      BY <1>6, <3>3 DEF Saved
    <3> QED BY ZenonT(60), <1>5d, <2>2, <3>4
  <2> QED BY ZenonT(60), <2>1, <2>2
<1>14. /\ m4 \in Memories /\ m4.currentEpoch = m3.currentEpoch /\ m4.leader = m3.leader
       /\ m4.leaderEpoch = m3.leaderEpoch /\ m4.failoverEpoch = m3.failoverEpoch
       /\ m4.failoverState = m3.failoverState
       /\ \A t \in Sentinel : m4.peer[t].leader # None => m4.peer[t] = m3.peer[t]
  <2>1. PICK p : p = [t \in Sentinel |->
            IF t \in stale THEN [m3.peer[t] EXCEPT !.masterDown = FALSE, !.leader = None] ELSE m3.peer[t]]
    BY ZenonT(60)
  <2>2. m4 = [m3 EXCEPT !.peer = p]
    BY ZenonT(60), <1>5b, <2>1 DEF Forget
  <2>3. m3.peer \in [Sentinel -> Views]
    BY ZenonT(60), <1>12 DEF Memories
  <2>4. \A t \in Sentinel : p[t] \in Views /\ (p[t].leader # None => p[t] = m3.peer[t])
    BY ZenonT(60), <2>1, <2>3 DEF Views, Voters
  <2>5. p \in [Sentinel -> Views]
    BY ZenonT(60), <2>1, <2>4
  <2>6. m4 \in Memories /\ m4.peer = p
    BY <1>12, <2>2, <2>5 DEF Memories
  <2>7. /\ m4.currentEpoch = m3.currentEpoch /\ m4.leader = m3.leader
        /\ m4.leaderEpoch = m3.leaderEpoch /\ m4.failoverEpoch = m3.failoverEpoch
        /\ m4.failoverState = m3.failoverState
    BY <1>12, <2>2 DEF Memories
  <2> QED BY ZenonT(60), <2>4, <2>6, <2>7
<1>15. Follows(m, m4)
  BY ZenonT(60), <1>12, <1>14 DEF Follows, EpochsHold
<1>16. Saved(m4) = Saved(m3) /\ Grant(s, m4) = Grant(s, m3)
  BY <1>14 DEF Saved, Grant
<1>17. \A q \in net' \ net : q \in Requests /\ q.from # q.to
  <2>1. PICK n \in Memories : net' = net \cup Ask(n, s, asked)
    BY <1>5d, <1>7, <1>14
  <2>2. n.currentEpoch \in Nat
    BY <2>1 DEF Memories
  <2>3. \A q \in Ask(n, s, asked) : q \in Requests /\ q.from # q.to
    BY <2>2 DEF Ask, Requests, Peers, Voters
  <2> QED BY ZenonT(60), <2>1, <2>3
<1>18. ASSUME m2.failoverState = "wait_start", m3.failoverState = "select_slave"
       PROVE  2 * Cardinality({g.voter : g \in {h \in granted' : h.epoch >= m2.failoverEpoch
                                                                /\ h.leader = s}})
                  > Cardinality(Sentinel)
  <2> DEFINE V == {g.voter : g \in {h \in granted' : h.epoch >= m2.failoverEpoch /\ h.leader = s}}
  <2>1. granted' \subseteq Grants
    <3>1. st' \in [Sentinel -> Memories]
      BY <1>5d, <1>14 DEF VoteInv, ElectionTypes
    <3>2. st'[s] = m4 /\ \A t \in Sentinel \ {s} : st'[t] = st[t]
      BY <1>5d DEF VoteInv, ElectionTypes
    <3>3. Follows(st[s], m4) /\ granted' = granted \cup Grant(s, m4)
      BY <1>1, <1>5d, <1>15, <1>16
    <3> QED BY ZenonT(60), <3>1, <3>2, <3>3, VotesKept
  <2>2. V \subseteq Sentinel
    BY <2>1 DEF Grants
  <2>3. m2.failoverEpoch <= m2.currentEpoch
    BY <1>7 DEF EpochsHold
  <2>4. \A t \in Sentinel : m2.peer[t].leader # None =>
            /\ t # s
            /\ [voter |-> t, epoch |-> m2.peer[t].leaderEpoch, leader |-> m2.peer[t].leader] \in granted'
    <3>1. m2.peer = st[s].peer /\ granted \subseteq granted'
      BY <1>1, <1>5d, <1>7
    <3> QED BY ZenonT(60), <3>1 DEF VoteInv, AnswersHold
  <2>5. \A t \in Sentinel : m2.peer[t].leader = s /\ m2.peer[t].leaderEpoch = m2.currentEpoch => t \in V
    <3> SUFFICES ASSUME NEW t \in Sentinel, m2.peer[t].leader = s, m2.peer[t].leaderEpoch = m2.currentEpoch
                 PROVE  t \in V
      OBVIOUS
    <3>1. [voter |-> t, epoch |-> m2.currentEpoch, leader |-> s] \in granted'
      BY <2>4 DEF SentinelAssumption
    <3>2. m2.currentEpoch >= m2.failoverEpoch
      BY <1>8, <2>3
    <3> QED BY <3>1, <3>2
  <2>6. m2.peer[s].leader = None
    BY ZenonT(60), <2>4
  <2>7. w.leader = s /\ w.leaderEpoch = m2.failoverEpoch => s \in V
    <3> SUFFICES ASSUME w.leader = s, w.leaderEpoch = m2.failoverEpoch
                 PROVE  s \in V
      OBVIOUS
    <3>1. m3.leader = s /\ m3.leaderEpoch = m2.failoverEpoch /\ s # None
      BY <1>11, <1>18 DEF SentinelAssumption
    <3>2. m3.leaderEpoch # 0
      BY <1>12, <3>1 DEF EpochsHold
    <3>3. [voter |-> s, epoch |-> m2.failoverEpoch, leader |-> s] \in granted'
      BY <1>5d, <3>1, <3>2 DEF Grant
    <3> QED BY <1>8, <3>3
  <2>8. sentinelGetLeader(m2, s, joined) = s
    BY ZenonT(60), <1>11, <1>18
  <2> HIDE DEF V
  <2>9. 2 * Cardinality(V) > Cardinality(Sentinel)
    BY SMTT(60), <1>7, <1>9, <1>10, <2>2, <2>5, <2>6, <2>7, <2>8, ElectedByMost
  <2> QED BY <2>9 DEF V
<1>19. \/ won' = won
       \/ \E e \in Nat : /\ won' = won \cup {[who |-> s, epoch |-> e]}
                         /\ 2 * Cardinality({g.voter : g \in {h \in granted' : h.epoch >= e /\ h.leader = s}})
                                > Cardinality(Sentinel)
  BY ZenonT(60), <1>5d, <1>8, <1>18
<1>20. \A t \in Sentinel : m4.peer[t].leader # None => m4.peer[t] = st[s].peer[t]
  BY <1>1, <1>12, <1>14
<1>21. granted' = granted \cup Grant(s, m4) /\ disk' = [disk EXCEPT ![s] = Saved(m4)] /\ st' = [st EXCEPT ![s] = m4]
  BY ZenonT(60), <1>5d, <1>13, <1>16
<1>22. Follows(st[s], m4)
  BY <1>1, <1>15
<1> QED BY ZenonT(60), <1>17, <1>19, <1>20, <1>21, <1>22

\* Votes are never taken back, so a majority stays one.
LEMMA MajorityKept ==
    ASSUME SentinelAssumption, WinnerHasMajority, granted \subseteq granted', granted' \subseteq Grants,
           NEW w \in won
    PROVE  2 * Cardinality({g.voter : g \in {h \in granted' : h.epoch >= w.epoch /\ h.leader = w.who}})
               > Cardinality(Sentinel)
<1> DEFINE V == {g.voter : g \in {h \in granted : h.epoch >= w.epoch /\ h.leader = w.who}}
           W == {g.voter : g \in {h \in granted' : h.epoch >= w.epoch /\ h.leader = w.who}}
<1>1. V \subseteq W /\ W \subseteq Sentinel
  BY DEF Grants
<1>2. 2 * Cardinality(V) > Cardinality(Sentinel)
  BY DEF WinnerHasMajority
<1> HIDE DEF V, W
<1>3. IsFiniteSet(W) /\ IsFiniteSet(V) /\ Cardinality(V) <= Cardinality(W)
  BY <1>1, FS_Subset DEF SentinelAssumption
<1>4. Cardinality(V) \in Nat /\ Cardinality(W) \in Nat /\ Cardinality(Sentinel) \in Nat
  BY <1>3, FS_CardinalityType DEF SentinelAssumption
<1>5. 2 * Cardinality(W) > Cardinality(Sentinel)
  BY <1>2, <1>3, <1>4
<1> QED BY <1>5 DEF W

\* Whether a Sentinel is cut off is a truth value.
LEMMA CutOrNot == \A s : \E unreachable \in BOOLEAN : unreachable = (s \in Cut)
<1>1. ASSUME NEW s, s \in Cut PROVE TRUE = (s \in Cut)
  BY SMT, <1>1
<1>2. ASSUME NEW s, s \notin Cut PROVE FALSE = (s \in Cut)
  BY SMT, <1>2
<1> QED BY ZenonT(60), <1>1, <1>2

\* A visit of the timer.
LEMMA VisitKeeps ==
    ASSUME VoteInv, SentinelAssumption, NEW s \in Sentinel, sentinelTimer(s)
    PROVE  VoteInv' /\ EpochNeverGoesBack /\ (WinnerHasMajority => WinnerHasMajority')
<1>1. \E late \in BOOLEAN : \E unreachable \in BOOLEAN : \E old, asked :
          asked \subseteq Peers(s) /\ HandleMaster(s, unreachable, late, old, asked)
  <2> DEFINE free == {t \in Peers(s) : ~ \E q \in net : {q.from, q.to} = {s, t}}
  <2>1. PICK late \in BOOLEAN, old \in {{}, Peers(s)} : HandleMaster(s, s \in Cut, late, old, free)
    BY ZenonT(60) DEF sentinelTimer
  <2>2. PICK unreachable \in BOOLEAN : unreachable = (s \in Cut)
    BY ZenonT(60), CutOrNot
  <2>3. HandleMaster(s, unreachable, late, old, free)
    BY SMTT(30), <2>1, <2>2
  <2>4. free \subseteq Peers(s)
    BY ZenonT(60)
  <2> QED BY ZenonT(60), <2>3, <2>4
<1>2. PICK v : /\ Follows(st[s], v) /\ st' = [st EXCEPT ![s] = v]
               /\ disk' = [disk EXCEPT ![s] = Saved(v)]
               /\ granted' = granted \cup Grant(s, v)
               /\ \A t \in Sentinel : v.peer[t].leader # None => v.peer[t] = st[s].peer[t]
               /\ \A q \in net' \ net : q \in Requests /\ q.from # q.to
               /\ \/ won' = won
                  \/ \E e \in Nat : /\ won' = won \cup {[who |-> s, epoch |-> e]}
                                    /\ 2 * Cardinality({g.voter : g \in {h \in granted' : h.epoch >= e
                                                                              /\ h.leader = s}})
                                           > Cardinality(Sentinel)
  BY ZenonT(200), <1>1, VisitFollows
<1>3. v \in Memories /\ EpochsHold(v) /\ v.currentEpoch >= st[s].currentEpoch
  BY <1>2 DEF Follows
<1>4. /\ st \in [Sentinel -> Memories] /\ disk \in [Sentinel -> Files] /\ won \subseteq [who : Sentinel, epoch : Nat]
      /\ net \subseteq Requests /\ \A q \in net : q.from # q.to
  BY DEF VoteInv, ElectionTypes
<1>5. st' \in [Sentinel -> Memories] /\ st'[s] = v /\ \A t \in Sentinel \ {s} : st'[t] = st[t]
  BY <1>2, <1>3, <1>4
<1>6. granted' \subseteq Grants /\ VotesHold' /\ OneVotePerEpoch'
  BY <1>2, <1>5, VotesKept
<1>7. ElectionTypes'
  <2>1. Saved(v) \in Files
    BY <1>3 DEF Saved, Files, Memories
  <2>2. disk' \in [Sentinel -> Files]
    BY <1>2, <1>4, <2>1
  <2>3. won' \subseteq [who : Sentinel, epoch : Nat]
    <3>1. \/ won' = won
          \/ \E e \in Nat : won' = won \cup {[who |-> s, epoch |-> e]}
      BY ZenonT(60), <1>2
    <3> QED BY <1>4, <3>1
  <2>4. net' \subseteq Requests /\ \A q \in net' : q.from # q.to
    BY <1>2, <1>4
  <2> QED BY <1>5, <1>6, <2>2, <2>3, <2>4 DEF ElectionTypes
<1>8. FilesHold'
  <2> SUFFICES ASSUME NEW t \in Sentinel
               PROVE  disk'[t] = Saved(st'[t]) /\ EpochsHold(st'[t])
    BY DEF FilesHold
  <2>1. CASE t = s
    BY <1>2, <1>3, <1>4, <1>5, <2>1
  <2>2. CASE t # s
    BY <1>2, <1>4, <1>5, <2>2 DEF VoteInv, FilesHold
  <2> QED BY <2>1, <2>2
<1>9. AnswersHold'
  <2> SUFFICES ASSUME NEW a \in Sentinel, NEW t \in Sentinel, st'[a].peer[t].leader # None
               PROVE  /\ t # a
                      /\ [voter |-> t, epoch |-> st'[a].peer[t].leaderEpoch,
                          leader |-> st'[a].peer[t].leader] \in granted'
    BY DEF AnswersHold
  <2>1. st'[a].peer[t] = st[a].peer[t]
    <3>1. CASE a = s
      BY <1>2, <1>5, <3>1
    <3>2. CASE a # s
      BY ZenonT(60), <1>5, <3>2
    <3> QED BY <3>1, <3>2
  <2>2. granted \subseteq granted'
    BY <1>2
  <2> QED BY ZenonT(60), <2>1, <2>2 DEF VoteInv, AnswersHold
<1>10. EpochNeverGoesBack
  <2>1. \A t \in Sentinel : st[t].currentEpoch \in Nat
    BY <1>4 DEF Memories
  <2> QED BY <1>3, <1>5, <2>1 DEF EpochNeverGoesBack
<1>11. WinnerHasMajority => WinnerHasMajority'
  <2> SUFFICES ASSUME WinnerHasMajority, NEW w \in won'
               PROVE  2 * Cardinality({g.voter : g \in {h \in granted' : h.epoch >= w.epoch /\ h.leader = w.who}})
                          > Cardinality(Sentinel)
    BY ZenonT(60) DEF WinnerHasMajority
  <2>1. CASE w \in won
    BY ZenonT(60), <1>2, <1>6, <2>1, MajorityKept
  <2>2. CASE w \notin won
    <3>1. PICK e \in Nat : /\ w = [who |-> s, epoch |-> e]
                          /\ 2 * Cardinality({g.voter : g \in {h \in granted' : h.epoch >= e /\ h.leader = s}})
                                 > Cardinality(Sentinel)
      BY ZenonT(60), <1>2, <2>2
    <3>2. w.who = s /\ w.epoch = e
      BY <3>1
    <3> QED BY ZenonT(60), <3>1, <3>2
  <2> QED BY <2>1, <2>2
<1> QED BY ZenonT(60), <1>6, <1>7, <1>8, <1>9, <1>10, <1>11 DEF VoteInv

\* A request: the receiver's vote follows what it was, and the sender keeps the
\* answer, a vote the receiver has given.
LEMMA RequestKeeps ==
    ASSUME VoteInv, SentinelAssumption, NEW t \in Sentinel, NEW q \in net, isMasterDownByAddr(t, q)
    PROVE  VoteInv' /\ EpochNeverGoesBack /\ (WinnerHasMajority => WinnerHasMajority')
<1>1. PICK m : m = IF q.runid = None THEN st[t] ELSE sentinelVoteLeader(st[t], q.epoch, q.runid)
  OBVIOUS
<1>2. PICK a : a = [down |-> m.sdown, leader |-> IF q.runid = None THEN None ELSE m.leader,
                    epoch |-> IF q.runid = None THEN 0 ELSE m.leaderEpoch]
  BY ZenonT(60)
<1>3. PICK p : p = q.from
  OBVIOUS
<1>4. /\ q.to = t
      /\ st' = [st EXCEPT ![t] = m, ![p].peer[t] = sentinelReceiveIsMasterDownReply(@, a)]
      /\ disk' = IF Saved(m) # Saved(st[t]) THEN [disk EXCEPT ![t] = Saved(m)] ELSE disk
      /\ net' = net \ {q}
      /\ granted' = IF q.runid = None THEN granted ELSE granted \cup Grant(t, m)
      /\ won' = won
  BY ZenonT(60), <1>1, <1>2, <1>3 DEF isMasterDownByAddr
<1>5. /\ st \in [Sentinel -> Memories] /\ disk \in [Sentinel -> Files] /\ won \subseteq [who : Sentinel, epoch : Nat]
      /\ net \subseteq Requests /\ \A r \in net : r.from # r.to
  BY DEF VoteInv, ElectionTypes
<1>6. p \in Sentinel /\ p # t /\ q.epoch \in Nat /\ q.runid \in Voters
  BY <1>3, <1>4, <1>5 DEF Requests
<1>7. Follows(st[t], m) /\ m.peer = st[t].peer
  <2>1. st[t] \in Memories /\ EpochsHold(st[t])
    BY <1>5 DEF VoteInv, FilesHold
  <2>2. CASE q.runid = None
    <3>1. m = st[t] /\ m.currentEpoch \in Nat
      BY ZenonT(60), <1>1, <2>1, <2>2 DEF Memories
    <3> QED BY <2>1, <3>1 DEF Follows
  <2>3. CASE q.runid # None
    <3>1. q.runid \in Sentinel
      BY <1>6, <2>3 DEF Voters
    <3> QED BY <1>1, <1>6, <2>1, <2>3, <3>1, VoteFollows
  <2> QED BY <2>2, <2>3
<1>8. m \in Memories /\ EpochsHold(m) /\ m.currentEpoch >= st[t].currentEpoch
  BY <1>7 DEF Follows
<1>9. PICK view : view = st[p].peer[t]
  OBVIOUS
<1>10. PICK n : n = sentinelReceiveIsMasterDownReply(view, a)
  OBVIOUS
<1>11. /\ st' \in [Sentinel -> Memories]
       /\ st'[t] = m /\ st'[p] = [st[p] EXCEPT !.peer[t] = n]
       /\ \A u \in Sentinel \ {t, p} : st'[u] = st[u]
  <2>1. view \in Views
    BY <1>5, <1>6, <1>9 DEF Memories
  <2>2. m.sdown \in BOOLEAN /\ m.leader \in Voters /\ m.leaderEpoch \in Nat
    BY <1>8 DEF Memories
  <2>3. a.down \in BOOLEAN /\ a.leader \in Voters /\ a.epoch \in Nat
    BY <1>2, <2>2 DEF Voters
  <2>4. n \in Views
    BY <1>10, <2>1, <2>3 DEF sentinelReceiveIsMasterDownReply, Views
  <2>5. st[p] \in Memories
    BY <1>5, <1>6
  <2>6. [st[p] EXCEPT !.peer[t] = n] \in Memories
    BY <2>4, <2>5 DEF Memories
  <2>7. st' = [[st EXCEPT ![t] = m] EXCEPT ![p] = [st[p] EXCEPT !.peer[t] = n]]
    BY <1>4, <1>5, <1>6, <1>9, <1>10
  <2> QED BY <1>5, <1>6, <1>8, <2>6, <2>7
<1>12. /\ st'[p].leader = st[p].leader /\ st'[p].leaderEpoch = st[p].leaderEpoch
       /\ st'[p].currentEpoch = st[p].currentEpoch /\ st'[p].failoverEpoch = st[p].failoverEpoch
       /\ st'[p].peer = [st[p].peer EXCEPT ![t] = n]
  BY <1>5, <1>6, <1>11 DEF Memories
<1>13. granted' = granted \cup Grant(t, m)
  <2>1. CASE q.runid = None
    <3>1. m = st[t]
      BY <1>1, <2>1
    <3>2. Grant(t, st[t]) \subseteq granted
      BY DEF Grant, VoteInv, VotesHold
    <3> QED BY <1>4, <2>1, <3>1, <3>2
  <2>2. CASE q.runid # None
    BY <1>4, <2>2
  <2> QED BY <2>1, <2>2
<1>14. granted' \subseteq Grants /\ VotesHold' /\ OneVotePerEpoch'
  BY ZenonT(60), <1>7, <1>11, <1>12, <1>13, VotesKept
<1>15. disk' = [disk EXCEPT ![t] = Saved(m)]
  <2>1. disk[t] = Saved(st[t])
    BY DEF VoteInv, FilesHold
  <2> QED BY ZenonT(60), <1>4, <1>5, <2>1
<1>16. ElectionTypes'
  <2>1. Saved(m) \in Files
    BY ZenonT(60), <1>8 DEF Saved, Files, Memories
  <2>2. disk' \in [Sentinel -> Files]
    BY ZenonT(60), <1>5, <1>15, <2>1
  <2> QED BY <1>4, <1>5, <1>11, <1>14, <2>2 DEF ElectionTypes
<1>17. FilesHold'
  <2> SUFFICES ASSUME NEW u \in Sentinel
               PROVE  disk'[u] = Saved(st'[u]) /\ EpochsHold(st'[u])
    BY DEF FilesHold
  <2>1. CASE u = t
    BY ZenonT(60), <1>5, <1>8, <1>11, <1>15, <2>1
  <2>2. CASE u = p
    <3>1. disk'[p] = disk[p] /\ disk[p] = Saved(st[p]) /\ EpochsHold(st[p])
      BY <1>5, <1>6, <1>15 DEF VoteInv, FilesHold
    <3> QED BY ZenonT(60), <1>12, <2>2, <3>1 DEF Saved, EpochsHold
  <2>3. CASE u \notin {t, p}
    BY ZenonT(60), <1>5, <1>11, <1>15, <2>3 DEF VoteInv, FilesHold
  <2> QED BY ZenonT(60), <2>1, <2>2, <2>3
<1>18. AnswersHold'
  <2> SUFFICES ASSUME NEW b \in Sentinel, NEW u \in Sentinel, st'[b].peer[u].leader # None
               PROVE  /\ u # b
                      /\ [voter |-> u, epoch |-> st'[b].peer[u].leaderEpoch,
                          leader |-> st'[b].peer[u].leader] \in granted'
    BY DEF AnswersHold
  <2>1. \A c, d \in Sentinel : st[c].peer[d].leader # None =>
            /\ d # c
            /\ [voter |-> d, epoch |-> st[c].peer[d].leaderEpoch, leader |-> st[c].peer[d].leader] \in granted'
    <3>1. granted \subseteq granted'
      BY <1>13
    <3> QED BY ZenonT(60), <3>1 DEF VoteInv, AnswersHold
  <2>2. CASE b = p /\ u = t
    <3>1. st'[p].peer[t] = n
      BY <1>5, <1>6, <1>12 DEF Memories
    <3>2. CASE a.leader = None
      <4>1. n.leader = view.leader /\ n.leaderEpoch = view.leaderEpoch
        BY ZenonT(60), <1>10, <3>2 DEF sentinelReceiveIsMasterDownReply
      <4> QED BY ZenonT(60), <1>6, <1>9, <2>1, <2>2, <3>1, <4>1
    <3>3. CASE a.leader # None
      <4>1. n.leader = a.leader /\ n.leaderEpoch = a.epoch
        BY ZenonT(60), <1>10, <3>3 DEF sentinelReceiveIsMasterDownReply
      <4>2. a.leader = m.leader /\ a.epoch = m.leaderEpoch
        BY <1>2, <3>3
      <4>3. st'[t].leader = a.leader /\ st'[t].leaderEpoch = a.epoch
        BY ZenonT(60), <1>11, <4>2
      <4>4. [voter |-> t, epoch |-> a.epoch, leader |-> a.leader] \in granted'
        BY <1>14, <3>3, <4>3 DEF VotesHold
      <4> QED BY ZenonT(60), <1>6, <2>2, <3>1, <4>1, <4>4
    <3> QED BY ZenonT(60), <3>2, <3>3
  <2>3. CASE ~(b = p /\ u = t)
    <3>1. st'[b].peer[u] = st[b].peer[u]
      <4>1. CASE b = p
        BY <1>5, <1>6, <1>12, <2>3, <4>1 DEF Memories
      <4>2. CASE b = t
        BY <1>7, <1>11, <4>2
      <4>3. CASE b \notin {p, t}
        BY ZenonT(60), <1>11, <4>3
      <4> QED BY ZenonT(60), <4>1, <4>2, <4>3
    <3> QED BY ZenonT(60), <2>1, <3>1
  <2> QED BY <2>2, <2>3
<1>19. EpochNeverGoesBack
  <2>1. \A u \in Sentinel : st[u].currentEpoch \in Nat
    BY <1>5 DEF Memories
  <2>2. ASSUME NEW u \in Sentinel
        PROVE  st'[u].currentEpoch >= st[u].currentEpoch
    <3>1. CASE u = t
      BY <1>8, <1>11, <3>1
    <3>2. CASE u = p
      BY <1>12, <2>1, <3>2
    <3>3. CASE u \notin {t, p}
      BY <1>11, <2>1, <3>3
    <3> QED BY <3>1, <3>2, <3>3
  <2> QED BY <2>2 DEF EpochNeverGoesBack
<1>20. WinnerHasMajority => WinnerHasMajority'
  BY <1>4, <1>13, <1>14, MajorityKept DEF WinnerHasMajority
<1> QED BY <1>14, <1>16, <1>17, <1>18, <1>19, <1>20 DEF VoteInv

\* The remaining steps give no vote: a newer epoch heard of, the end of a
\* failover, and a restart from the file, which forgets the name of the last
\* vote but not its epoch.
LEMMA OthersKeep ==
    ASSUME VoteInv, SentinelAssumption, NEW s \in Sentinel,
           (\E t \in Peers(s) : ReceiveHello(s, t)) \/ FailoverEnds(s) \/ Restart(s)
    PROVE  VoteInv' /\ EpochNeverGoesBack /\ (WinnerHasMajority => WinnerHasMajority')
<1>1. /\ st \in [Sentinel -> Memories] /\ disk \in [Sentinel -> Files] /\ won \subseteq [who : Sentinel, epoch : Nat]
      /\ net \subseteq Requests /\ \A q \in net : q.from # q.to
  BY ZenonT(60) DEF VoteInv, ElectionTypes
<1>2. /\ st[s] \in Memories /\ EpochsHold(st[s]) /\ disk[s] = Saved(st[s])
      /\ st[s].currentEpoch \in Nat /\ st[s].leaderEpoch \in Nat /\ st[s].failoverEpoch \in Nat
  BY <1>1 DEF VoteInv, FilesHold, Memories
<1>3. granted' = granted /\ won' = won /\ net' \subseteq net
  BY ZenonT(60) DEF ReceiveHello, FailoverEnds, Restart
<1>4. \E v : /\ st' = [st EXCEPT ![s] = v] /\ disk' = [disk EXCEPT ![s] = Saved(v)]
             /\ v \in Memories /\ EpochsHold(v) /\ v.currentEpoch >= st[s].currentEpoch
             /\ v.leaderEpoch = st[s].leaderEpoch /\ v.leader \in {None, st[s].leader}
             /\ \A t \in Sentinel : v.peer[t].leader # None => v.peer[t] = st[s].peer[t]
  <2>1. ASSUME NEW t \in Peers(s), ReceiveHello(s, t)
        PROVE  \E v : /\ st' = [st EXCEPT ![s] = v] /\ disk' = [disk EXCEPT ![s] = Saved(v)]
                      /\ v \in Memories /\ EpochsHold(v) /\ v.currentEpoch >= st[s].currentEpoch
                      /\ v.leaderEpoch = st[s].leaderEpoch /\ v.leader \in {None, st[s].leader}
                      /\ \A u \in Sentinel : v.peer[u].leader # None => v.peer[u] = st[s].peer[u]
    <3>1. PICK e : e = st[t].currentEpoch
      OBVIOUS
    <3>2. e \in Nat /\ e > st[s].currentEpoch
      BY <1>1, <2>1, <3>1 DEF ReceiveHello, Peers, Memories
    <3>3. PICK v : v = [st[s] EXCEPT !.currentEpoch = e]
      BY ZenonT(60)
    <3>4. /\ v \in Memories /\ v.currentEpoch = e /\ v.leaderEpoch = st[s].leaderEpoch
          /\ v.leader = st[s].leader /\ v.failoverEpoch = st[s].failoverEpoch /\ v.peer = st[s].peer
      BY <1>2, <3>2, <3>3 DEF Memories
    <3>5. st' = [st EXCEPT ![s] = v]
      BY <1>1, <2>1, <3>1, <3>3 DEF ReceiveHello
    <3>6. disk' = [disk EXCEPT ![s] = Saved(v)]
      BY ZenonT(60), <1>1, <2>1, <3>5 DEF ReceiveHello
    <3>7. EpochsHold(v)
      BY <1>2, <3>2, <3>4 DEF EpochsHold
    <3>8. v.currentEpoch >= st[s].currentEpoch
      BY <1>2, <3>2, <3>4
    <3> QED BY ZenonT(60), <3>4, <3>5, <3>6, <3>7, <3>8
  <2>2. ASSUME FailoverEnds(s)
        PROVE  \E v : /\ st' = [st EXCEPT ![s] = v] /\ disk' = [disk EXCEPT ![s] = Saved(v)]
                      /\ v \in Memories /\ EpochsHold(v) /\ v.currentEpoch >= st[s].currentEpoch
                      /\ v.leaderEpoch = st[s].leaderEpoch /\ v.leader \in {None, st[s].leader}
                      /\ \A u \in Sentinel : v.peer[u].leader # None => v.peer[u] = st[s].peer[u]
    <3>1. PICK v : /\ st' = [st EXCEPT ![s] = v] /\ disk' = disk
                   /\ \/ v = [st[s] EXCEPT !.failoverState = "none"]
                      \/ v = [st[s] EXCEPT !.failoverState = "none", !.leader = None,
                                           !.sdown = FALSE, !.odown = FALSE]
      BY ZenonT(60), <2>2 DEF FailoverEnds, sentinelAbortFailover
    <3>2. /\ v \in Memories /\ v.currentEpoch = st[s].currentEpoch /\ v.leaderEpoch = st[s].leaderEpoch
          /\ v.leader \in {None, st[s].leader} /\ v.failoverEpoch = st[s].failoverEpoch /\ v.peer = st[s].peer
      BY ZenonT(60), <1>2, <3>1 DEF Memories, FailoverStates, Voters
    <3>3. Saved(v) = disk[s]
      BY <1>2, <3>2 DEF Saved
    <3>4. disk' = [disk EXCEPT ![s] = Saved(v)]
      BY <1>1, <3>1, <3>3
    <3>5. EpochsHold(v)
      BY <1>2, <3>2 DEF EpochsHold
    <3>6. v.currentEpoch >= st[s].currentEpoch
      BY <1>2, <3>2
    <3> QED BY ZenonT(60), <3>1, <3>2, <3>4, <3>5, <3>6
  <2>3. ASSUME Restart(s)
        PROVE  \E v : /\ st' = [st EXCEPT ![s] = v] /\ disk' = [disk EXCEPT ![s] = Saved(v)]
                      /\ v \in Memories /\ EpochsHold(v) /\ v.currentEpoch >= st[s].currentEpoch
                      /\ v.leaderEpoch = st[s].leaderEpoch /\ v.leader \in {None, st[s].leader}
                      /\ \A u \in Sentinel : v.peer[u].leader # None => v.peer[u] = st[s].peer[u]
    <3>1. PICK v : v = Boot(disk[s])
      OBVIOUS
    <3>2. disk[s].currentEpoch = st[s].currentEpoch /\ disk[s].leaderEpoch = st[s].leaderEpoch
      BY SMTT(60), <1>2 DEF Saved
    <3>3. /\ v \in Memories /\ v.currentEpoch = st[s].currentEpoch /\ v.leaderEpoch = st[s].leaderEpoch
          /\ v.leader = None /\ v.failoverEpoch = 0 /\ \A u \in Sentinel : v.peer[u].leader = None
      BY ZenonT(60), <1>2, <3>1, <3>2 DEF Boot, Memories, FailoverStates, Voters, Views, NoReply
    <3>4. Saved(v) = disk[s]
      BY ZenonT(60), <1>2, <3>3 DEF Saved
    <3>5. st' = [st EXCEPT ![s] = v] /\ disk' = [disk EXCEPT ![s] = Saved(v)]
      BY ZenonT(60), <1>1, <2>3, <3>1, <3>4 DEF Restart
    <3>6. EpochsHold(v)
      BY <1>2, <3>3 DEF EpochsHold
    <3>7. v.currentEpoch >= st[s].currentEpoch
      BY <1>2, <3>3
    <3> QED BY ZenonT(60), <3>3, <3>5, <3>6, <3>7
  <2> QED BY ZenonT(60), <2>1, <2>2, <2>3
<1>5. PICK v : /\ st' = [st EXCEPT ![s] = v] /\ disk' = [disk EXCEPT ![s] = Saved(v)]
               /\ v \in Memories /\ EpochsHold(v) /\ v.currentEpoch >= st[s].currentEpoch
               /\ v.leaderEpoch = st[s].leaderEpoch /\ v.leader \in {None, st[s].leader}
               /\ \A t \in Sentinel : v.peer[t].leader # None => v.peer[t] = st[s].peer[t]
  BY ZenonT(60), <1>4
<1>6. st' \in [Sentinel -> Memories] /\ st'[s] = v /\ \A t \in Sentinel \ {s} : st'[t] = st[t]
  BY <1>1, <1>5
<1>7. granted' = granted \cup Grant(s, v)
  <2>1. Grant(s, v) \subseteq Grant(s, st[s])
    BY <1>5 DEF Grant
  <2>2. Grant(s, st[s]) \subseteq granted
    BY DEF Grant, VoteInv, VotesHold
  <2> QED BY ZenonT(60), <1>3, <2>1, <2>2
<1>8. granted' \subseteq Grants /\ VotesHold' /\ OneVotePerEpoch'
  <2>1. Follows(st[s], v)
    BY <1>5 DEF Follows
  <2> QED BY <1>6, <1>7, <2>1, VotesKept
<1>9. ElectionTypes'
  <2>1. Saved(v) \in Files
    BY ZenonT(60), <1>5 DEF Saved, Files, Memories
  <2>2. disk' \in [Sentinel -> Files]
    BY ZenonT(60), <1>1, <1>5, <2>1
  <2> QED BY ZenonT(60), <1>1, <1>3, <1>6, <1>8, <2>2 DEF ElectionTypes
<1>10. FilesHold'
  <2> SUFFICES ASSUME NEW t \in Sentinel
               PROVE  disk'[t] = Saved(st'[t]) /\ EpochsHold(st'[t])
    BY ZenonT(60) DEF FilesHold
  <2>1. CASE t = s
    BY ZenonT(60), <1>1, <1>5, <1>6, <2>1
  <2>2. CASE t # s
    BY <1>1, <1>5, <1>6, <2>2 DEF VoteInv, FilesHold
  <2> QED BY <2>1, <2>2
<1>11. AnswersHold'
  <2> SUFFICES ASSUME NEW a \in Sentinel, NEW t \in Sentinel, st'[a].peer[t].leader # None
               PROVE  /\ t # a
                      /\ [voter |-> t, epoch |-> st'[a].peer[t].leaderEpoch,
                          leader |-> st'[a].peer[t].leader] \in granted'
    BY DEF AnswersHold
  <2>1. st'[a].peer[t] = st[a].peer[t]
    <3>1. CASE a = s
      BY <1>5, <1>6, <3>1
    <3>2. CASE a # s
      BY ZenonT(60), <1>6, <3>2
    <3> QED BY ZenonT(60), <3>1, <3>2
  <2> QED BY ZenonT(60), <1>3, <2>1 DEF VoteInv, AnswersHold
<1>12. EpochNeverGoesBack
  <2>1. \A t \in Sentinel : st[t].currentEpoch \in Nat
    BY <1>1 DEF Memories
  <2> QED BY <1>5, <1>6, <2>1 DEF EpochNeverGoesBack
<1>13. WinnerHasMajority => WinnerHasMajority'
  BY <1>3 DEF WinnerHasMajority
<1> QED BY ZenonT(60), <1>8, <1>9, <1>10, <1>11, <1>12, <1>13 DEF VoteInv

----------------------------------------------------------------------------
(* Theorems.                                                               *)

\* Everything a step keeps.
LEMMA ElectionStep ==
    ASSUME VoteInv, SentinelAssumption, [Next]_vars
    PROVE  VoteInv' /\ EpochNeverGoesBack /\ (WinnerHasMajority => WinnerHasMajority')
<1>1. CASE UNCHANGED vars
  <2>1. \A s \in Sentinel : st[s].currentEpoch \in Nat
    BY DEF VoteInv, ElectionTypes, Memories
  <2>2. EpochNeverGoesBack
    BY SMTT(60), <1>1, <2>1 DEF EpochNeverGoesBack, vars
  <2>3. VoteInv'
    BY ZenonT(60), <1>1 DEF vars, VoteInv, ElectionTypes, FilesHold, VotesHold, OneVotePerEpoch, AnswersHold
  <2>4. WinnerHasMajority => WinnerHasMajority'
    BY <1>1 DEF vars, WinnerHasMajority
  <2> QED BY ZenonT(60), <2>2, <2>3, <2>4
<1>2. ASSUME NEW s \in Sentinel, sentinelTimer(s)
      PROVE  VoteInv' /\ EpochNeverGoesBack /\ (WinnerHasMajority => WinnerHasMajority')
  BY <1>2, VisitKeeps
<1>3. ASSUME NEW s \in Sentinel, NEW q \in net, isMasterDownByAddr(s, q)
      PROVE  VoteInv' /\ EpochNeverGoesBack /\ (WinnerHasMajority => WinnerHasMajority')
  BY <1>3, RequestKeeps
<1>4. ASSUME NEW s \in Sentinel, (\E t \in Peers(s) : ReceiveHello(s, t)) \/ FailoverEnds(s) \/ Restart(s)
      PROVE  VoteInv' /\ EpochNeverGoesBack /\ (WinnerHasMajority => WinnerHasMajority')
  BY <1>4, OthersKeep
<1> QED BY ZenonT(60), <1>1, <1>2, <1>3, <1>4 DEF Next

\* The initial state.
LEMMA ElectionInit ==
    ASSUME Init, SentinelAssumption
    PROVE  VoteInv /\ WinnerHasMajority
<1>1. PICK m : m = Boot([currentEpoch |-> 0, leaderEpoch |-> 0])
  BY ZenonT(60)
<1>2. /\ m \in Memories /\ m.currentEpoch = 0 /\ m.leaderEpoch = 0 /\ m.leader = None
      /\ m.failoverEpoch = 0 /\ \A t \in Sentinel : m.peer[t].leader = None
  BY <1>1 DEF Boot, Memories, FailoverStates, Voters, Views, NoReply
<1>3. \A s \in Sentinel : st[s] = m /\ disk[s] = [currentEpoch |-> 0, leaderEpoch |-> 0]
  BY <1>1 DEF Init
<1>4. ElectionTypes
  BY <1>1, <1>2 DEF Init, ElectionTypes, Files
<1>5. FilesHold
  BY SMTT(60), <1>2, <1>3 DEF FilesHold, Saved, EpochsHold
<1>6. VotesHold /\ OneVotePerEpoch /\ AnswersHold /\ WinnerHasMajority
  BY <1>2, <1>3 DEF Init, VotesHold, OneVotePerEpoch, AnswersHold, WinnerHasMajority
<1> QED BY <1>4, <1>5, <1>6 DEF VoteInv

\* However requests, hello messages, timeouts and restarts interleave, and for any
\* number of Sentinels, no Sentinel gives its vote of one epoch to two candidates
\* (sentinelVoteLeader() and the flush before its answer).
THEOREM OneVoteEach ==
    ASSUME SentinelAssumption
    PROVE  Spec => []OneVotePerEpoch
<1>1. Init => VoteInv
  BY ElectionInit
<1>2. VoteInv /\ [Next]_vars => VoteInv'
  BY ElectionStep
<1>3. VoteInv => OneVotePerEpoch
  BY DEF VoteInv
<1> QED BY <1>1, <1>2, <1>3, PTL DEF Spec

\* No step, a restart from the file included, takes a Sentinel back to an epoch
\* before the one it is in: every handler that moves current_epoch has written it
\* when it returns.
THEOREM EpochsOnlyGrow ==
    ASSUME SentinelAssumption
    PROVE  Spec => [][EpochNeverGoesBack]_vars
<1>1. Init => VoteInv
  BY ElectionInit
<1>2. VoteInv /\ [Next]_vars => VoteInv'
  BY ElectionStep
<1>3. VoteInv /\ [Next]_vars => [EpochNeverGoesBack]_vars
  BY ElectionStep
<1> QED BY <1>1, <1>2, <1>3, PTL DEF Spec

\* Who goes on to select a slave has the votes of more than half of all the
\* Sentinels, given in its failover epoch or a later one, whatever it has counted
\* (sentinelGetLeader(): answers may be stale or forgotten, voters restarted).
THEOREM WinnersHaveMajority ==
    ASSUME SentinelAssumption
    PROVE  Spec => []WinnerHasMajority
<1>1. Init => VoteInv /\ WinnerHasMajority
  BY ElectionInit
<1>2. VoteInv /\ WinnerHasMajority /\ [Next]_vars => VoteInv' /\ WinnerHasMajority'
  BY ElectionStep
<1> QED BY <1>1, <1>2, PTL DEF Spec
=============================================================================
