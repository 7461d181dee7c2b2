--------------------------- MODULE FailoverProofs ---------------------------
(***************************************************************************)
(* Proofs about the failover a Sentinel leads (SentinelFailover), for any  *)
(* instances, any limit of parallel resynchronisations and any number of   *)
(* failovers, resets, hello messages and crashes.                          *)
(***************************************************************************)
EXTENDS SentinelFailover, FiniteSetTheorems, TLAPS

\* The instances are finitely many, and none is called "no one".
FleetAssumption ==
    /\ IsFiniteSet(Addr) /\ master0 \in Addr /\ NoOne \notin Addr
    /\ parallelSyncs \in Nat /\ OtherEpochs \subseteq Nat

----------------------------------------------------------------------------
(* The inductive invariant                                                 *)

Shape(r) ==
    r = [addr |-> r.addr, slaves |-> r.slaves, sdown |-> r.sdown, odown |-> r.odown,
         reported |-> r.reported, forced |-> r.forced, state |-> r.state, promoted |-> r.promoted,
         failoverEpoch |-> r.failoverEpoch, configEpoch |-> r.configEpoch,
         currentEpoch |-> r.currentEpoch, tilt |-> r.tilt]

Entry(e) == e = [sdown |-> e.sdown, reconf |-> e.reconf]

\* The master is not in the table of its own slaves.
Table(r) ==
    /\ r.addr \in Addr /\ Slaves(r) \subseteq Addr \ {r.addr}
    /\ r.slaves = [a \in Slaves(r) |-> r.slaves[a]]
    /\ \A a \in Slaves(r) : Entry(r.slaves[a])

\* A slave is promoted exactly between its selection and the switch, and only
\* after the promotion are slaves resynchronised.
Machine(r) ==
    /\ \/ r.state \in {"none", "wait_start", "select_slave"} /\ r.promoted = NoOne
       \/ r.state \in {"send_slaveof_noone", "wait_promotion", "reconf_slaves"} /\ r.promoted \in Slaves(r)
    /\ r.state # "reconf_slaves" => Reconfiguring(r) = {}
    /\ Cardinality(Reconfiguring(r)) <= parallelSyncs

\* No epoch is ahead of the current one.
Epochs(r) ==
    /\ r.currentEpoch \in Nat /\ r.configEpoch \in Nat /\ r.failoverEpoch \in Nat
    /\ r.configEpoch <= r.currentEpoch /\ r.failoverEpoch <= r.currentEpoch

Sound(r) == Shape(r) /\ Table(r) /\ Machine(r) /\ Epochs(r)

HelloOK == \A h \in hello : h.epoch \in OtherEpochs /\ h.addr \in Addr

FailoverInv == Sound(m) /\ HelloOK

\* A failover that has not promoted its slave yet has an epoch newer than the
\* configuration's.
Ahead(r) ==
    r.state \in {"wait_start", "select_slave", "send_slaveof_noone", "wait_promotion"} =>
        r.failoverEpoch > r.configEpoch

\* What a step of the timer does to the record: the configuration it publishes
\* stays the same.
Follows(x, r) ==
    /\ Sound(x) /\ x.configEpoch = r.configEpoch
    /\ sentinelGetCurrentMasterAddress(x) = sentinelGetCurrentMasterAddress(r)
    /\ Ahead(r) => Ahead(x)

----------------------------------------------------------------------------
(* The record of the master                                                *)

LEMMA FollowsTwice ==
    ASSUME NEW x, NEW y, NEW z, Follows(x, y), Follows(y, z)
    PROVE  Follows(x, z)
BY ZenonT(60) DEF Follows

\* A slave that is new in the table is not being reconfigured.
LEMMA NobodyReconfigured ==
    ASSUME NEW x, NEW S, x.slaves = [a \in S |-> NewSlave]
    PROVE  /\ Slaves(x) = S /\ Reconfiguring(x) = {} /\ Cardinality(Reconfiguring(x)) = 0
           /\ x.slaves = [a \in Slaves(x) |-> x.slaves[a]] /\ \A a \in S : Entry(x.slaves[a])
<1>1. Slaves(x) = S /\ \A a \in S : x.slaves[a] = NewSlave
  BY DEF Slaves
<1>2. NewSlave.reconf = {} /\ Entry(NewSlave)
  BY DEF NewSlave, Entry
<1>3. Reconfiguring(x) = {}
  BY ZenonT(60), <1>1, <1>2 DEF Reconfiguring
<1>4. x.slaves = [a \in Slaves(x) |-> x.slaves[a]]
  BY ZenonT(60), <1>1
<1> QED
  BY <1>1, <1>2, <1>3, <1>4, FS_EmptySet

\* The fields of the record after a reset, before the address changes.
LEMMA ResetFields ==
    ASSUME NEW r, NEW S, NEW x, x = sentinelResetMaster(r, S)
    PROVE  /\ Shape(x) /\ x.addr = r.addr /\ x.slaves = [b \in S |-> NewSlave] /\ x.state = "none"
           /\ x.promoted = NoOne /\ x.configEpoch = r.configEpoch /\ x.currentEpoch = r.currentEpoch
           /\ x.failoverEpoch = r.failoverEpoch
<1>1. PICK b : b = Blank(r.addr, S)
  OBVIOUS
<1>2. /\ Shape(b) /\ b.addr = r.addr /\ b.slaves = [c \in S |-> NewSlave] /\ b.state = "none"
      /\ b.promoted = NoOne
  BY ZenonT(60), <1>1 DEF Blank, Shape
<1>3. x = [b EXCEPT !.failoverEpoch = r.failoverEpoch, !.configEpoch = r.configEpoch,
                    !.currentEpoch = r.currentEpoch, !.tilt = r.tilt]
  BY ZenonT(60), <1>1 DEF sentinelResetMaster
<1> QED
  BY ZenonT(60), <1>2, <1>3 DEF Shape

\* A record with fresh slaves and no failover is sound.
LEMMA FreshIsSound ==
    ASSUME FleetAssumption, NEW r, Sound(r), NEW x, NEW S,
           Shape(x), x.addr \in Addr, x.slaves = [b \in S |-> NewSlave], S \subseteq Addr \ {x.addr},
           x.state = "none", x.promoted = NoOne, x.configEpoch = r.configEpoch,
           x.currentEpoch = r.currentEpoch, x.failoverEpoch = r.failoverEpoch
    PROVE  Sound(x) /\ Ahead(x) /\ Slaves(x) = S
<1>1. /\ Slaves(x) = S /\ Reconfiguring(x) = {} /\ Cardinality(Reconfiguring(x)) = 0
      /\ x.slaves = [a \in Slaves(x) |-> x.slaves[a]] /\ \A a \in S : Entry(x.slaves[a])
  BY ZenonT(60), NobodyReconfigured
<1>2. Table(x)
  BY ZenonT(60), <1>1 DEF Table
<1>3. Machine(x)
  BY <1>1 DEF Machine, FleetAssumption
<1>4. Epochs(x)
  BY ZenonT(60) DEF Epochs, Sound
<1>5. Ahead(x)
  BY ZenonT(60) DEF Ahead
<1> QED
  BY ZenonT(60), <1>1, <1>2, <1>3, <1>4, <1>5 DEF Sound

\* A reset keeps the address and the epochs, and ends the failover.
LEMMA ResetKeeps ==
    ASSUME FleetAssumption, NEW r, Sound(r), NEW S \in SUBSET (Addr \ {r.addr}),
           NEW x, x = sentinelResetMaster(r, S)
    PROVE  /\ Sound(x) /\ Ahead(x) /\ x.addr = r.addr /\ x.state = "none"
           /\ x.configEpoch = r.configEpoch
<1>1. /\ Shape(x) /\ x.addr = r.addr /\ x.slaves = [b \in S |-> NewSlave] /\ x.state = "none"
      /\ x.promoted = NoOne /\ x.configEpoch = r.configEpoch /\ x.currentEpoch = r.currentEpoch
      /\ x.failoverEpoch = r.failoverEpoch
  BY ResetFields
<1>2. x.addr \in Addr /\ S \subseteq Addr \ {x.addr}
  BY ZenonT(60), <1>1 DEF Sound, Table
<1> QED
  BY ZenonT(60), <1>1, <1>2, FreshIsSound

\* The old master joins the slaves of the new one.
LEMMA ChangeKeeps ==
    ASSUME FleetAssumption, NEW r, Sound(r), NEW a \in Addr,
           NEW x, x = sentinelResetMasterAndChangeAddress(r, a)
    PROVE  /\ Sound(x) /\ Ahead(x) /\ x.addr = a /\ x.state = "none"
           /\ x.configEpoch = r.configEpoch
<1>1. PICK S : S = (Slaves(r) \cup {r.addr}) \ {a}
  BY ZenonT(60)
<1>2. PICK q : q = sentinelResetMaster(r, S)
  OBVIOUS
<1>3. /\ Shape(q) /\ q.slaves = [b \in S |-> NewSlave] /\ q.state = "none"
      /\ q.promoted = NoOne /\ q.configEpoch = r.configEpoch /\ q.currentEpoch = r.currentEpoch
      /\ q.failoverEpoch = r.failoverEpoch
  BY <1>2, ResetFields
<1>4. x = [q EXCEPT !.addr = a]
  BY ZenonT(60), <1>1, <1>2 DEF sentinelResetMasterAndChangeAddress
<1>5. /\ Shape(x) /\ x.addr = a /\ x.slaves = [b \in S |-> NewSlave] /\ x.state = "none"
      /\ x.promoted = NoOne /\ x.configEpoch = r.configEpoch /\ x.currentEpoch = r.currentEpoch
      /\ x.failoverEpoch = r.failoverEpoch
  BY ZenonT(60), <1>3, <1>4 DEF Shape
<1>6. S \subseteq Addr \ {a}
  BY <1>1 DEF Sound, Table
<1> QED
  BY ZenonT(60), <1>5, <1>6, FreshIsSound

----------------------------------------------------------------------------
(* The timer                                                               *)

\* The same flags, the same slaves that are being reconfigured.
SameMarks(x, r) ==
    /\ Slaves(x) = Slaves(r)
    /\ \A a \in Slaves(r) : x.slaves[a].reconf = r.slaves[a].reconf

LEMMA SameReconfiguring ==
    ASSUME NEW x, NEW r, SameMarks(x, r)
    PROVE  Reconfiguring(x) = Reconfiguring(r)
BY ZenonT(60) DEF SameMarks, Reconfiguring

\* Slaves is a function to records.
Entries(x) == x.slaves = [a \in Slaves(x) |-> x.slaves[a]] /\ \A a \in Slaves(x) : Entry(x.slaves[a])

\* What the failover is about.
Failover(x) == <<x.addr, x.state, x.promoted, x.failoverEpoch, x.configEpoch, x.currentEpoch>>

LEMMA SameFailover ==
    ASSUME NEW r, Sound(r), NEW x, Shape(x), Entries(x), SameMarks(x, r), Failover(x) = Failover(r)
    PROVE  Follows(x, r)
<1>1. /\ x.addr = r.addr /\ x.state = r.state /\ x.promoted = r.promoted
      /\ x.failoverEpoch = r.failoverEpoch /\ x.configEpoch = r.configEpoch /\ x.currentEpoch = r.currentEpoch
  BY DEF Failover
<1>2. Reconfiguring(x) = Reconfiguring(r) /\ Slaves(x) = Slaves(r)
  BY SameReconfiguring DEF SameMarks
<1>3. Table(x)
  BY ZenonT(60), <1>1, <1>2 DEF Table, Entries, Sound
<1>4. Machine(x)
  BY ZenonT(60), <1>1, <1>2 DEF Machine, Sound
<1>5. Epochs(x)
  BY ZenonT(60), <1>1 DEF Epochs, Sound
<1>6. sentinelGetCurrentMasterAddress(x) = sentinelGetCurrentMasterAddress(r)
  BY ZenonT(60), <1>1 DEF sentinelGetCurrentMasterAddress
<1>7. Ahead(r) => Ahead(x)
  BY ZenonT(60), <1>1 DEF Ahead
<1> QED
  BY ZenonT(60), <1>1, <1>3, <1>4, <1>5, <1>6, <1>7 DEF Follows, Sound

\* Opinions on who is down change nothing else.
LEMMA DownFollows ==
    ASSUME FleetAssumption, NEW r, Sound(r), NEW late, NEW agree,
           NEW x, x = sentinelCheckObjectivelyDown(sentinelCheckSubjectivelyDown([r EXCEPT !.tilt = FALSE], late), agree)
    PROVE  Follows(x, r) /\ x.state = r.state
<1>1. PICK p : p = [r EXCEPT !.tilt = FALSE]
  BY ZenonT(60)
<1>2. Shape(p) /\ p.slaves = r.slaves /\ Failover(p) = Failover(r)
  BY ZenonT(60), <1>1 DEF Sound, Shape, Failover
<1>3. PICK q : q = sentinelCheckSubjectivelyDown(p, late)
  OBVIOUS
<1>4. /\ Shape(q) /\ Failover(q) = Failover(p)
      /\ q.slaves = [a \in Slaves(p) |-> [p.slaves[a] EXCEPT !.sdown = ~up[a] /\ (late \/ @)]]
  BY ZenonT(60), <1>2, <1>3 DEF sentinelCheckSubjectivelyDown, Shape, Failover
<1>5. x = [q EXCEPT !.odown = q.sdown /\ agree]
  BY ZenonT(60), <1>1, <1>3 DEF sentinelCheckObjectivelyDown
<1>6. Shape(x) /\ Failover(x) = Failover(q) /\ x.slaves = q.slaves
  BY ZenonT(60), <1>4, <1>5 DEF Shape, Failover
<1>7. Slaves(p) = Slaves(r) /\ Slaves(x) = Slaves(r)
  BY <1>2, <1>4, <1>6 DEF Slaves
<1>8. \A a \in Slaves(r) : Entry(r.slaves[a])
  BY DEF Sound, Table
<1>9. ASSUME NEW a \in Slaves(r) PROVE Entry(x.slaves[a]) /\ x.slaves[a].reconf = r.slaves[a].reconf
  <2>1. x.slaves[a] = [r.slaves[a] EXCEPT !.sdown = ~up[a] /\ (late \/ @)]
    BY ZenonT(60), <1>2, <1>4, <1>6, <1>7
  <2> QED
    BY ZenonT(60), <2>1, <1>8 DEF Entry
<1>10. x.slaves = [a \in Slaves(x) |-> x.slaves[a]]
  BY ZenonT(60), <1>4, <1>6, <1>7
<1>11. Entries(x) /\ SameMarks(x, r)
  BY ZenonT(60), <1>7, <1>9, <1>10 DEF Entries, SameMarks
<1>12. Failover(x) = Failover(r) /\ x.state = r.state
  BY <1>2, <1>4, <1>6 DEF Failover
<1> QED
  BY ZenonT(60), <1>6, <1>11, <1>12, SameFailover

\* A new failover gets a new epoch.
LEMMA StartFollows ==
    ASSUME FleetAssumption, NEW r, Sound(r), ~InProgress(r), NEW x, x = sentinelStartFailover(r)
    PROVE  Follows(x, r) /\ x.state = "wait_start"
<1>1. PICK e : e = r.currentEpoch + 1
  OBVIOUS
<1>2. x = [r EXCEPT !.state = "wait_start", !.currentEpoch = e, !.failoverEpoch = e]
  BY <1>1 DEF sentinelStartFailover
<1>3. /\ Shape(x) /\ x.slaves = r.slaves /\ x.addr = r.addr /\ x.promoted = r.promoted
      /\ x.configEpoch = r.configEpoch /\ x.state = "wait_start" /\ x.currentEpoch = e /\ x.failoverEpoch = e
  BY ZenonT(60), <1>2 DEF Sound, Shape
<1>4. r.state = "none" /\ r.promoted = NoOne
  BY DEF Sound, Machine, InProgress
<1>5. Slaves(x) = Slaves(r) /\ Reconfiguring(x) = Reconfiguring(r)
  BY ZenonT(60), <1>3 DEF Slaves, Reconfiguring
<1>6. Table(x)
  BY ZenonT(60), <1>3, <1>5 DEF Sound, Table
<1>7. Machine(x)
  BY ZenonT(60), <1>3, <1>4, <1>5 DEF Sound, Machine
<1>8. Epochs(x)
  BY <1>1, <1>3 DEF Sound, Epochs
<1>9. Ahead(x)
  BY <1>1, <1>3 DEF Sound, Epochs, Ahead
<1>10. sentinelGetCurrentMasterAddress(x) = sentinelGetCurrentMasterAddress(r)
  BY ZenonT(60), <1>3, <1>4 DEF sentinelGetCurrentMasterAddress
<1> QED
  BY ZenonT(60), <1>3, <1>6, <1>7, <1>8, <1>9, <1>10 DEF Follows, Sound

\* A failover that has not promoted its slave can be given up.
LEMMA AbortFollows ==
    ASSUME FleetAssumption, NEW r, Sound(r), r.state # "reconf_slaves", NEW x, x = sentinelAbortFailover(r)
    PROVE  Follows(x, r) /\ x.state = "none"
<1>1. x = [r EXCEPT !.state = "none", !.forced = FALSE, !.promoted = NoOne]
  BY DEF sentinelAbortFailover
<1>2. /\ Shape(x) /\ x.slaves = r.slaves /\ x.addr = r.addr /\ x.promoted = NoOne
      /\ x.configEpoch = r.configEpoch /\ x.state = "none" /\ x.currentEpoch = r.currentEpoch
      /\ x.failoverEpoch = r.failoverEpoch
  BY ZenonT(60), <1>1 DEF Sound, Shape
<1>3. Slaves(x) = Slaves(r) /\ Reconfiguring(x) = Reconfiguring(r)
  BY ZenonT(60), <1>2 DEF Slaves, Reconfiguring
<1>4. Table(x)
  BY ZenonT(60), <1>2, <1>3 DEF Sound, Table
<1>5. Machine(x)
  BY ZenonT(60), <1>2, <1>3 DEF Sound, Machine
<1>6. Epochs(x)
  BY ZenonT(60), <1>2 DEF Sound, Epochs
<1>7. Ahead(x)
  BY ZenonT(60), <1>2 DEF Ahead
<1>8. sentinelGetCurrentMasterAddress(x) = sentinelGetCurrentMasterAddress(r)
  BY <1>2 DEF sentinelGetCurrentMasterAddress, Sound, Machine
<1> QED
  BY ZenonT(60), <1>2, <1>4, <1>5, <1>6, <1>7, <1>8 DEF Follows, Sound

\* The machine goes on to another state before the promotion is acknowledged.
LEMMA MoveFollows ==
    ASSUME FleetAssumption, NEW r, Sound(r), r.state # "reconf_slaves", r.state # "none",
           NEW st, NEW p, NEW x, x = [r EXCEPT !.state = st, !.promoted = p],
           \/ st \in {"wait_start", "select_slave"} /\ p = NoOne
           \/ st \in {"send_slaveof_noone", "wait_promotion"} /\ p \in Slaves(r)
    PROVE  Follows(x, r) /\ x.state = st
<1>1. /\ Shape(x) /\ x.slaves = r.slaves /\ x.addr = r.addr /\ x.promoted = p
      /\ x.configEpoch = r.configEpoch /\ x.state = st /\ x.currentEpoch = r.currentEpoch
      /\ x.failoverEpoch = r.failoverEpoch
  BY ZenonT(60) DEF Sound, Shape
<1>2. Slaves(x) = Slaves(r) /\ Reconfiguring(x) = Reconfiguring(r)
  BY ZenonT(60), <1>1 DEF Slaves, Reconfiguring
<1>3. Table(x)
  BY ZenonT(60), <1>1, <1>2 DEF Sound, Table
<1>4. Machine(x)
  BY ZenonT(60), <1>1, <1>2 DEF Sound, Machine
<1>5. Epochs(x)
  BY ZenonT(60), <1>1 DEF Sound, Epochs
<1>6. Ahead(r) => Ahead(x)
  BY <1>1 DEF Ahead, Sound, Machine
<1>7. sentinelGetCurrentMasterAddress(x) = sentinelGetCurrentMasterAddress(r)
  BY <1>1 DEF sentinelGetCurrentMasterAddress, Sound, Machine
<1> QED
  BY ZenonT(60), <1>1, <1>3, <1>4, <1>5, <1>6, <1>7 DEF Follows, Sound

\* A visit makes a slave count as being reconfigured only by sending to it.
LEMMA VisitMarks ==
    ASSUME NEW r, Sound(r), NEW visited, NEW late, NEW x, x = Reconf(r, visited, late)
    PROVE  /\ Shape(x) /\ Entries(x) /\ Failover(x) = Failover(r) /\ Slaves(x) = Slaves(r)
           /\ Reconfiguring(x) \subseteq Reconfiguring(r) \cup Resent(r, visited, late)
<1>. DEFINE R == Resent(r, visited, late)
            g(a) == ReconfTimeout(r.slaves[a].reconf, late) \cup (IF a \in R THEN {"sent"} ELSE {})
            e(a) == IF a \in visited /\ ~Passed(r, a) THEN [r.slaves[a] EXCEPT !.reconf = g(a)] ELSE r.slaves[a]
<1>1. x = [r EXCEPT !.slaves = [a \in Slaves(r) |-> e(a)]]
  BY ZenonT(60) DEF Reconf
<1>2. Shape(x) /\ Failover(x) = Failover(r) /\ x.slaves = [a \in Slaves(r) |-> e(a)]
  <2>. HIDE DEF e
  <2> QED  BY ZenonT(60), <1>1 DEF Sound, Shape, Failover
<1>3. Slaves(x) = Slaves(r) /\ \A a \in Slaves(r) : x.slaves[a] = e(a)
  <2>. HIDE DEF e
  <2> QED  BY <1>2 DEF Slaves
<1>4. ASSUME NEW a \in Slaves(r) PROVE Entry(e(a))
  <2>1. Entry(r.slaves[a])
    BY DEF Sound, Table
  <2>. HIDE DEF g
  <2> QED  BY ZenonT(60), <2>1 DEF Entry
<1>5. Entries(x)
  <2>1. x.slaves = [a \in Slaves(x) |-> x.slaves[a]]
    <3>. HIDE DEF e
    <3> QED  BY <1>2, <1>3
  <2>. HIDE DEF e
  <2> QED  BY ZenonT(60), <2>1, <1>3, <1>4 DEF Entries
<1>6. ASSUME NEW a \in Slaves(r), e(a).reconf \cap {"sent", "inprog"} # {}, a \notin R
      PROVE  r.slaves[a].reconf \cap {"sent", "inprog"} # {}
  <2>1. CASE a \in visited /\ ~Passed(r, a)
    <3>1. Entry(r.slaves[a])
      BY DEF Sound, Table
    <3>2. e(a).reconf = g(a)
      <4>. HIDE DEF g
      <4> QED  BY ZenonT(60), <2>1, <3>1 DEF Entry
    <3>3. g(a) = ReconfTimeout(r.slaves[a].reconf, late)
      <4>. HIDE DEF R
      <4> QED  BY ZenonT(60), <1>6
    <3> QED
      BY <3>2, <3>3, <1>6 DEF ReconfTimeout
  <2>2. CASE ~(a \in visited /\ ~Passed(r, a))
    BY ZenonT(60), <2>2, <1>6
  <2> QED
    BY <2>1, <2>2
<1>7. Reconfiguring(x) \subseteq Reconfiguring(r) \cup R
  <2>. HIDE DEF e, R
  <2> QED  BY ZenonT(60), <1>3, <1>6 DEF Reconfiguring
<1> QED
  BY <1>2, <1>3, <1>5, <1>7

\* The loop stops at the limit: the slaves that were already being reconfigured
\* and those it sends to are together no more than parallelSyncs.
LEMMA VisitsBounded ==
    ASSUME FleetAssumption, NEW r, Sound(r), r.state = "reconf_slaves", NEW late,
           NEW visited \in Visits(r, late), NEW x, x = Reconf(r, visited, late)
    PROVE  Follows(x, r) /\ Failover(x) = Failover(r) /\ Slaves(x) = Slaves(r)
<1>. DEFINE A == Reconfiguring(r)
            B == Resent(r, visited, late)
<1>1. /\ Shape(x) /\ Entries(x) /\ Failover(x) = Failover(r) /\ Slaves(x) = Slaves(r)
      /\ Reconfiguring(x) \subseteq A \cup B
  BY ZenonT(60), VisitMarks
<1>2. visited \subseteq Slaves(r) /\ Slaves(r) \subseteq Addr
  BY DEF Visits, Sound, Table
<1>3. A \subseteq Addr /\ B \subseteq Addr
  BY <1>2 DEF Reconfiguring, Resent
<1>4. IsFiniteSet(A) /\ IsFiniteSet(B) /\ IsFiniteSet(A \cup B) /\ IsFiniteSet(A \cap B)
  <2>1. A \cup B \subseteq Addr /\ A \cap B \subseteq Addr
    BY <1>3
  <2>. HIDE DEF A, B
  <2> QED  BY <2>1, <1>3, FS_Subset DEF FleetAssumption
<1>5. Cardinality(A \cup B) <= Cardinality(A) + Cardinality(B)
  <2>. HIDE DEF A, B
  <2>1. Cardinality(A \cup B) = Cardinality(A) + Cardinality(B) - Cardinality(A \cap B)
    BY <1>4, FS_Union
  <2>2. /\ Cardinality(A \cap B) \in Nat /\ Cardinality(A) \in Nat /\ Cardinality(B) \in Nat
    BY <1>4, FS_CardinalityType
  <2> QED  BY <2>1, <2>2
<1>6. Cardinality(A) <= parallelSyncs
  BY DEF Sound, Machine
<1>7. Cardinality(A) + Cardinality(B) <= parallelSyncs \/ B = {}
  <2>1. visited = {} \/ Cardinality(A) + Cardinality(B) <= parallelSyncs
    BY ZenonT(60) DEF Visits
  <2>2. visited = {} => B = {}
    BY DEF Resent
  <2> QED  BY <2>1, <2>2
<1>8. Cardinality(Reconfiguring(x)) <= parallelSyncs
  <2>1. CASE B = {}
    <3>1. Reconfiguring(x) \subseteq A
      BY <1>1, <2>1
    <3>. HIDE DEF A, B
    <3>2. Cardinality(Reconfiguring(x)) <= Cardinality(A) /\ IsFiniteSet(Reconfiguring(x))
      BY <3>1, <1>4, FS_Subset
    <3> QED  BY <3>2, <1>4, <1>6, FS_CardinalityType DEF FleetAssumption
  <2>2. CASE Cardinality(A) + Cardinality(B) <= parallelSyncs
    <3>. HIDE DEF A, B
    <3>1. Cardinality(Reconfiguring(x)) <= Cardinality(A \cup B) /\ IsFiniteSet(Reconfiguring(x))
      BY <1>1, <1>4, FS_Subset
    <3>2. /\ Cardinality(Reconfiguring(x)) \in Nat /\ Cardinality(A \cup B) \in Nat
          /\ Cardinality(A) \in Nat /\ Cardinality(B) \in Nat
      BY <3>1, <1>4, FS_CardinalityType
    <3> QED  BY <3>1, <3>2, <1>5, <2>2 DEF FleetAssumption
  <2> QED  BY <1>7, <2>1, <2>2
<1>9. /\ x.addr = r.addr /\ x.state = r.state /\ x.promoted = r.promoted
      /\ x.failoverEpoch = r.failoverEpoch /\ x.configEpoch = r.configEpoch /\ x.currentEpoch = r.currentEpoch
  BY <1>1 DEF Failover
<1>10. Table(x)
  BY ZenonT(60), <1>1, <1>9 DEF Table, Entries, Sound
<1>11. Machine(x)
  BY ZenonT(60), <1>1, <1>8, <1>9 DEF Machine, Sound
<1>12. Epochs(x)
  BY ZenonT(60), <1>9 DEF Epochs, Sound
<1>13. /\ sentinelGetCurrentMasterAddress(x) = sentinelGetCurrentMasterAddress(r)
       /\ Ahead(r) => Ahead(x)
  BY ZenonT(60), <1>9 DEF sentinelGetCurrentMasterAddress, Ahead
<1> QED
  BY ZenonT(60), <1>1, <1>9, <1>10, <1>11, <1>12, <1>13 DEF Follows, Sound

\* The states of the machine, and the switch to the promoted slave that follows
\* at once when the last state asks for it.
LEMMA MachineFollows ==
    ASSUME FleetAssumption, NEW r, Sound(r), NEW lead, NEW late,
           NEW y \in sentinelFailoverStateMachine(r, lead, late),
           NEW z, z = IF y.r.state = "update_config" THEN sentinelFailoverSwitchToPromotedSlave(y.r) ELSE y.r
    PROVE  Follows(z, r)
<1>1. Follows(r, r)
  BY ZenonT(60) DEF Follows
<1>2. ASSUME NEW x, x = y.r, Follows(x, r) PROVE Follows(z, r)
  <2>1. x.state # "update_config"
    BY ZenonT(60), <1>2 DEF Follows, Sound, Machine
  <2> QED
    BY <1>2, <2>1
<1>3. CASE r.state = "wait_start"
  <2>1. y.r = sentinelFailoverWaitStart(r, lead, late)
    BY <1>3 DEF sentinelFailoverStateMachine
  <2>2. CASE y.r = r
    BY <1>1, <1>2, <2>2
  <2>3. CASE y.r = sentinelAbortFailover(r)
    BY ZenonT(60), <1>2, <1>3, <2>3, AbortFollows
  <2>4. CASE y.r = [r EXCEPT !.state = "select_slave"]
    <3>1. r.promoted = NoOne
      BY <1>3 DEF Sound, Machine
    <3>2. y.r = [r EXCEPT !.state = "select_slave", !.promoted = NoOne]
      BY ZenonT(60), <2>4, <3>1 DEF Sound, Shape
    <3> QED
      BY ZenonT(60), <1>2, <1>3, <3>2, MoveFollows
  <2> QED
    BY ZenonT(60), <2>1, <2>2, <2>3, <2>4 DEF sentinelFailoverWaitStart
<1>4. CASE r.state = "select_slave"
  <2>1. y.r \in sentinelFailoverSelectSlave(r)
    BY <1>4 DEF sentinelFailoverStateMachine
  <2>2. CASE y.r = sentinelAbortFailover(r)
    BY ZenonT(60), <1>2, <1>4, <2>2, AbortFollows
  <2>3. ASSUME NEW a \in sentinelSelectSlave(r), y.r = [r EXCEPT !.state = "send_slaveof_noone", !.promoted = a]
        PROVE  Follows(z, r)
    <3>1. a \in Slaves(r)
      BY ZenonT(60) DEF sentinelSelectSlave, Selectable
    <3> QED
      BY ZenonT(60), <1>2, <1>4, <2>3, <3>1, MoveFollows
  <2> QED
    BY ZenonT(60), <2>1, <2>2, <2>3 DEF sentinelFailoverSelectSlave
<1>5. CASE r.state = "send_slaveof_noone"
  <2>1. y.r = sentinelFailoverSendSlaveOfNoOne(r, late)
    BY <1>5 DEF sentinelFailoverStateMachine
  <2>2. CASE y.r = r
    BY <1>1, <1>2, <2>2
  <2>3. CASE y.r = sentinelAbortFailover(r)
    BY ZenonT(60), <1>2, <1>5, <2>3, AbortFollows
  <2>4. CASE y.r = [r EXCEPT !.state = "wait_promotion"]
    <3>1. r.promoted \in Slaves(r)
      BY <1>5 DEF Sound, Machine
    <3>2. y.r = [r EXCEPT !.state = "wait_promotion", !.promoted = r.promoted]
      BY ZenonT(60), <2>4 DEF Sound, Shape
    <3> QED
      BY ZenonT(60), <1>2, <1>5, <3>1, <3>2, MoveFollows
  <2> QED
    BY ZenonT(60), <2>1, <2>2, <2>3, <2>4 DEF sentinelFailoverSendSlaveOfNoOne
<1>6. CASE r.state = "wait_promotion"
  <2>1. y.r = sentinelFailoverWaitPromotion(r, late)
    BY <1>6 DEF sentinelFailoverStateMachine
  <2>2. CASE y.r = r
    BY <1>1, <1>2, <2>2
  <2>3. CASE y.r = sentinelAbortFailover(r)
    BY ZenonT(60), <1>2, <1>6, <2>3, AbortFollows
  <2> QED
    BY ZenonT(60), <2>1, <2>2, <2>3 DEF sentinelFailoverWaitPromotion
<1>7. CASE r.state = "reconf_slaves"
  <2>1. PICK visited \in Visits(r, late) :
            \/ y.r = Reconf(r, visited, late)
            \/ y.r = [Reconf(r, visited, late) EXCEPT !.state = "update_config"]
    <3>1. PICK acc \in sentinelFailoverReconfNextSlave(r, late) :
              y.r = IF sentinelFailoverDetectEnd(acc.r, late) THEN [acc.r EXCEPT !.state = "update_config"] ELSE acc.r
      BY <1>7 DEF sentinelFailoverStateMachine
    <3>2. PICK visited \in Visits(r, late) : acc.r = Reconf(r, visited, late)
      BY DEF sentinelFailoverReconfNextSlave
    <3> QED
      BY ZenonT(60), <3>1, <3>2
  <2>2. PICK x : x = Reconf(r, visited, late)
    OBVIOUS
  <2>3. Follows(x, r) /\ Failover(x) = Failover(r) /\ Slaves(x) = Slaves(r)
    BY ZenonT(60), <1>7, <2>2, VisitsBounded
  <2>4. CASE y.r = x
    BY <1>2, <2>3, <2>4
  <2>5. CASE y.r = [x EXCEPT !.state = "update_config"]
    <3>1. PICK w : w = y.r
      OBVIOUS
    <3>2. /\ w.state = "update_config" /\ w.addr = x.addr /\ w.slaves = x.slaves /\ w.promoted = x.promoted
          /\ w.failoverEpoch = x.failoverEpoch /\ w.configEpoch = x.configEpoch
          /\ w.currentEpoch = x.currentEpoch /\ w.tilt = x.tilt
      BY ZenonT(60), <2>3, <2>5, <3>1 DEF Follows, Sound, Shape
    <3>3. sentinelFailoverSwitchToPromotedSlave(w) = sentinelResetMasterAndChangeAddress(x, x.promoted)
      BY ZenonT(60), <3>2 DEF sentinelFailoverSwitchToPromotedSlave, sentinelResetMasterAndChangeAddress,
         sentinelResetMaster, Slaves
    <3>4. z = sentinelResetMasterAndChangeAddress(x, x.promoted)
      BY ZenonT(60), <3>1, <3>2, <3>3
    <3>5. x.state = "reconf_slaves" /\ x.promoted \in Addr /\ x.promoted # NoOne
      <4>1. x.state = "reconf_slaves" /\ Sound(x)
        BY <1>7, <2>3 DEF Failover, Follows
      <4> QED  BY <4>1 DEF Sound, Machine, Table, FleetAssumption
    <3>6. /\ Sound(z) /\ Ahead(z) /\ z.addr = x.promoted /\ z.state = "none"
          /\ z.configEpoch = x.configEpoch
      <4>1. Sound(x)
        BY <2>3 DEF Follows
      <4> QED
        BY <3>4, <3>5, <4>1, ChangeKeeps
    <3>7. sentinelGetCurrentMasterAddress(z) = sentinelGetCurrentMasterAddress(x)
      BY <3>5, <3>6 DEF sentinelGetCurrentMasterAddress
    <3>8. Follows(z, x)
      BY ZenonT(60), <3>6, <3>7 DEF Follows
    <3> QED
      BY ZenonT(60), <2>3, <3>8, FollowsTwice
  <2> QED
    BY ZenonT(60), <2>1, <2>2, <2>4, <2>5
<1>8. CASE r.state = "none"
  <2>1. y.r = r
    BY <1>8 DEF sentinelFailoverStateMachine
  <2> QED
    BY <1>1, <1>2, <2>1
<1> QED
  BY ZenonT(60), <1>3, <1>4, <1>5, <1>6, <1>7, <1>8 DEF Sound, Machine

\* The timer, with the clock jumping or not, and a failover starting or not.
LEMMA TimerFollows ==
    ASSUME FleetAssumption, Sound(m), NEW j, NEW d, NEW l, NEW p, NEW e, sentinelTimer(j, d, l, p, e)
    PROVE  Follows(m', m)
<1>1. CASE j \/ (m.tilt /\ ~l)
  <2>1. m' = [m EXCEPT !.tilt = TRUE]
    BY <1>1 DEF sentinelTimer
  <2>2. Shape(m') /\ m'.slaves = m.slaves /\ Failover(m') = Failover(m)
    BY ZenonT(60), <2>1 DEF Sound, Shape, Failover
  <2>3. Entries(m') /\ SameMarks(m', m)
    BY ZenonT(60), <2>2 DEF Entries, SameMarks, Slaves, Sound, Table
  <2> QED
    BY ZenonT(60), <2>2, <2>3, SameFailover
<1>2. CASE ~(j \/ (m.tilt /\ ~l))
  <2>1. PICK r1 : r1 = sentinelCheckObjectivelyDown(sentinelCheckSubjectivelyDown([m EXCEPT !.tilt = FALSE], d), p)
    OBVIOUS
  <2>2. Follows(r1, m) /\ r1.state = m.state
    BY ZenonT(60), <2>1, DownFollows
  <2>3. PICK r2, late2 :
          /\ r2 = r1 \/ (~InProgress(r1) /\ r2 = sentinelStartFailover(r1))
          /\ \E y \in sentinelFailoverStateMachine(r2, e, late2) :
                m' = IF y.r.state = "update_config" THEN sentinelFailoverSwitchToPromotedSlave(y.r) ELSE y.r
    <3>1. CASE r1.odown /\ ~InProgress(r1) /\ l
      BY ZenonT(60), <1>2, <2>1, <3>1 DEF sentinelTimer
    <3>2. CASE ~(r1.odown /\ ~InProgress(r1) /\ l)
      BY ZenonT(60), <1>2, <2>1, <3>2 DEF sentinelTimer
    <3> QED
      BY <3>1, <3>2
  <2>4. Follows(r2, r1)
    <3>1. CASE r2 = r1
      BY ZenonT(60), <2>2, <3>1 DEF Follows
    <3>2. CASE ~InProgress(r1) /\ r2 = sentinelStartFailover(r1)
      BY ZenonT(60), <2>2, <3>2, StartFollows DEF Follows
    <3> QED
      BY <2>3, <3>1, <3>2
  <2>5. Follows(m', r2)
    <3>1. PICK y \in sentinelFailoverStateMachine(r2, e, late2) :
              m' = IF y.r.state = "update_config" THEN sentinelFailoverSwitchToPromotedSlave(y.r) ELSE y.r
      BY <2>3
    <3>2. Sound(r2)
      BY <2>4 DEF Follows
    <3> QED
      BY <3>1, <3>2, MachineFollows
  <2> QED
    BY ZenonT(60), <2>2, <2>4, <2>5, FollowsTwice
<1> QED
  BY <1>1, <1>2

----------------------------------------------------------------------------
(* The replies of the instances, other Sentinels and the user              *)

\* More slaves in the table, or fewer of them being reconfigured.
LEMMA TableFollows ==
    ASSUME FleetAssumption, NEW r, Sound(r), NEW x, Shape(x), Entries(x), Failover(x) = Failover(r),
           Slaves(r) \subseteq Slaves(x), Slaves(x) \subseteq Addr \ {r.addr},
           Reconfiguring(x) \subseteq Reconfiguring(r)
    PROVE  Follows(x, r)
<1>1. /\ x.addr = r.addr /\ x.state = r.state /\ x.promoted = r.promoted
      /\ x.failoverEpoch = r.failoverEpoch /\ x.configEpoch = r.configEpoch /\ x.currentEpoch = r.currentEpoch
  BY DEF Failover
<1>2. Table(x)
  BY ZenonT(60), <1>1 DEF Table, Entries, Sound
<1>3. IsFiniteSet(Reconfiguring(r))
  BY FS_Subset DEF Reconfiguring, Sound, Table, FleetAssumption
<1>4. Cardinality(Reconfiguring(x)) <= Cardinality(Reconfiguring(r)) /\ Cardinality(Reconfiguring(x)) \in Nat
  BY <1>3, FS_Subset, FS_CardinalityType
<1>5. Cardinality(Reconfiguring(x)) <= parallelSyncs
  BY <1>3, <1>4, FS_CardinalityType DEF Sound, Machine, FleetAssumption
<1>6. Machine(x)
  BY ZenonT(60), <1>1, <1>5 DEF Machine, Sound
<1>7. Epochs(x)
  BY ZenonT(60), <1>1 DEF Epochs, Sound
<1>8. sentinelGetCurrentMasterAddress(x) = sentinelGetCurrentMasterAddress(r)
  BY ZenonT(60), <1>1 DEF sentinelGetCurrentMasterAddress
<1>9. Ahead(r) => Ahead(x)
  BY ZenonT(60), <1>1 DEF Ahead
<1> QED
  BY ZenonT(60), <1>1, <1>2, <1>6, <1>7, <1>8, <1>9 DEF Follows, Sound

LEMMA MasterReplyFollows ==
    ASSUME FleetAssumption, Sound(m), RefreshMaster
    PROVE  Follows(m', m)
<1>. DEFINE New == {b \in Addr \ {m.addr} : up[b] /\ repl[b] = m.addr /\ repl[m.addr] = NoOne}
            e(a) == IF a \in Slaves(m) THEN m.slaves[a] ELSE NewSlave
<1>1. m' = [m EXCEPT !.reported = IF repl[m.addr] = NoOne THEN "master" ELSE "slave",
                     !.slaves = [a \in Slaves(m) \cup New |-> e(a)]]
  BY DEF RefreshMaster
<1>2. New \subseteq Addr \ {m.addr}
  OBVIOUS
<1>. HIDE DEF New
<1>3. Shape(m') /\ Failover(m') = Failover(m) /\ m'.slaves = [a \in Slaves(m) \cup New |-> e(a)]
  BY ZenonT(60), <1>1 DEF Sound, Shape, Failover
<1>4. Slaves(m') = Slaves(m) \cup New /\ \A a \in Slaves(m') : m'.slaves[a] = e(a)
  BY <1>3 DEF Slaves
<1>5. \A a \in Slaves(m) : Entry(m.slaves[a])
  BY DEF Sound, Table
<1>6. NewSlave.reconf = {} /\ Entry(NewSlave)
  BY DEF NewSlave, Entry
<1>7. Entries(m')
  <2>1. m'.slaves = [a \in Slaves(m') |-> m'.slaves[a]]
    BY ZenonT(60), <1>3, <1>4
  <2>2. \A a \in Slaves(m') : Entry(m'.slaves[a])
    BY ZenonT(60), <1>4, <1>5, <1>6
  <2> QED  BY <2>1, <2>2 DEF Entries
<1>8. Reconfiguring(m') \subseteq Reconfiguring(m)
  <2>1. SUFFICES ASSUME NEW a \in Slaves(m'), m'.slaves[a].reconf \cap {"sent", "inprog"} # {}
                 PROVE  a \in Reconfiguring(m)
    BY ZenonT(60) DEF Reconfiguring
  <2>2. a \in Slaves(m)
    BY ZenonT(60), <2>1, <1>4, <1>6
  <2> QED
    BY ZenonT(60), <2>1, <2>2, <1>4 DEF Reconfiguring
<1>9. Slaves(m) \subseteq Slaves(m') /\ Slaves(m') \subseteq Addr \ {m.addr}
  BY ZenonT(60), <1>2, <1>4 DEF Sound, Table
<1> QED
  BY ZenonT(60), <1>3, <1>7, <1>8, <1>9, TableFollows

\* The reply of a slave that is not the promotion everyone waits for.
LEMMA SlaveReplyFollows ==
    ASSUME FleetAssumption, Sound(m), NEW a, NEW settled, RefreshSlave(a, settled), ~Acknowledged(m, a)
    PROVE  Follows(m', m)
<1>1. CASE repl[a] = NoOne
  <2>1. m' = m
    BY <1>1 DEF RefreshSlave
  <2> QED
    BY ZenonT(60), <2>1 DEF Follows
<1>2. CASE repl[a] # NoOne
  <2>. DEFINE g == ReconfFlags(m.slaves[a].reconf, a, up[repl[a]])
  <2>1. m' = [m EXCEPT !.slaves[a].reconf = g] /\ a \in Slaves(m)
    BY <1>2 DEF RefreshSlave
  <2>2. g \cap {"sent", "inprog"} # {} => m.slaves[a].reconf \cap {"sent", "inprog"} # {}
    BY DEF ReconfFlags
  <2>. HIDE DEF g
  <2>3. /\ Shape(m') /\ Failover(m') = Failover(m)
        /\ m'.slaves = [m.slaves EXCEPT ![a] = [m.slaves[a] EXCEPT !.reconf = g]]
    BY ZenonT(60), <2>1 DEF Sound, Shape, Failover
  <2>4. m.slaves = [b \in Slaves(m) |-> m.slaves[b]] /\ \A b \in Slaves(m) : Entry(m.slaves[b])
    BY DEF Sound, Table
  <2>5. PICK e : e = [m.slaves[a] EXCEPT !.reconf = g]
    BY ZenonT(60)
  <2>6. Entry(e) /\ e.reconf = g
    <3>1. PICK o : o = m.slaves[a]
      OBVIOUS
    <3>2. Entry(o) /\ e = [o EXCEPT !.reconf = g]
      BY ZenonT(60), <2>1, <2>4, <2>5, <3>1
    <3> QED
      BY ZenonT(60), <3>2 DEF Entry
  <2>7. /\ Slaves(m') = Slaves(m) /\ m'.slaves = [b \in Slaves(m) |-> m'.slaves[b]]
        /\ m'.slaves[a] = e /\ \A b \in Slaves(m) \ {a} : m'.slaves[b] = m.slaves[b]
    BY <2>1, <2>3, <2>4, <2>5 DEF Slaves
  <2>8. Entries(m')
    BY ZenonT(60), <2>4, <2>6, <2>7 DEF Entries
  <2>9. Reconfiguring(m') \subseteq Reconfiguring(m)
    <3>1. SUFFICES ASSUME NEW b \in Slaves(m'), m'.slaves[b].reconf \cap {"sent", "inprog"} # {}
                   PROVE  b \in Reconfiguring(m)
      BY ZenonT(60) DEF Reconfiguring
    <3>2. CASE b = a
      BY ZenonT(60), <2>1, <2>2, <2>6, <2>7, <3>1, <3>2 DEF Reconfiguring
    <3>3. CASE b # a
      BY ZenonT(60), <2>7, <3>1, <3>3 DEF Reconfiguring
    <3> QED
      BY <3>2, <3>3
  <2>10. Slaves(m) \subseteq Slaves(m') /\ Slaves(m') \subseteq Addr \ {m.addr}
    BY ZenonT(60), <2>7 DEF Sound, Table
  <2> QED
    BY ZenonT(60), <2>3, <2>8, <2>9, <2>10, TableFollows
<1> QED
  BY <1>1, <1>2

\* The epochs of the record move, and nothing else.
LEMMA EpochsMove ==
    ASSUME FleetAssumption, NEW r, Sound(r), NEW x,
           Shape(x), x.slaves = r.slaves, x.addr = r.addr, x.promoted = r.promoted,
           x.failoverEpoch = r.failoverEpoch, x.currentEpoch \in Nat, x.configEpoch \in Nat,
           r.currentEpoch <= x.currentEpoch, x.configEpoch <= x.currentEpoch,
           x.state = r.state \/ (x.state = "reconf_slaves" /\ r.state = "wait_promotion")
    PROVE  Sound(x)
<1>1. Slaves(x) = Slaves(r) /\ Reconfiguring(x) = Reconfiguring(r)
  BY ZenonT(60) DEF Slaves, Reconfiguring
<1>2. Table(x)
  BY ZenonT(60), <1>1 DEF Sound, Table
<1>3. Machine(x)
  <2>1. CASE x.state = r.state
    BY ZenonT(60), <1>1, <2>1 DEF Sound, Machine
  <2>2. CASE x.state = "reconf_slaves" /\ r.state = "wait_promotion"
    BY <1>1, <2>2 DEF Sound, Machine
  <2> QED  BY <2>1, <2>2
<1>4. Epochs(x)
  BY DEF Sound, Epochs
<1> QED
  BY ZenonT(60), <1>2, <1>3, <1>4 DEF Sound

\* The promotion is acknowledged: the configuration gets the failover's epoch.
LEMMA PromotionKeeps ==
    ASSUME FleetAssumption, Sound(m), NEW a, NEW settled, RefreshSlave(a, settled), Acknowledged(m, a)
    PROVE  Sound(m') /\ Ahead(m') /\ m'.configEpoch = m.failoverEpoch /\ m.state = "wait_promotion"
<1>1. m' = SlaveToMaster(m) /\ m.state = "wait_promotion"
  BY DEF RefreshSlave, Acknowledged
<1>2. /\ m.failoverEpoch \in Nat /\ m.currentEpoch \in Nat /\ m.failoverEpoch <= m.currentEpoch
      /\ m.currentEpoch <= m.currentEpoch
  BY DEF Sound, Epochs
<1>3. /\ Shape(m') /\ m'.slaves = m.slaves /\ m'.addr = m.addr /\ m'.promoted = m.promoted
      /\ m'.failoverEpoch = m.failoverEpoch /\ m'.currentEpoch = m.currentEpoch
      /\ m'.configEpoch = m.failoverEpoch /\ m'.state = "reconf_slaves"
  BY ZenonT(60), <1>1 DEF SlaveToMaster, Sound, Shape
<1>4. Sound(m')
  BY ZenonT(60), <1>1, <1>2, <1>3, EpochsMove
<1> QED
  BY <1>1, <1>3, <1>4 DEF Ahead

\* A hello message changes the published address only with a newer epoch.
LEMMA HelloKeeps ==
    ASSUME FleetAssumption, FailoverInv, NEW h \in hello, sentinelProcessHelloMessage(h)
    PROVE  Sound(m') /\ HelloOK' /\ NewAddressNewEpoch
<1>1. h.epoch \in Nat /\ h.addr \in Addr
  BY ZenonT(60) DEF FailoverInv, HelloOK, FleetAssumption
<1>2. HelloOK'
  BY DEF FailoverInv, HelloOK, sentinelProcessHelloMessage
<1>3. /\ Sound(m) /\ m.currentEpoch \in Nat /\ m.configEpoch \in Nat /\ m.configEpoch <= m.currentEpoch
  BY DEF FailoverInv, Sound, Epochs
<1>4. PICK c : c = IF h.epoch > m.currentEpoch THEN h.epoch ELSE m.currentEpoch
  OBVIOUS
<1>5. c \in Nat /\ m.currentEpoch <= c /\ h.epoch <= c /\ m.configEpoch <= c
  BY <1>1, <1>3, <1>4
<1>6. PICK r : r = [m EXCEPT !.currentEpoch = c]
  BY ZenonT(60)
<1>7. m' = IF h.epoch <= m.configEpoch THEN r
           ELSE LET n == [r EXCEPT !.configEpoch = h.epoch]
                IN IF h.addr = m.addr THEN n ELSE sentinelResetMasterAndChangeAddress(n, h.addr)
  BY ZenonT(60), <1>4, <1>6 DEF sentinelProcessHelloMessage
<1>8. CASE h.epoch <= m.configEpoch
  <2>1. /\ Shape(m') /\ m'.slaves = m.slaves /\ m'.addr = m.addr /\ m'.promoted = m.promoted
        /\ m'.failoverEpoch = m.failoverEpoch /\ m'.currentEpoch = c
        /\ m'.configEpoch = m.configEpoch /\ m'.state = m.state
    BY ZenonT(60), <1>3, <1>6, <1>7, <1>8 DEF Sound, Shape
  <2>2. Sound(m')
    BY ZenonT(60), <1>3, <1>5, <2>1, EpochsMove
  <2>3. NewAddressNewEpoch
    BY ZenonT(60), <2>1 DEF NewAddressNewEpoch, sentinelGetCurrentMasterAddress
  <2> QED
    BY <1>2, <2>2, <2>3
<1>9. CASE ~(h.epoch <= m.configEpoch)
  <2>1. PICK n : n = [r EXCEPT !.configEpoch = h.epoch]
    BY ZenonT(60)
  <2>2. /\ Shape(n) /\ n.slaves = m.slaves /\ n.addr = m.addr /\ n.promoted = m.promoted
        /\ n.failoverEpoch = m.failoverEpoch /\ n.currentEpoch = c
        /\ n.configEpoch = h.epoch /\ n.state = m.state
    BY ZenonT(60), <1>3, <1>6, <2>1 DEF Sound, Shape
  <2>3. Sound(n) /\ n.configEpoch = h.epoch
    BY ZenonT(60), <1>1, <1>3, <1>5, <2>2, EpochsMove
  <2>4. m' = n \/ m' = sentinelResetMasterAndChangeAddress(n, h.addr)
    BY ZenonT(60), <1>7, <1>9, <2>1
  <2>5. Sound(m') /\ m'.configEpoch = h.epoch
    <3>1. CASE m' = n
      BY <2>3, <3>1
    <3>2. CASE m' = sentinelResetMasterAndChangeAddress(n, h.addr)
      BY <1>1, <2>3, <3>2, ChangeKeeps
    <3> QED  BY <2>4, <3>1, <3>2
  <2>6. m'.configEpoch > m.configEpoch
    BY <1>1, <1>3, <1>9, <2>5
  <2> QED
    BY <1>2, <2>5, <2>6 DEF NewAddressNewEpoch
<1> QED
  BY <1>8, <1>9

LEMMA UserFailoverFollows ==
    ASSUME FleetAssumption, Sound(m), UserFailover
    PROVE  Follows(m', m)
<1>1. PICK x : x = sentinelStartFailover(m)
  OBVIOUS
<1>2. Follows(x, m)
  BY ZenonT(60), <1>1, StartFollows DEF UserFailover
<1>3. m' = [x EXCEPT !.forced = TRUE]
  BY ZenonT(60), <1>1 DEF UserFailover
<1>4. Shape(m') /\ m'.slaves = x.slaves /\ Failover(m') = Failover(x)
  BY ZenonT(60), <1>2, <1>3 DEF Follows, Sound, Shape, Failover
<1>5. Entries(m') /\ SameMarks(m', x)
  BY ZenonT(60), <1>2, <1>4 DEF Entries, SameMarks, Slaves, Follows, Sound, Table
<1>6. Sound(x)
  BY <1>2 DEF Follows
<1>7. Follows(m', x)
  BY ZenonT(60), <1>4, <1>5, <1>6, SameFailover
<1> QED
  BY ZenonT(60), <1>2, <1>7, FollowsTwice

----------------------------------------------------------------------------
(* All steps                                                               *)

\* While a Sentinel waits for its promotion, another one has published a
\* configuration that is as new.
Overtaken == m.state = "wait_promotion" /\ m.failoverEpoch <= m.configEpoch

\* What any step keeps, when the user does not reset the master by hand.
StepKeeps ==
    /\ Sound(m') /\ HelloOK'
    /\ "reset" \notin UserCommands => NewAddressNewEpoch \/ Overtaken
    /\ Ahead(m) /\ OtherEpochs = {} => Ahead(m')

LEMMA FollowsIsAStep ==
    ASSUME FailoverInv, Follows(m', m), UNCHANGED hello
    PROVE  StepKeeps
BY ZenonT(60) DEF StepKeeps, Follows, FailoverInv, HelloOK, NewAddressNewEpoch, sentinelGetCurrentMasterAddress

LEMMA EveryStepKeeps ==
    ASSUME FleetAssumption, FailoverInv, Next
    PROVE  StepKeeps
<1>1. Sound(m)
  BY DEF FailoverInv
<1>2. ASSUME NEW j \in BOOLEAN, NEW d \in BOOLEAN, NEW l \in BOOLEAN, NEW p \in BOOLEAN, NEW e \in BOOLEAN,
             sentinelTimer(j, d, l, p, e)
      PROVE  StepKeeps
  <2>1. Follows(m', m)
    BY ZenonT(60), <1>1, <1>2, TimerFollows
  <2>2. UNCHANGED hello
    BY ZenonT(60), <1>2 DEF sentinelTimer
  <2> QED
    BY ZenonT(60), <2>1, <2>2, FollowsIsAStep
<1>3. CASE RefreshMaster
  <2>1. UNCHANGED hello
    BY <1>3 DEF RefreshMaster
  <2> QED
    BY ZenonT(60), <1>1, <1>3, <2>1, MasterReplyFollows, FollowsIsAStep
<1>4. ASSUME NEW a, NEW settled, RefreshSlave(a, settled) PROVE StepKeeps
  <2>1. UNCHANGED hello
    BY <1>4 DEF RefreshSlave
  <2>2. CASE Acknowledged(m, a)
    <3>1. Sound(m') /\ Ahead(m') /\ m'.configEpoch = m.failoverEpoch /\ m.state = "wait_promotion"
      BY ZenonT(60), <1>1, <1>4, <2>2, PromotionKeeps
    <3>2. HelloOK'
      BY ZenonT(60), <2>1 DEF FailoverInv, HelloOK
    <3>3. NewAddressNewEpoch \/ Overtaken
      BY <1>1, <3>1 DEF NewAddressNewEpoch, Overtaken, Sound, Epochs
    <3> QED
      BY ZenonT(60), <3>1, <3>2, <3>3 DEF StepKeeps
  <2>3. CASE ~Acknowledged(m, a)
    BY ZenonT(60), <1>1, <1>4, <2>1, <2>3, SlaveReplyFollows, FollowsIsAStep
  <2> QED
    BY <2>2, <2>3
<1>5. ASSUME NEW h \in hello, sentinelProcessHelloMessage(h) PROVE StepKeeps
  <2>1. Sound(m') /\ HelloOK' /\ NewAddressNewEpoch
    BY ZenonT(60), <1>5, HelloKeeps
  <2>2. OtherEpochs # {}
    BY ZenonT(60), <1>5 DEF FailoverInv, HelloOK
  <2> QED
    BY ZenonT(60), <2>1, <2>2 DEF StepKeeps
<1>6. CASE UserReset
  <2>1. m' = sentinelResetMaster(m, {}) /\ "reset" \in UserCommands /\ UNCHANGED hello
    BY <1>6 DEF UserReset
  <2>2. Sound(m') /\ Ahead(m')
    BY <1>1, <2>1, ResetKeeps
  <2>3. HelloOK'
    BY ZenonT(60), <2>1 DEF FailoverInv, HelloOK
  <2> QED
    BY ZenonT(60), <2>1, <2>2, <2>3 DEF StepKeeps
<1>7. CASE UserFailover
  <2>1. UNCHANGED hello
    BY <1>7 DEF UserFailover
  <2> QED
    BY ZenonT(60), <1>1, <1>7, <2>1, UserFailoverFollows, FollowsIsAStep
<1>8. CASE UNCHANGED <<m, hello>>
  <2>1. Follows(m', m)
    BY ZenonT(60), <1>1, <1>8 DEF Follows
  <2> QED
    BY ZenonT(60), <1>8, <2>1, FollowsIsAStep
<1>9. ASSUME NEW a \in Addr, OtherSentinelFailsOver(a) PROVE StepKeeps
  <2>1. /\ UNCHANGED m
        /\ \E e \in OtherEpochs : hello' = {[epoch |-> e, addr |-> a]}
    BY <1>9 DEF OtherSentinelFailsOver
  <2>2. HelloOK'
    BY <2>1 DEF HelloOK
  <2>3. Sound(m') /\ (Ahead(m) => Ahead(m')) /\ NewAddressNewEpoch
    BY ZenonT(60), <1>1, <2>1 DEF NewAddressNewEpoch, sentinelGetCurrentMasterAddress
  <2> QED
    BY ZenonT(60), <2>2, <2>3 DEF StepKeeps
<1>10. ASSUME NEW a \in Addr, InstanceObeys(a) \/ InstanceDies(a) \/ InstanceReturns(a) PROVE StepKeeps
  BY ZenonT(60), <1>8, <1>10 DEF InstanceObeys, InstanceDies, InstanceReturns
<1> QED
  BY ZenonT(60), <1>2, <1>3, <1>4, <1>5, <1>6, <1>7, <1>9, <1>10 DEF Next, Refresh

LEMMA StutterKeeps ==
    ASSUME FailoverInv, UNCHANGED vars
    PROVE  StepKeeps
<1>1. m' = m /\ hello' = hello
  BY DEF vars
<1>2. Follows(m', m)
  BY ZenonT(60), <1>1 DEF Follows, FailoverInv
<1> QED
  BY ZenonT(60), <1>1, <1>2, FollowsIsAStep

LEMMA InitSound ==
    ASSUME FleetAssumption, Init
    PROVE  FailoverInv /\ Ahead(m) /\ hello = {}
<1>1. PICK S : S = Addr \ {master0}
  BY ZenonT(60)
<1>2. m = Blank(master0, S) /\ hello = {}
  BY <1>1 DEF Init
<1>3. /\ Shape(m) /\ m.addr = master0 /\ m.slaves = [b \in S |-> NewSlave] /\ m.state = "none"
      /\ m.promoted = NoOne /\ m.configEpoch = 0 /\ m.currentEpoch = 0 /\ m.failoverEpoch = 0
  BY ZenonT(60), <1>2 DEF Blank, Shape
<1>4. /\ Slaves(m) = S /\ Reconfiguring(m) = {} /\ Cardinality(Reconfiguring(m)) = 0
      /\ m.slaves = [a \in Slaves(m) |-> m.slaves[a]] /\ \A a \in S : Entry(m.slaves[a])
  BY ZenonT(60), <1>3, NobodyReconfigured
<1>5. Table(m)
  BY ZenonT(60), <1>1, <1>3, <1>4 DEF Table, FleetAssumption
<1>6. Machine(m)
  BY <1>3, <1>4 DEF Machine, FleetAssumption
<1>7. Epochs(m) /\ Ahead(m)
  BY <1>3 DEF Epochs, Ahead
<1>8. HelloOK
  BY <1>2 DEF HelloOK
<1> QED
  BY ZenonT(60), <1>2, <1>3, <1>5, <1>6, <1>7, <1>8 DEF FailoverInv, Sound

LEMMA FailoverInvHolds ==
    ASSUME FleetAssumption
    PROVE  Spec => []FailoverInv
<1>1. Init => FailoverInv
  BY ZenonT(60), InitSound
<1>2. FailoverInv /\ [Next]_vars => FailoverInv'
  BY ZenonT(60), EveryStepKeeps, StutterKeeps DEF StepKeeps, FailoverInv
<1> QED
  BY <1>1, <1>2, PTL DEF Spec

----------------------------------------------------------------------------
(* The theorems                                                            *)

\* The slave the failover's states dereference is in the table, whatever
\* resets, hello messages and aborts came in between.
THEOREM PromotedSlaveIsKnown ==
    ASSUME FleetAssumption
    PROVE  Spec => []PromotedIsASlave
<1>1. FailoverInv => PromotedIsASlave
  BY DEF FailoverInv, Sound, Machine, Table, PromotedIsASlave
<1> QED
  BY <1>1, FailoverInvHolds, PTL

\* At most parallelSyncs slaves resynchronise with the new master at a time.
THEOREM SyncsAreLimited ==
    ASSUME FleetAssumption
    PROVE  Spec => []ParallelSyncsRespected
<1>1. FailoverInv => ParallelSyncsRespected
  BY DEF FailoverInv, Sound, Machine, ParallelSyncsRespected
<1> QED
  BY <1>1, FailoverInvHolds, PTL

\* A published configuration can be superseded: its epoch is not ahead.
THEOREM ConfigurationIsPast ==
    ASSUME FleetAssumption
    PROVE  Spec => []ConfigEpochIsPast
<1>1. FailoverInv => ConfigEpochIsPast
  BY DEF FailoverInv, Sound, Epochs, ConfigEpochIsPast
<1> QED
  BY <1>1, FailoverInvHolds, PTL

\* Without a reset by the user the published address changes only with a newer
\* epoch, except when a promotion is acknowledged that another Sentinel's
\* configuration has overtaken.
THEOREM AddressHasItsEpoch ==
    ASSUME FleetAssumption, "reset" \notin UserCommands
    PROVE  Spec => [][NewAddressNewEpoch \/ Overtaken]_vars
<1>1. FailoverInv /\ [Next]_vars => [NewAddressNewEpoch \/ Overtaken]_vars
  BY ZenonT(60), EveryStepKeeps, StutterKeeps DEF StepKeeps
<1> QED
  BY <1>1, FailoverInvHolds, PTL DEF Spec

\* A Sentinel no other one competes with never announces two addresses under
\* one epoch: a failover's epoch is newer than the configuration's until its
\* promotion is acknowledged.
THEOREM LoneSentinelAddressHasItsEpoch ==
    ASSUME FleetAssumption, "reset" \notin UserCommands, OtherEpochs = {}
    PROVE  Spec => [][NewAddressNewEpoch]_vars
<1>. DEFINE Inv == FailoverInv /\ Ahead(m)
<1>1. Init => Inv
  BY ZenonT(60), InitSound
<1>2. Inv /\ [Next]_vars => StepKeeps
  BY ZenonT(60), EveryStepKeeps, StutterKeeps
<1>3. Inv /\ StepKeeps => Inv'
  BY ZenonT(60) DEF StepKeeps, FailoverInv, Ahead
<1>4. Inv => ~Overtaken
  BY DEF Overtaken, Ahead, FailoverInv, Sound, Epochs
<1>5. Inv /\ [Next]_vars => [NewAddressNewEpoch]_vars
  BY ZenonT(60), <1>2, <1>4 DEF StepKeeps
<1>. HIDE DEF Inv
<1> QED
  BY <1>1, <1>2, <1>3, <1>5, PTL DEF Spec
=============================================================================
