-------------------------- MODULE SentinelFailover --------------------------
(***************************************************************************)
(* The failover of one monitored master as the Sentinel that leads it      *)
(* drives it (sentinel.c): selecting a slave, promoting it, reconfiguring  *)
(* the others and switching the master's address, with the INFO replies,   *)
(* hello messages and user commands that interleave with its timer.        *)
(* m is the Sentinel's record of the master and its slaves; repl, up and   *)
(* sent are the Redis instances themselves: whom each replicates, whether  *)
(* it runs, and the SLAVEOF commands on their way to it.  Clocks are the   *)
(* outcomes of their comparisons.                                          *)
(***************************************************************************)
EXTENDS Integers, Sequences, FiniteSets

CONSTANTS Addr, master0, parallelSyncs, MaxEpoch,
          priority, offset,  \* slave_priority and slave_repl_offset of each instance
          Mortal,            \* the instances that may die
          MaxCommands,       \* SLAVEOF commands in flight to one instance
          UserCommands,      \* the SENTINEL commands the user may send
          OtherEpochs        \* the epochs in which another Sentinel is the leader

NoOne == "no one"

VARIABLES m, repl, up, sent, hello

vars == <<m, repl, up, sent, hello>>

NewSlave == [sdown |-> FALSE, reconf |-> {}]

Blank(a, slaves) ==
    [addr |-> a, slaves |-> [b \in slaves |-> NewSlave], sdown |-> FALSE, odown |-> FALSE,
     reported |-> "master", forced |-> FALSE, state |-> "none", promoted |-> NoOne,
     failoverEpoch |-> 0, configEpoch |-> 0, currentEpoch |-> 0, tilt |-> FALSE]

Slaves(r) == DOMAIN r.slaves
InProgress(r) == r.state # "none"

\* Every slave record and all the failover state go; epochs and tilt stay.
sentinelResetMaster(r, slaves) ==
    [Blank(r.addr, slaves) EXCEPT !.failoverEpoch = r.failoverEpoch,
        !.configEpoch = r.configEpoch, !.currentEpoch = r.currentEpoch, !.tilt = r.tilt]

\* The old master becomes a slave of the new address.
sentinelResetMasterAndChangeAddress(r, a) ==
    [sentinelResetMaster(r, (Slaves(r) \cup {r.addr}) \ {a}) EXCEPT !.addr = a]

sentinelGetCurrentMasterAddress(r) ==
    IF r.promoted # NoOne /\ r.state \in {"reconf_slaves", "update_config"}
    THEN r.promoted ELSE r.addr

sentinelMasterLooksSane(r) == r.reported = "master" /\ ~r.sdown /\ ~r.odown

\* sentinelSendSlaveOf() queues the command on the link of each of "to".
Send(q, to, target) ==
    [a \in Addr |-> IF a \in to /\ up[a] /\ Len(q[a]) < MaxCommands
                    THEN Append(q[a], target) ELSE q[a]]

compareSlavesForPromotion(a, b) ==
    \/ priority[a] < priority[b]
    \/ priority[a] = priority[b] /\ offset[a] > offset[b]

Selectable(r) == {a \in Slaves(r) : ~r.slaves[a].sdown /\ up[a] /\ priority[a] # 0}

\* The best of the usable slaves; among equals the run id decides, which is
\* arbitrary.
sentinelSelectSlave(r) ==
    {a \in Selectable(r) : \A b \in Selectable(r) : ~compareSlavesForPromotion(b, a)}

sentinelStartFailover(r) ==
    [r EXCEPT !.state = "wait_start", !.currentEpoch = @ + 1,
              !.failoverEpoch = r.currentEpoch + 1]

sentinelAbortFailover(r) ==
    [r EXCEPT !.state = "none", !.forced = FALSE, !.promoted = NoOne]

\* The election (SentinelElection) gives an epoch to one Sentinel.
sentinelFailoverWaitStart(r, isLeader, late) ==
    IF (isLeader /\ r.failoverEpoch \notin OtherEpochs) \/ r.forced THEN [r EXCEPT !.state = "select_slave"]
    ELSE IF late THEN sentinelAbortFailover(r) ELSE r

sentinelFailoverSelectSlave(r) ==
    IF sentinelSelectSlave(r) = {} THEN {sentinelAbortFailover(r)}
    ELSE {[r EXCEPT !.state = "send_slaveof_noone", !.promoted = a] :
             a \in sentinelSelectSlave(r)}

sentinelFailoverSendSlaveOfNoOne(r, late) ==
    IF up[r.promoted] THEN [r EXCEPT !.state = "wait_promotion"]
    ELSE IF late THEN sentinelAbortFailover(r) ELSE r

sentinelFailoverWaitPromotion(r, late) ==
    IF late THEN sentinelAbortFailover(r) ELSE r

Reconfiguring(r) == {a \in Slaves(r) : r.slaves[a].reconf \cap {"sent", "inprog"} # {}}

\* The flags of a slave after the loop looked at them: one that stayed in "sent"
\* too long counts as done, and is sent the command again.
ReconfTimeout(f, late) == IF late /\ "sent" \in f THEN (f \ {"sent"}) \cup {"done"} ELSE f

Passed(r, a) == a = r.promoted \/ "done" \in r.slaves[a].reconf

\* Those of the visited slaves that are sent SLAVEOF.
Resent(r, visited, late) ==
    {a \in visited : /\ ~Passed(r, a) /\ up[a]
                     /\ ReconfTimeout(r.slaves[a].reconf, late) \cap {"sent", "inprog"} = {}}

\* The loop visits the slaves in the arbitrary order of the dictionary, until
\* parallelSyncs are in progress.
Visits(r, late) ==
    LET inProgress(visited) == Cardinality(Reconfiguring(r)) + Cardinality(Resent(r, visited, late))
    IN  {visited \in SUBSET Slaves(r) :
            \/ visited = {} /\ inProgress({}) >= parallelSyncs
            \/ /\ inProgress({}) < parallelSyncs /\ inProgress(visited) <= parallelSyncs
               /\ visited = Slaves(r) \/ inProgress(visited) = parallelSyncs}

\* The flags after the loop.
Reconf(r, visited, late) ==
    [r EXCEPT !.slaves = [a \in Slaves(r) |->
        IF a \in visited /\ ~Passed(r, a)
        THEN [r.slaves[a] EXCEPT !.reconf =
                 ReconfTimeout(@, late) \cup (IF a \in Resent(r, visited, late) THEN {"sent"} ELSE {})]
        ELSE r.slaves[a]]]

sentinelFailoverReconfNextSlave(r, late) ==
    {[r |-> Reconf(r, visited, late), to |-> Resent(r, visited, late)] : visited \in Visits(r, late)}

NotReconfigured(r) ==
    {a \in Slaves(r) \ {r.promoted} : "done" \notin r.slaves[a].reconf /\ ~r.slaves[a].sdown}

\* The failover is over when every reachable slave is reconfigured, or at the
\* timeout, but in no case while the promoted slave is down.
sentinelFailoverDetectEnd(r, late) ==
    ~r.slaves[r.promoted].sdown /\ (late \/ NotReconfigured(r) = {})

\* The slaves sent a best effort SLAVEOF when the timeout ends the failover.
BestEffort(r) == {a \in Slaves(r) : r.slaves[a].reconf \cap {"done", "sent"} = {}}

sentinelCheckSubjectivelyDown(r, late) ==
    [r EXCEPT !.sdown = (~up[r.addr] \/ r.reported = "slave") /\ (late \/ @),
              !.slaves = [a \in Slaves(r) |->
                  [r.slaves[a] EXCEPT !.sdown = ~up[a] /\ (late \/ @)]]]

\* The peers' opinion is SentinelElection's part: once the master is down for
\* this Sentinel the quorum may or may not be there.
sentinelCheckObjectivelyDown(r, peersAgree) == [r EXCEPT !.odown = r.sdown /\ peersAgree]

\* sentinelFailoverStateMachine(): the possible records after a step, with the
\* SLAVEOF commands it sends.
sentinelFailoverStateMachine(r, isLeader, late) ==
    CASE r.state = "wait_start" ->
           {[r |-> sentinelFailoverWaitStart(r, isLeader, late), q |-> sent]}
      [] r.state = "select_slave" ->
           {[r |-> x, q |-> sent] : x \in sentinelFailoverSelectSlave(r)}
      [] r.state = "send_slaveof_noone" ->
           {[r |-> sentinelFailoverSendSlaveOfNoOne(r, late),
             q |-> Send(sent, {r.promoted}, NoOne)]}
      [] r.state = "wait_promotion" ->
           {[r |-> sentinelFailoverWaitPromotion(r, late), q |-> sent]}
      [] r.state = "reconf_slaves" ->
           {LET x == acc.r
                ends == sentinelFailoverDetectEnd(x, late)
                q1 == Send(sent, acc.to, r.promoted)
            IN [r |-> IF ends THEN [x EXCEPT !.state = "update_config"] ELSE x,
                q |-> IF ends /\ late THEN Send(q1, BestEffort(x), r.promoted) ELSE q1] :
              acc \in sentinelFailoverReconfNextSlave(r, late)}
      [] OTHER -> {[r |-> r, q |-> sent]}

sentinelFailoverSwitchToPromotedSlave(r) ==
    sentinelResetMasterAndChangeAddress(r, r.promoted)

\* sentinelTimer(): the tilt check, then the acting half for the master and its
\* slaves, and the switch to the promoted slave as soon as the state machine
\* asks for it.  lateDown and late: the down-after and the failover delays are
\* found over.  A failover starts only when the last attempt is long ago (late).
sentinelTimer(clockJumps, lateDown, late, peersAgree, isLeader) ==
    IF clockJumps \/ (m.tilt /\ ~late)
    THEN m' = [m EXCEPT !.tilt = TRUE] /\ UNCHANGED <<repl, up, sent, hello>>
    ELSE LET r1 == sentinelCheckObjectivelyDown(
                       sentinelCheckSubjectivelyDown([m EXCEPT !.tilt = FALSE], lateDown),
                       peersAgree)
             starts == r1.odown /\ ~InProgress(r1) /\ late
         IN /\ starts => r1.currentEpoch < MaxEpoch
            /\ \E x \in sentinelFailoverStateMachine(
                     IF starts THEN sentinelStartFailover(r1) ELSE r1, isLeader,
                     late /\ ~starts) :
                 /\ m' = IF x.r.state = "update_config"
                         THEN sentinelFailoverSwitchToPromotedSlave(x.r) ELSE x.r
                 /\ sent' = x.q
            /\ UNCHANGED <<repl, up, hello>>

\* The INFO reply of the master: its role, and its slaves not yet known.
RefreshMaster ==
    /\ up[m.addr]
    /\ m' = [m EXCEPT !.reported = IF repl[m.addr] = NoOne THEN "master" ELSE "slave",
                      !.slaves = [a \in Slaves(m) \cup {b \in Addr \ {m.addr} :
                                         up[b] /\ repl[b] = m.addr /\ repl[m.addr] = NoOne} |->
                                     IF a \in Slaves(m) THEN m.slaves[a] ELSE NewSlave]]
    /\ UNCHANGED <<repl, up, sent, hello>>

\* The promoted slave reports to be a master: this is what moves the failover
\* past the point of no return.
Acknowledged(r, a) == repl[a] = NoOne /\ r.promoted = a /\ r.state = "wait_promotion"

SlaveToMaster(r) == [r EXCEPT !.configEpoch = r.failoverEpoch, !.state = "reconf_slaves"]

\* The reconfiguration flags of a slave move on with what it reports.
ReconfFlags(f, a, linkUp) ==
    LET g == IF "sent" \in f /\ repl[a] = m.promoted
             THEN (f \ {"sent"}) \cup {"inprog"} ELSE f
    IN  IF "inprog" \in g /\ linkUp THEN (g \ {"inprog"}) \cup {"done"} ELSE g

\* The INFO reply of a slave.  "settled": role and configuration have been as
\* reported for longer than the code waits before it corrects them.
RefreshSlave(a, settled) ==
    LET wrong == IF repl[a] = NoOne THEN m.promoted # a ELSE repl[a] # m.addr
        fix == wrong /\ settled /\ sentinelMasterLooksSane(m) /\ ~Acknowledged(m, a)
    IN /\ a \in Slaves(m) /\ up[a] /\ ~m.tilt
       /\ m' = IF Acknowledged(m, a) THEN SlaveToMaster(m)
               ELSE IF repl[a] # NoOne
                    THEN [m EXCEPT !.slaves[a].reconf = ReconfFlags(@, a, up[repl[a]])]
                    ELSE m
       /\ sent' = IF fix THEN Send(sent, {a}, m.addr) ELSE sent
       /\ UNCHANGED <<repl, up, hello>>

\* A hello message of another Sentinel with a newer configuration.
sentinelProcessHelloMessage(h) ==
    /\ hello' = hello \ {h}
    /\ LET r == [m EXCEPT !.currentEpoch = IF h.epoch > @ THEN h.epoch ELSE @]
       IN m' = IF h.epoch <= m.configEpoch THEN r
               ELSE LET n == [r EXCEPT !.configEpoch = h.epoch]
                    IN IF h.addr = m.addr THEN n
                       ELSE sentinelResetMasterAndChangeAddress(n, h.addr)
    /\ UNCHANGED <<repl, up, sent>>

\* SENTINEL RESET and SENTINEL FAILOVER.
UserReset ==
    /\ "reset" \in UserCommands
    /\ m' = sentinelResetMaster(m, {})
    /\ UNCHANGED <<repl, up, sent, hello>>

UserFailover ==
    /\ "failover" \in UserCommands /\ ~InProgress(m) /\ sentinelSelectSlave(m) # {}
    /\ m.currentEpoch < MaxEpoch
    /\ m' = [sentinelStartFailover(m) EXCEPT !.forced = TRUE]
    /\ UNCHANGED <<repl, up, sent, hello>>

\* An instance executes the next command sent to it (MULTI SLAVEOF ... EXEC).
InstanceObeys(a) ==
    /\ up[a] /\ sent[a] # <<>>
    /\ repl' = [repl EXCEPT ![a] = Head(sent[a])]
    /\ sent' = [sent EXCEPT ![a] = Tail(@)]
    /\ UNCHANGED <<m, up, hello>>

\* An instance dies; what was on its way to it is lost with the connection.
InstanceDies(a) ==
    /\ up[a] /\ a \in Mortal
    /\ up' = [up EXCEPT ![a] = FALSE] /\ sent' = [sent EXCEPT ![a] = <<>>]
    /\ UNCHANGED <<m, repl, hello>>

InstanceReturns(a) ==
    /\ ~up[a] /\ up' = [up EXCEPT ![a] = TRUE]
    /\ UNCHANGED <<m, repl, sent, hello>>

\* Another Sentinel completed a failover of its own and announces it.
OtherSentinelFailsOver(a) ==
    /\ up[a] /\ repl[a] # NoOne /\ hello = {}
    /\ repl' = [repl EXCEPT ![a] = NoOne]
    /\ \E e \in OtherEpochs :
           e > m.configEpoch /\ hello' = {[epoch |-> e, addr |-> a]}
    /\ UNCHANGED <<m, up, sent>>

Init ==
    /\ m = Blank(master0, Addr \ {master0})
    /\ repl = [a \in Addr |-> IF a = master0 THEN NoOne ELSE master0]
    /\ up = [a \in Addr |-> TRUE]
    /\ sent = [a \in Addr |-> <<>>]
    /\ hello = {}

Refresh == RefreshMaster \/ \E a \in Addr, settled \in BOOLEAN : RefreshSlave(a, settled)

Next ==
    \/ \E j, d, l, p, e \in BOOLEAN : sentinelTimer(j, d, l, p, e)
    \/ Refresh
    \/ \E h \in hello : sentinelProcessHelloMessage(h)
    \/ UserReset \/ UserFailover
    \/ \E a \in Addr : \/ InstanceObeys(a) \/ InstanceDies(a) \/ InstanceReturns(a)
                       \/ OtherSentinelFailsOver(a)

Spec == Init /\ [][Next]_vars

\* The promoted slave is one of the slaves in the table for as long as a state
\* of the machine dereferences it, whatever resets, hello messages and aborts
\* came in between; no failover is without it past the selection.
PromotedIsASlave ==
    /\ m.state \in {"send_slaveof_noone", "wait_promotion", "reconf_slaves"} =>
           m.promoted \in Slaves(m)
    /\ m.state \in {"none", "wait_start", "select_slave"} => m.promoted = NoOne
    /\ Reconfiguring(m) # {} => m.promoted \in Slaves(m)
    /\ m.addr \notin Slaves(m)

\* sentinelFailoverReconfNextSlave(): at no time do more slaves than the
\* configured parallel-syncs resynchronise with the new master.
ParallelSyncsRespected == Cardinality(Reconfiguring(m)) <= parallelSyncs

\* The epoch of the configuration is never ahead of the Sentinel's current
\* epoch, so a configuration it publishes can always be superseded.
ConfigEpochIsPast == m.configEpoch <= m.currentEpoch

\* The address this Sentinel publishes for the master (hello messages and
\* SENTINEL GET-MASTER-ADDR-BY-NAME) changes only together with a newer
\* configuration epoch: without a reset by the user, two addresses are never
\* announced under one epoch.
NewAddressNewEpoch ==
    sentinelGetCurrentMasterAddress(m)' # sentinelGetCurrentMasterAddress(m)
        => m'.configEpoch > m.configEpoch
=============================================================================
