--------------------------- MODULE SentinelConfig ---------------------------
(***************************************************************************)
(* What a Sentinel keeps across restarts (sentinel.c): the configuration   *)
(* file that rewriteConfigSentinelOption() writes at every change and      *)
(* sentinelHandleConfiguration() reads back line by line, and the commands *)
(* that change it: SENTINEL MONITOR, REMOVE and SET.                       *)
(***************************************************************************)
EXTENDS Integers, Sequences, FiniteSets, SequencesExt

CONSTANTS Name, Addr, RunId, Option,
          Value,        \* values of the options; 0 is refused by SET, 1 the default
          denyScripts,  \* sentinel.deny_scripts_reconfig
          MaxEpoch, MaxFailures

\* The options only a file with deny-scripts-reconfig off may change at run time.
ScriptOption == {"notification-script", "client-reconfig-script"}

VARIABLES masters,  \* sentinel.masters: name -> record
          epoch,    \* sentinel.current_epoch
          file,     \* the lines of the configuration file
          failures  \* flushes that failed so far

vars == <<masters, epoch, file, failures>>

Fresh(a) ==
    [addr |-> a, opt |-> [o \in Option |-> 1], configEpoch |-> 0, leaderEpoch |-> 0,
     slaves |-> {}, sentinels |-> {}, promoted |-> "none"]

Put(f, k, v) == [x \in DOMAIN f \cup {k} |-> IF x = k THEN v ELSE f[x]]

\* The promoted slave's address once the failover passed the promotion.
sentinelGetCurrentMasterAddress(r) == IF r.promoted # "none" THEN r.promoted ELSE r.addr

\* While a promoted slave is announced as the master, the old master takes its
\* place among the slaves.
KnownSlaves(r) ==
    LET swap(a) == IF a = sentinelGetCurrentMasterAddress(r) THEN r.addr ELSE a
    IN [i \in 1..Cardinality(r.slaves) |-> swap(SetToSeq(r.slaves)[i])]

\* The lines of one master: options are left out when they have their default.
MasterLines(n, r) ==
    <<[key |-> "monitor", name |-> n, addr |-> sentinelGetCurrentMasterAddress(r)]>>
    \o SetToSeq({[key |-> "option", name |-> n, option |-> o, value |-> r.opt[o]] :
                    o \in {p \in Option : r.opt[p] # 1}})
    \o <<[key |-> "config-epoch", name |-> n, epoch |-> r.configEpoch],
         [key |-> "leader-epoch", name |-> n, epoch |-> r.leaderEpoch]>>
    \o [i \in 1..Cardinality(r.slaves) |->
            [key |-> "known-replica", name |-> n, addr |-> KnownSlaves(r)[i]]]
    \o SetToSeq({[key |-> "known-sentinel", name |-> n, runid |-> s] : s \in r.sentinels})

rewriteConfigSentinelOption(ms, e) ==
    FoldLeft(LAMBDA lines, n : lines \o MasterLines(n, ms[n]), <<>>, SetToSeq(DOMAIN ms))
    \o <<[key |-> "current-epoch", epoch |-> e]>>

Bad(acc) == [acc EXCEPT !.ok = FALSE]

\* One line of the file; an unknown or repeated name is an error, which stops
\* the start.
sentinelHandleConfiguration(acc, line) ==
    IF line.key = "current-epoch"
    THEN [acc EXCEPT !.epoch = IF line.epoch > @ THEN line.epoch ELSE @]
    ELSE IF (line.key = "monitor") = (line.name \in DOMAIN acc.masters) THEN Bad(acc)
    ELSE LET n == line.name IN
         CASE line.key = "monitor" ->
                [acc EXCEPT !.masters = Put(@, n, Fresh(line.addr))]
           [] line.key = "option" ->
                IF line.value = 0 THEN Bad(acc)
                ELSE [acc EXCEPT !.masters[n].opt[line.option] = line.value]
           [] line.key = "config-epoch" ->
                [acc EXCEPT !.masters[n].configEpoch = line.epoch,
                            !.epoch = IF line.epoch > @ THEN line.epoch ELSE @]
           [] line.key = "leader-epoch" -> [acc EXCEPT !.masters[n].leaderEpoch = line.epoch]
           [] line.key = "known-replica" ->
                IF line.addr \in acc.masters[n].slaves THEN Bad(acc)
                ELSE [acc EXCEPT !.masters[n].slaves = @ \cup {line.addr}]
           [] line.key = "known-sentinel" ->
                IF line.runid \in acc.masters[n].sentinels THEN Bad(acc)
                ELSE [acc EXCEPT !.masters[n].sentinels = @ \cup {line.runid}]

Load(lines) ==
    FoldLeft(sentinelHandleConfiguration, [masters |-> <<>>, epoch |-> 0, ok |-> TRUE], lines)

\* The flush that ends a handler; when the write fails a warning is all.
sentinelFlushConfig ==
    \/ file' = rewriteConfigSentinelOption(masters', epoch') /\ UNCHANGED failures
    \/ failures < MaxFailures /\ failures' = failures + 1 /\ UNCHANGED file

NoFlush == UNCHANGED <<file, failures>>

SentinelMonitor(n, a) ==
    /\ UNCHANGED epoch
    /\ IF n \in DOMAIN masters
       THEN UNCHANGED masters /\ NoFlush
       ELSE masters' = Put(masters, n, Fresh(a)) /\ sentinelFlushConfig

SentinelRemove(n) ==
    /\ n \in DOMAIN masters
    /\ masters' = [k \in DOMAIN masters \ {n} |-> masters[k]]
    /\ UNCHANGED epoch
    /\ sentinelFlushConfig

\* One pair of SENTINEL SET; stop: "no", "error" (flush what changed and reply)
\* or "denied" (reply at once).
SetOne(acc, p) ==
    IF acc.stop # "no" THEN acc
    ELSE IF p.option \in ScriptOption /\ denyScripts THEN [acc EXCEPT !.stop = "denied"]
    ELSE IF p.value = 0 THEN [acc EXCEPT !.stop = "error"]
    ELSE [acc EXCEPT !.r.opt[p.option] = p.value, !.changes = @ + 1]

\* All the pairs before a bad one stay in effect, and are flushed unless the
\* bad one was a denied script.
sentinelSetCommand(n, pairs) ==
    LET acc == FoldLeft(SetOne, [r |-> masters[n], changes |-> 0, stop |-> "no"], pairs)
    IN /\ masters' = [masters EXCEPT ![n] = acc.r]
       /\ UNCHANGED epoch
       /\ IF acc.changes > 0 /\ acc.stop # "denied" THEN sentinelFlushConfig ELSE NoFlush

SentinelSet(n) ==
    /\ n \in DOMAIN masters
    /\ \E o, p \in Option, v, w \in Value :
           sentinelSetCommand(n, <<[option |-> o, value |-> v], [option |-> p, value |-> w]>>)

\* The other handlers that flush: a slave or Sentinel is discovered, a vote is
\* cast in a new epoch, the promoted slave is acknowledged, the master switched.
Discover(n) ==
    /\ n \in DOMAIN masters
    /\ \/ \E a \in Addr \ ({masters[n].addr} \cup masters[n].slaves) :
              masters' = [masters EXCEPT ![n].slaves = @ \cup {a}]
       \/ \E s \in RunId \ masters[n].sentinels :
              masters' = [masters EXCEPT ![n].sentinels = @ \cup {s}]
    /\ UNCHANGED epoch
    /\ sentinelFlushConfig

Vote(n) ==
    /\ n \in DOMAIN masters /\ epoch < MaxEpoch
    /\ epoch' = epoch + 1
    /\ masters' = [masters EXCEPT ![n].leaderEpoch = epoch + 1]
    /\ sentinelFlushConfig

Promote(n) ==
    /\ n \in DOMAIN masters /\ masters[n].promoted = "none"
    /\ masters[n].leaderEpoch > masters[n].configEpoch
    /\ \E a \in masters[n].slaves :
           masters' = [masters EXCEPT ![n].promoted = a,
                                      ![n].configEpoch = masters[n].leaderEpoch]
    /\ UNCHANGED epoch
    /\ sentinelFlushConfig

Switch(n) ==
    /\ n \in DOMAIN masters /\ masters[n].promoted # "none"
    /\ masters' = [masters EXCEPT ![n].addr = masters[n].promoted, ![n].promoted = "none",
                       ![n].slaves = (@ \ {masters[n].promoted}) \cup {masters[n].addr}]
    /\ UNCHANGED epoch
    /\ sentinelFlushConfig

Restart ==
    /\ masters' = Load(file).masters /\ epoch' = Load(file).epoch
    /\ UNCHANGED <<file, failures>>

Init == masters = <<>> /\ epoch = 0 /\ failures = 0
        /\ file = rewriteConfigSentinelOption(<<>>, 0)

Next == \/ \E n \in Name : \/ \E a \in Addr : SentinelMonitor(n, a)
                           \/ SentinelRemove(n) \/ SentinelSet(n) \/ Discover(n)
                           \/ Vote(n) \/ Promote(n) \/ Switch(n)
        \/ Restart

Spec == Init /\ [][Next]_vars

\* What a restart may keep of a master record: a failover in progress is over,
\* as if the switch to the promoted slave had happened.
AfterRestart(r) ==
    IF r.promoted = "none" THEN r
    ELSE [r EXCEPT !.addr = r.promoted, !.promoted = "none",
                   !.slaves = (@ \ {r.promoted}) \cup {r.addr}]

\* Whatever handler ran last, a restart brings back the masters, options,
\* epochs and peers the Sentinel had in memory, as long as no write failed and
\* no script option was denied.
FileMatchesMemory ==
    failures = 0 /\ ~denyScripts =>
        /\ Load(file).masters = [n \in DOMAIN masters |-> AfterRestart(masters[n])]
        /\ Load(file).epoch = epoch

\* A file the Sentinel wrote never stops its next start: no master is declared
\* twice or used before its declaration, no replica is listed twice, not even
\* while a promoted slave and the old master change places.
FileLoads == Load(file).ok
=============================================================================
