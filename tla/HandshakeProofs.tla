-------------------------- MODULE HandshakeProofs ---------------------------
(***************************************************************************)
(* Proofs about the connection of a replica to its master (ReplHandshake), *)
(* for any masters, any file and any number of errors and cancellations.   *)
(***************************************************************************)
EXTENDS ReplHandshake, SequenceTheorems, TLAPS

\* "none" and "nobody" stand for the absence of a master; they name none.
HostAssumption == "none" \notin Host /\ None \notin Host

\* The replica is a record with these fields.
Fields(x) ==
    x = [host |-> x.host, state |-> x.state, sockets |-> x.sockets, temps |-> x.temps, master |-> x.master,
         cached |-> x.cached, size |-> x.size, read |-> x.read, usemark |-> x.usemark, last |-> x.last,
         eof |-> x.eof, file |-> x.file, data |-> x.data]

States == Connecting \cup {"NONE", "CONNECT", "TRANSFER", "CONNECTED"}

\* The sockets, the files and the masters of a state.  A transfer begins by
\* forgetting the cached master, so that none is left when the connection is up.
Clean(x) ==
    /\ x.state \in States
    /\ x.sockets = IF x.state \in {"NONE", "CONNECT"} THEN 0 ELSE 1
    /\ x.temps = IF x.state = "TRANSFER" THEN 1 ELSE 0
    /\ x.master # None <=> x.state = "CONNECTED"
    /\ x.state \in {"TRANSFER", "CONNECTED"} => x.cached = None

\* Nothing goes on without a configured master.
Hosted(x) ==
    /\ x.host \in Host \cup {"none"}
    /\ x.host = "none" => x.state = "NONE" /\ x.cached = None

\* The inductive invariant for sockets, files and masters.
LinkInv(x) == Fields(x) /\ Clean(x) /\ Hosted(x)

\* The fields that describe the connection, and those of the file.
Link(x) == <<x.host, x.state, x.sockets, x.temps, x.master, x.cached>>
Reader(x) == <<x.size, x.read, x.usemark, x.last, x.eof, x.file>>

----------------------------------------------------------------------------
(* Leaving a connection.                                                   *)

\* A handshake or a transfer is given up: its socket and its file go with it.
LEMMA CancelKeeps ==
    ASSUME NEW x, Fields(x), Clean(x), NEW y, y = cancelReplicationHandshake(x)
    PROVE  /\ Fields(y) /\ Clean(y) /\ y.state \notin Connecting \cup {"TRANSFER"}
           /\ y.host = x.host /\ y.master = x.master /\ y.cached = x.cached /\ y.data = x.data
           /\ x.state = "NONE" => y.state = "NONE"
<1>1. CASE x.state = "TRANSFER"
  <2>1. y = [x EXCEPT !.sockets = @ - 1, !.temps = @ - 1, !.state = "CONNECT"]
    BY <1>1 DEF cancelReplicationHandshake, replicationAbortSyncTransfer, undoConnectWithMaster, Fields
  <2>2. /\ Fields(y) /\ y.state = "CONNECT" /\ y.sockets = x.sockets - 1 /\ y.temps = x.temps - 1
        /\ y.host = x.host /\ y.master = x.master /\ y.cached = x.cached /\ y.data = x.data
    BY ZenonT(60), <2>1 DEF Fields
  <2> QED
    BY <1>1, <2>2 DEF Clean, Connecting, States
<1>2. CASE x.state \in Connecting
  <2>1. y = [x EXCEPT !.sockets = @ - 1, !.state = "CONNECT"]
    BY <1>2 DEF cancelReplicationHandshake, undoConnectWithMaster, Fields, Connecting
  <2>2. /\ Fields(y) /\ y.state = "CONNECT" /\ y.sockets = x.sockets - 1 /\ y.temps = x.temps
        /\ y.host = x.host /\ y.master = x.master /\ y.cached = x.cached /\ y.data = x.data
    BY ZenonT(60), <2>1 DEF Fields
  <2> QED
    BY <1>2, <2>2 DEF Clean, Connecting, States
<1>3. CASE x.state \notin Connecting \cup {"TRANSFER"}
  BY <1>3 DEF cancelReplicationHandshake
<1> QED
  BY <1>1, <1>2, <1>3

\* The master client is cached when it goes.
LEMMA LoseKeeps ==
    ASSUME NEW x, Fields(x), Clean(x), NEW y, y = LoseMaster(x)
    PROVE  /\ Fields(y) /\ Clean(y) /\ y.master = None
           /\ y.host = x.host /\ y.data = x.data
           /\ y.state = IF x.state = "CONNECTED" THEN "CONNECT" ELSE x.state
           /\ Reader(y) = Reader(x)
<1>1. CASE x.master = None
  BY <1>1 DEF LoseMaster, Clean
<1>2. CASE x.master # None
  <2>1. y = [x EXCEPT !.cached = x.master, !.master = None, !.state = "CONNECT", !.sockets = @ - 1]
    BY <1>2 DEF LoseMaster, replicationCacheMaster
  <2>2. /\ Fields(y) /\ y.state = "CONNECT" /\ y.sockets = x.sockets - 1 /\ y.temps = x.temps
        /\ y.host = x.host /\ y.master = None /\ y.data = x.data /\ Reader(y) = Reader(x)
    BY ZenonT(60), <2>1 DEF Fields, Reader
  <2> QED
    BY <1>2, <2>2 DEF Clean, Connecting, States
<1> QED
  BY <1>1, <1>2

\* REPLICAOF: the old connection is left, whatever state it was in.
LEMMA SetMasterKeeps ==
    ASSUME HostAssumption, NEW x, LinkInv(x), NEW h \in Host, NEW y, y = replicationSetMaster(x, h)
    PROVE  LinkInv(y) /\ y.state = "CONNECT" /\ y.data = x.data
<1>1. PICK a : a = [x EXCEPT !.host = h]
  BY ZenonT(60)
<1>2. Fields(a) /\ Clean(a) /\ a.host = h /\ a.data = x.data
  BY <1>1 DEF LinkInv, Fields, Clean
<1>3. PICK b : b = LoseMaster(a)
  OBVIOUS
<1>4. Fields(b) /\ Clean(b) /\ b.master = None /\ b.host = h /\ b.data = x.data
  BY <1>2, <1>3, LoseKeeps
<1>5. PICK c : c = cancelReplicationHandshake(b)
  OBVIOUS
<1>6. /\ Fields(c) /\ Clean(c) /\ c.state \notin Connecting \cup {"TRANSFER"}
      /\ c.master = None /\ c.host = h /\ c.data = x.data
  BY <1>4, <1>5, CancelKeeps
<1>7. PICK d : d = IF x.host = "none" THEN [c EXCEPT !.cached = "myself"] ELSE c
  BY ZenonT(60)
<1>8. /\ Fields(d) /\ d.state = c.state /\ d.sockets = c.sockets /\ d.temps = c.temps
      /\ d.master = None /\ d.host = h /\ d.data = x.data
  BY <1>6, <1>7 DEF Fields
<1>9. y = [d EXCEPT !.state = "CONNECT"]
  BY <1>1, <1>3, <1>5, <1>7 DEF replicationSetMaster
<1>10. /\ Fields(y) /\ y.state = "CONNECT" /\ y.sockets = d.sockets /\ y.temps = d.temps
       /\ y.master = None /\ y.host = h /\ y.data = x.data
  BY <1>8, <1>9 DEF Fields
<1>11. c.sockets = 0 /\ c.temps = 0
  BY <1>6 DEF Clean, States
<1> QED
  BY <1>8, <1>10, <1>11 DEF LinkInv, Clean, Hosted, States, HostAssumption

\* REPLICAOF NO ONE: nothing of the replica is left.
LEMMA UnsetKeeps ==
    ASSUME NEW x, LinkInv(x), NEW y, y = replicationUnsetMaster(x)
    PROVE  LinkInv(y) /\ y.state = "NONE" /\ y.data = x.data
<1>1. PICK a : a = [x EXCEPT !.host = "none"]
  BY ZenonT(60)
<1>2. Fields(a) /\ Clean(a) /\ a.host = "none" /\ a.data = x.data
  BY <1>1 DEF LinkInv, Fields, Clean
<1>3. PICK b : b = LoseMaster(a)
  OBVIOUS
<1>4. Fields(b) /\ Clean(b) /\ b.master = None /\ b.host = "none" /\ b.data = x.data
  BY <1>2, <1>3, LoseKeeps
<1>5. PICK c : c = [b EXCEPT !.cached = None]
  BY ZenonT(60)
<1>6. /\ Fields(c) /\ c.state = b.state /\ c.sockets = b.sockets /\ c.temps = b.temps
      /\ c.master = None /\ c.cached = None /\ c.host = "none" /\ c.data = x.data
  BY <1>4, <1>5 DEF Fields
<1>7. Clean(c)
  BY <1>4, <1>6 DEF Clean
<1>8. PICK d : d = cancelReplicationHandshake(c)
  OBVIOUS
<1>9. /\ Fields(d) /\ Clean(d) /\ d.state \notin Connecting \cup {"TRANSFER"}
      /\ d.master = None /\ d.cached = None /\ d.host = "none" /\ d.data = x.data
  BY <1>6, <1>7, <1>8, CancelKeeps
<1>10. y = [d EXCEPT !.state = "NONE"]
  BY <1>1, <1>3, <1>5, <1>8 DEF replicationUnsetMaster, replicationDiscardCachedMaster
<1>11. /\ Fields(y) /\ y.state = "NONE" /\ y.sockets = d.sockets /\ y.temps = d.temps
       /\ y.master = None /\ y.cached = None /\ y.host = "none" /\ y.data = x.data
  BY <1>9, <1>10 DEF Fields
<1>12. d.sockets = 0 /\ d.temps = 0
  BY <1>9 DEF Clean, States
<1> QED
  BY <1>11, <1>12 DEF LinkInv, Clean, Hosted, States

----------------------------------------------------------------------------
(* Making a connection.                                                    *)

\* A new state of the handshake keeps the socket; an error closes it.
LEMMA StateKeeps ==
    ASSUME NEW x, LinkInv(x), x.state \in Connecting, NEW y,
           \/ y = Error(x)
           \/ \E st \in Connecting : y = [x EXCEPT !.state = st]
    PROVE  LinkInv(y) /\ y.state \in Connecting \cup {"CONNECT"} /\ y.data = x.data
<1>0. x.host # "none"
  BY DEF LinkInv, Hosted, Connecting
<1>1. CASE y = Error(x)
  <2>1. /\ Fields(y) /\ y.state = "CONNECT" /\ y.sockets = x.sockets - 1 /\ y.temps = x.temps
        /\ y.master = x.master /\ y.cached = x.cached /\ y.host = x.host /\ y.data = x.data
    BY ZenonT(60), <1>1 DEF Error, LinkInv, Fields
  <2> QED
    BY <1>0, <2>1 DEF LinkInv, Clean, Hosted, States, Connecting
<1>2. ASSUME NEW st \in Connecting, y = [x EXCEPT !.state = st]
      PROVE  LinkInv(y) /\ y.state \in Connecting \cup {"CONNECT"} /\ y.data = x.data
  <2>1. /\ Fields(y) /\ y.state = st /\ y.sockets = x.sockets /\ y.temps = x.temps
        /\ y.master = x.master /\ y.cached = x.cached /\ y.host = x.host /\ y.data = x.data
    BY <1>2 DEF LinkInv, Fields
  <2> QED
    BY <1>0, <1>2, <2>1 DEF LinkInv, Clean, Hosted, States, Connecting
<1> QED
  BY <1>1, <1>2

\* Each reply of the handshake is one of those.
LEMMA HandshakeKeeps ==
    ASSUME NEW x, LinkInv(x), x.state \in Connecting \ {"RECEIVE_PSYNC"}, NEW r, NEW y, y = HandshakeReply(x, r)
    PROVE  LinkInv(y) /\ y.state \in Connecting \cup {"CONNECT"} /\ y.data = x.data
<1>1. y = Error(x) \/ \E st \in Connecting : y = [x EXCEPT !.state = st]
  <2> USE DEF HandshakeReply, SendPing, SendPsync, SendCapa, SendIp, SendPort, SendAuth
  <2>1. CASE x.state = "CONNECTING"
    BY <2>1 DEF Connecting
  <2>2. CASE x.state = "RECEIVE_PONG"
    BY <2>2 DEF Connecting
  <2>3. CASE x.state = "RECEIVE_AUTH"
    BY <2>3 DEF Connecting
  <2>4. CASE x.state = "RECEIVE_PORT"
    BY <2>4 DEF Connecting
  <2>5. CASE x.state = "RECEIVE_IP"
    BY <2>5 DEF Connecting
  <2>6. CASE x.state = "RECEIVE_CAPA"
    BY <2>6 DEF Connecting
  <2> QED
    BY <2>1, <2>2, <2>3, <2>4, <2>5, <2>6 DEF Connecting
<1> QED
  BY <1>1, StateKeeps

\* The answer to PSYNC: the cached master comes back, or a transfer begins
\* without it.
LEMMA PsyncKeeps ==
    ASSUME NEW x, LinkInv(x), x.state = "RECEIVE_PSYNC", NEW r, r = "+CONTINUE" => x.cached # None,
           NEW y, y = syncWithMasterPsync(x, r)
    PROVE  /\ LinkInv(y) /\ y.data = x.data
           /\ y.state = "TRANSFER" => y.size = -1 /\ y.read = 0 /\ y.file = <<>>
<1>0. x.host # "none" /\ x.state \in Connecting
  BY DEF LinkInv, Hosted, Connecting
<1>1. CASE r = "newline"
  BY <1>1 DEF syncWithMasterPsync, PsyncReply
<1>2. CASE r \in {"-NOMASTERLINK", "-LOADING"}
  <2>1. y = Error(x)
    BY <1>2 DEF syncWithMasterPsync, PsyncReply
  <2> QED
    BY <1>0, <2>1, StateKeeps DEF Connecting
<1>3. CASE r = "+CONTINUE"
  <2>1. y = [x EXCEPT !.master = x.cached, !.cached = None, !.state = "CONNECTED"]
    BY <1>3 DEF syncWithMasterPsync, PsyncReply, replicationResurrectCachedMaster
  <2>2. /\ Fields(y) /\ y.state = "CONNECTED" /\ y.sockets = x.sockets /\ y.temps = x.temps
        /\ y.master = x.cached /\ y.cached = None /\ y.host = x.host /\ y.data = x.data
    BY ZenonT(60), <2>1 DEF LinkInv, Fields
  <2> QED
    BY <1>0, <1>3, <2>2 DEF LinkInv, Clean, Hosted, States, Connecting
<1>4. CASE r \notin {"newline", "-NOMASTERLINK", "-LOADING", "+CONTINUE"}
  <2>1. y = StartTransfer(x)
    BY <1>4 DEF syncWithMasterPsync, PsyncReply
  <2>2. y = [x EXCEPT !.cached = None, !.state = "TRANSFER", !.size = -1, !.read = 0, !.temps = @ + 1, !.file = <<>>]
    BY <2>1 DEF StartTransfer, replicationDiscardCachedMaster, LinkInv, Fields
  <2>3. /\ Fields(y) /\ y.state = "TRANSFER" /\ y.sockets = x.sockets /\ y.temps = x.temps + 1
        /\ y.master = x.master /\ y.cached = None /\ y.host = x.host /\ y.data = x.data
        /\ y.size = -1 /\ y.read = 0 /\ y.file = <<>>
    BY ZenonT(60), <2>2 DEF LinkInv, Fields
  <2> QED
    BY <1>0, <2>3 DEF LinkInv, Clean, Hosted, States, Connecting
<1> QED
  BY <1>1, <1>2, <1>3, <1>4

\* Reading the file changes nothing of the connection.
LEMMA ReadKeeps ==
    ASSUME NEW x, Fields(x), NEW y, (\E f : y = ReadHeader(x, f)) \/ (\E buf : y = ReadBytes(x, buf))
    PROVE  Fields(y) /\ Link(y) = Link(x) /\ y.data = x.data
<1>1. ASSUME NEW f, y = ReadHeader(x, f)
      PROVE  Fields(y) /\ Link(y) = Link(x) /\ y.data = x.data
  <2>1. CASE f = "mark"
    BY ZenonT(60), <1>1, <2>1 DEF ReadHeader, Fields, Link
  <2>2. CASE f # "mark"
    BY ZenonT(60), <1>1, <2>2 DEF ReadHeader, Fields, Link
  <2> QED
    BY <2>1, <2>2
<1>2. ASSUME NEW buf, y = ReadBytes(x, buf)
      PROVE  Fields(y) /\ Link(y) = Link(x) /\ y.data = x.data
  <2>1. PICK a, b, c, d : y = [x EXCEPT !.last = a, !.read = b, !.eof = c, !.file = d]
    BY ZenonT(60), <1>2 DEF ReadBytes
  <2> QED
    BY ZenonT(60), <2>1 DEF Fields, Link
<1> QED
  BY <1>1, <1>2

\* The connection alone decides the invariant.
LEMMA SameLink ==
    ASSUME NEW x, LinkInv(x), NEW y, Fields(y), Link(y) = Link(x)
    PROVE  LinkInv(y) /\ y.state = x.state
BY DEF LinkInv, Clean, Hosted, Link

\* The end of a transfer: the connection is up.
LEMMA LoadKeeps ==
    ASSUME HostAssumption, NEW x, LinkInv(x), x.state = "TRANSFER", NEW y, y = Load(x, TRUE)
    PROVE  LinkInv(y) /\ y.state # "TRANSFER" /\ y.data = x.file
<1>1. x.host # "none" /\ x.host \in Host
  BY DEF LinkInv, Hosted
<1>2. y = [x EXCEPT !.data = x.file, !.eof = FALSE, !.temps = @ - 1, !.master = x.host, !.state = "CONNECTED"]
  BY DEF Load
<1>3. /\ Fields(y) /\ y.state = "CONNECTED" /\ y.sockets = x.sockets /\ y.temps = x.temps - 1
      /\ y.master = x.host /\ y.cached = x.cached /\ y.host = x.host /\ y.data = x.file
  BY ZenonT(60), <1>2 DEF LinkInv, Fields
<1>4. x.sockets = 1 /\ x.temps = 1 /\ x.cached = None
  BY DEF LinkInv, Clean
<1>5. x.temps - 1 = 0
  BY <1>4
<1>6. y.master # None
  BY ZenonT(60), <1>1, <1>3 DEF HostAssumption
<1>7. Clean(y)
  BY ZenonT(60), <1>3, <1>4, <1>5, <1>6 DEF Clean, States
<1> QED
  BY ZenonT(60), <1>1, <1>3, <1>7 DEF LinkInv, Hosted

\* A load that fails gives everything up.
LEMMA LoadFailureKeeps ==
    ASSUME NEW x, LinkInv(x), x.state = "TRANSFER", NEW y, y = Load(x, FALSE)
    PROVE  LinkInv(y) /\ y.state # "TRANSFER" /\ y.data = <<>>
<1>1. PICK a : a = [x EXCEPT !.data = <<>>, !.eof = FALSE]
  OBVIOUS
<1>2. Fields(a) /\ Link(a) = Link(x) /\ a.data = <<>>
  BY ZenonT(60), <1>1 DEF LinkInv, Fields, Link
<1>3. LinkInv(a)
  BY <1>2, SameLink
<1>4. y = cancelReplicationHandshake(a)
  BY <1>1 DEF Load
<1>5. Fields(y) /\ Clean(y) /\ y.state # "TRANSFER" /\ y.host = x.host /\ y.data = <<>>
  BY ZenonT(60), <1>2, <1>3, <1>4, CancelKeeps DEF LinkInv, Link
<1> QED
  BY ZenonT(60), <1>5 DEF LinkInv, Hosted

----------------------------------------------------------------------------
(* Every step.                                                             *)

\* A step of the reader, or the first one of a connection.
Reads == Header \/ \E n \in 1 .. Len(File) + Len(Mark) : Bytes(n)

\* Every step but those of the reader leaves the data set as it is, and begins
\* a transfer only with an empty file.
LEMMA OtherSteps ==
    ASSUME HostAssumption, LinkInv(s), Next, ~Reads
    PROVE  /\ LinkInv(s') /\ s'.data = s.data
           /\ s'.state = "TRANSFER" =>
                 /\ s'.size = -1 /\ s'.read = 0 /\ s'.file = <<>>
                 /\ wire' \in {[form |-> "mark", bytes |-> File \o Mark], [form |-> "size", bytes |-> File]}
<1>1. CASE replicationCron
  <2>1. /\ Fields(s') /\ s'.state = "CONNECTING" /\ s'.sockets = s.sockets + 1 /\ s'.temps = s.temps
        /\ s'.master = s.master /\ s'.cached = s.cached /\ s'.host = s.host /\ s'.data = s.data
    BY ZenonT(60), <1>1 DEF replicationCron, connectWithMaster, LinkInv, Fields
  <2> QED
    BY <1>1, <2>1 DEF replicationCron, LinkInv, Clean, Hosted, States, Connecting
<1>2. CASE Reply
  <2>1. /\ s.state \in Connecting \ {"RECEIVE_PSYNC"}
        /\ s' = Error(s) \/ \E r : s' = HandshakeReply(s, r)
    BY <1>2 DEF Reply
  <2>2. LinkInv(s') /\ s'.state \in Connecting \cup {"CONNECT"} /\ s'.data = s.data
    BY <2>1, HandshakeKeeps, StateKeeps
  <2> QED
    BY <2>2 DEF Connecting
<1>3. CASE Psync
  <2>1. PICK r : /\ s.state = "RECEIVE_PSYNC"
                 /\ r = "+CONTINUE" => s.cached # None
                 /\ s' = syncWithMasterPsync(s, r)
                 /\ wire' \in IF s'.state # "TRANSFER" THEN {NoWire}
                              ELSE {[form |-> "mark", bytes |-> File \o Mark], [form |-> "size", bytes |-> File]}
    BY <1>3 DEF Psync
  <2> QED
    BY <2>1, PsyncKeeps
<1>4. CASE Fails
  <2>1. /\ Fields(s') /\ Clean(s') /\ s'.state \notin Connecting \cup {"TRANSFER"}
        /\ s'.host = s.host /\ s'.cached = s.cached /\ s'.data = s.data
    BY <1>4, CancelKeeps DEF Fails, LinkInv
  <2>2. s.host # "none"
    BY <1>4 DEF Fails, LinkInv, Hosted, Connecting
  <2> QED
    BY <2>1, <2>2 DEF LinkInv, Hosted
<1>5. CASE MasterLost
  <2>1. s.state = "CONNECTED" /\ s.host # "none"
    BY <1>5 DEF MasterLost, LinkInv, Clean, Hosted
  <2>2. Fields(s') /\ Clean(s') /\ s'.state = "CONNECT" /\ s'.host = s.host /\ s'.data = s.data
    BY <1>5, <2>1, LoseKeeps DEF MasterLost, LinkInv
  <2> QED
    BY <2>1, <2>2 DEF LinkInv, Hosted
<1>6. CASE ReplicaOfNoOne
  BY <1>6, UnsetKeeps DEF ReplicaOfNoOne
<1>7. CASE \E h \in Host : ReplicaOf(h)
  BY <1>7, SetMasterKeeps DEF ReplicaOf
<1> QED
  BY <1>1, <1>2, <1>3, <1>4, <1>5, <1>6, <1>7 DEF Next, Progress, Reads

\* The steps of the reader.
LEMMA ReadingSteps ==
    ASSUME HostAssumption, LinkInv(s), Reads
    PROVE  LinkInv(s')
<1>1. CASE Header
  BY <1>1, ReadKeeps, SameLink DEF Header, LinkInv
<1>2. ASSUME NEW n \in 1 .. Len(File) + Len(Mark), Bytes(n)
      PROVE  LinkInv(s')
  <2>1. PICK buf : \/ s' = ReadBytes(s, buf)
                   \/ s' = Load(ReadBytes(s, buf), TRUE)
                   \/ s' = Load(ReadBytes(s, buf), FALSE)
    BY ZenonT(60), <1>2 DEF Bytes
  <2>2. PICK x : x = ReadBytes(s, buf)
    OBVIOUS
  <2>3. LinkInv(x) /\ x.state = s.state
    BY <2>2, ReadKeeps, SameLink DEF LinkInv
  <2>4. s.state = "TRANSFER"
    BY <1>2 DEF Bytes
  <2> QED
    BY ZenonT(60), <2>1, <2>2, <2>3, <2>4, LoadKeeps, LoadFailureKeeps
<1> QED
  BY <1>1, <1>2 DEF Reads

\* The connection of a replica is sound in every reachable state.
LEMMA LinkInvariant ==
    ASSUME HostAssumption
    PROVE  Spec => []LinkInv(s)
<1>1. Init => LinkInv(s)
  BY DEF Init, LinkInv, Fields, Clean, Hosted, States
<1>2. LinkInv(s) /\ [Next]_vars => LinkInv(s)'
  <2>1. CASE UNCHANGED vars
    BY <2>1 DEF vars
  <2>2. ASSUME LinkInv(s), Next PROVE LinkInv(s')
    BY <2>2, OtherSteps, ReadingSteps
  <2> QED
    BY <2>1, <2>2
<1> QED
  BY <1>1, <1>2, PTL DEF Spec

\* However attempts, errors, cancellations and new masters follow each other, a
\* socket is open exactly during a connection and a temporary file exactly
\* during a transfer (undoConnectWithMaster, replicationAbortSyncTransfer).
THEOREM NoSocketIsLeaked ==
    ASSUME HostAssumption
    PROVE  Spec => []NothingLeaks
<1>1. LinkInv(s) => NothingLeaks
  BY DEF LinkInv, Clean, NothingLeaks
<1> QED
  BY <1>1, LinkInvariant, PTL

\* A master client exists exactly in the connected state and never beside a
\* cached one, and a server that is no replica has neither
\* (replicationCacheMaster, replicationResurrectCachedMaster).
THEOREM OneMasterAtMost ==
    ASSUME HostAssumption
    PROVE  Spec => []OneMaster
<1>1. LinkInv(s) => OneMaster
  BY DEF LinkInv, Clean, Hosted, OneMaster
<1> QED
  BY <1>1, LinkInvariant, PTL

----------------------------------------------------------------------------
(* The file.                                                               *)

\* The file is made of bytes, and the end mark occurs nowhere before its end:
\* the master draws it at random for each transfer.
MarkAssumption ==
    /\ File \in Seq(Nat) /\ Mark \in Seq(Nat) /\ Mark # <<>>
    /\ \A p \in 1 .. Len(File) : SubSeq(File \o Mark, p, p + Len(Mark) - 1) # Mark

\* Everything that is sent with a mark, and the bytes before position p of it
\* that a mark may fill.
Whole == File \o Mark
Window(p) == [i \in 1 .. Len(Mark) |-> IF p - Len(Mark) + i >= 1 THEN Whole[p - Len(Mark) + i] ELSE -1]

\* The reader has read the first r of the bytes F, and the others are on the wire.
HasRead(x, w, F) ==
    /\ x.read \in 0 .. Len(F)
    /\ x.file = SubSeq(F, 1, x.read)
    /\ w = [form |-> w.form, bytes |-> SubSeq(F, x.read + 1, Len(F))]

\* A transfer: before the first line, by mark, or by length.
Reading(x, w) ==
    IF x.size = -1
    THEN /\ x.read = 0 /\ x.file = <<>>
         /\ w \in {[form |-> "mark", bytes |-> Whole], [form |-> "size", bytes |-> File]}
    ELSE \/ x.usemark = TRUE /\ HasRead(x, w, Whole) /\ x.last = Window(x.read)
         \/ x.usemark = FALSE /\ HasRead(x, w, File) /\ x.size = Len(File)

\* The inductive invariant for the file.
FileInv ==
    /\ LinkInv(s) /\ LoadedIsTheFile
    /\ s.state = "TRANSFER" => Reading(s, wire)

\* p is the bytes after position a of F up to position b.
PartIs(F, a, b, p) ==
    p \in Seq(Int) /\ Len(p) = b - a /\ \A i \in 1 .. b - a : p[i] = F[a + i]

\* SubSeq gives such a part.
LEMMA PartOf ==
    ASSUME NEW F \in Seq(Int), NEW a \in Nat, NEW b \in a .. Len(F), NEW p, p = SubSeq(F, a + 1, b)
    PROVE  PartIs(F, a, b, p)
<1>1. Len(F) \in Nat
  BY LenProperties
<1>2. a + 1 \in Int /\ b \in Int /\ \A i \in a + 1 .. b : F[i] \in Int
  BY <1>1, ElementOfSeq
<1> PICK c : c = a + 1
  OBVIOUS
<1>3. /\ p \in Seq(Int)
      /\ Len(p) = IF c <= b THEN b - c + 1 ELSE 0
      /\ \A i \in 1 .. b - c + 1 : p[i] = F[c + i - 1]
  <2>1. c \in Int /\ b \in Int /\ (\A i \in c .. b : F[i] \in Int) /\ p = SubSeq(F, c, b)
    BY <1>2
  <2>2. /\ SubSeq(F, c, b) \in Seq(Int)
        /\ Len(SubSeq(F, c, b)) = IF c <= b THEN b - c + 1 ELSE 0
        /\ \A i \in 1 .. b - c + 1 : SubSeq(F, c, b)[i] = F[c + i - 1]
    BY <2>1, SubSeqProperties, SMT
  <2> QED
    BY ZenonT(60), <2>1, <2>2
<1>4. Len(p) = b - a
  BY <1>1, <1>3
<1>5. ASSUME NEW i \in 1 .. b - a PROVE p[i] = F[a + i]
  <2>1. i \in 1 .. b - c + 1 /\ c + i - 1 = a + i
    BY <1>1, <1>5
  <2> QED
    BY <1>3, <2>1
<1> QED
  BY <1>3, <1>4, <1>5 DEF PartIs

\* A read takes the next bytes.
LEMMA NextBytes ==
    ASSUME NEW F \in Seq(Int), NEW r \in 0 .. Len(F), NEW n \in 1 .. Len(F) - r,
           NEW w, w = SubSeq(F, r + 1, Len(F))
    PROVE  /\ w \in Seq(Int) /\ Len(w) = Len(F) - r
           /\ SubSeq(w, 1, n) = SubSeq(F, r + 1, r + n)
           /\ SubSeq(w, n + 1, Len(w)) = SubSeq(F, r + n + 1, Len(F))
           /\ SubSeq(F, 1, r) \o SubSeq(F, r + 1, r + n) = SubSeq(F, 1, r + n)
<1>1. Len(F) \in Nat
  BY LenProperties
<1>2. r \in Nat /\ n \in Nat /\ r + n \in Nat /\ Len(F) \in r .. Len(F) /\ r + n \in r .. Len(F) /\ Len(F) \in r + n .. Len(F)
  BY <1>1
<1>3. w \in Seq(Int) /\ Len(w) = Len(F) - r /\ \A i \in 1 .. Len(F) - r : w[i] = F[r + i]
  <2>1. PartIs(F, r, Len(F), w)
    BY ZenonT(60), <1>2, PartOf
  <2> QED
    BY <1>2, <2>1 DEF PartIs
<1>4. SubSeq(w, 1, n) = SubSeq(F, r + 1, r + n)
  <2>1. PICK p : p = SubSeq(F, r + 1, r + n)
    BY ZenonT(60)
  <2>2. p \in Seq(Int) /\ Len(p) = r + n - r /\ \A i \in 1 .. r + n - r : p[i] = F[r + i]
    <3>1. PartIs(F, r, r + n, p)
      BY ZenonT(60), <1>2, <2>1, PartOf
    <3> QED
      BY <1>2, <2>1, <3>1 DEF PartIs
  <2>3. PICK q : q = SubSeq(w, 0 + 1, n)
    BY ZenonT(60)
  <2>4. 0 \in Nat /\ n \in 0 .. Len(w)
    BY <1>1, <1>3
  <2>5. q \in Seq(Int) /\ Len(q) = n - 0 /\ \A i \in 1 .. n - 0 : q[i] = w[0 + i]
    <3>1. PartIs(w, 0, n, q)
      BY ZenonT(60), <1>3, <2>3, <2>4, PartOf
    <3> QED
      BY ZenonT(60), <1>3, <2>3, <2>4, <3>1 DEF PartIs
  <2>6. Len(p) = n /\ Len(q) = n
    BY <1>1, <1>2, <2>2, <2>5
  <2>7. ASSUME NEW i \in 1 .. Len(p) PROVE p[i] = q[i]
    <3>1. i \in 1 .. r + n - r /\ i \in 1 .. n - 0 /\ 0 + i = i /\ i \in 1 .. Len(F) - r
      BY <1>1, <1>2, <2>6, <2>7
    <3> QED
      BY ZenonT(60), <1>3, <2>2, <2>5, <3>1
  <2>8. p = q
    BY ZenonT(60), <2>2, <2>5, <2>6, <2>7, SeqEqual
  <2> QED
    BY <2>1, <2>3, <2>8
<1>5. SubSeq(w, n + 1, Len(w)) = SubSeq(F, r + n + 1, Len(F))
  <2>1. PICK p : p = SubSeq(F, r + n + 1, Len(F))
    BY ZenonT(60)
  <2>2. p \in Seq(Int) /\ Len(p) = Len(F) - (r + n) /\ \A i \in 1 .. Len(F) - (r + n) : p[i] = F[r + n + i]
    <3>1. PartIs(F, r + n, Len(F), p)
      BY ZenonT(60), <1>2, <2>1, PartOf
    <3> QED
      BY ZenonT(60), <1>2, <2>1, <3>1 DEF PartIs
  <2>3. PICK q : q = SubSeq(w, n + 1, Len(w))
    BY ZenonT(60)
  <2>4. Len(w) \in n .. Len(w)
    BY SMTT(60), <1>1, <1>3
  <2>5. q \in Seq(Int) /\ Len(q) = Len(w) - n /\ \A i \in 1 .. Len(w) - n : q[i] = w[n + i]
    <3>1. w \in Seq(Int) /\ n \in Nat
      BY <1>2, <1>3
    <3> QED
      <4>1. PartIs(w, n, Len(w), q)
        BY ZenonT(60), <3>1, <2>3, <2>4, PartOf
      <4> QED
        BY ZenonT(60), <4>1 DEF PartIs
  <2>6. Len(p) = Len(q)
    BY <1>1, <1>2, <1>3, <2>2, <2>5
  <2>7. ASSUME NEW i \in 1 .. Len(p) PROVE p[i] = q[i]
    <3>1. i \in 1 .. Len(F) - (r + n) /\ i \in 1 .. Len(w) - n /\ n + i \in 1 .. Len(F) - r /\ r + (n + i) = r + n + i
      BY <1>1, <1>2, <1>3, <2>2, <2>7
    <3>2. q[i] = F[r + (n + i)]
      BY ZenonT(60), <1>3, <2>5, <3>1
    <3> QED
      BY ZenonT(60), <2>2, <3>1, <3>2
  <2>8. p = q
    BY ZenonT(60), <2>2, <2>5, <2>6, <2>7, SeqEqual
  <2> QED
    BY ZenonT(60), <2>1, <2>3, <2>8
<1>6. SubSeq(F, 1, r) \o SubSeq(F, r + 1, r + n) = SubSeq(F, 1, r + n)
  <2>1. 1 \in 1 .. Len(F) + 1 /\ r \in 1 - 1 .. Len(F) /\ r + n \in r .. Len(F)
    BY <1>1, <1>2
  <2> QED
    BY ZenonT(60), <2>1, ConcatAdjacentSubSeq
<1> QED
  BY ZenonT(60), <1>3, <1>4, <1>5, <1>6

\* The sequences at hand.
LEMMA FileAndMark ==
    ASSUME MarkAssumption
    PROVE  /\ File \in Seq(Int) /\ Mark \in Seq(Int) /\ Whole \in Seq(Int)
           /\ Len(File) \in Nat /\ Len(Mark) \in Nat \ {0}
           /\ Len(Whole) = Len(File) + Len(Mark)
           /\ \A i \in 1 .. Len(Mark) : Mark[i] \in Nat /\ Whole[Len(File) + i] = Mark[i]
           /\ \A i \in 1 .. Len(Whole) : Whole[i] \in Int
<1>1. File \in Seq(Nat) /\ Mark \in Seq(Nat) /\ Mark # <<>>
  BY DEF MarkAssumption
<1>2. File \in Seq(Int) /\ Mark \in Seq(Int)
  BY <1>1, SeqMonotonic, Nat \subseteq Int
<1>3. Len(File) \in Nat /\ Len(Mark) \in Nat \ {0} /\ \A i \in 1 .. Len(Mark) : Mark[i] \in Nat
  BY <1>1, LenProperties, EmptySeq, ElementOfSeq
<1>4. /\ Whole \in Seq(Int) /\ Len(Whole) = Len(File) + Len(Mark)
      /\ \A i \in 1 .. Len(File) + Len(Mark) : Whole[i] = IF i <= Len(File) THEN File[i] ELSE Mark[i - Len(File)]
  BY <1>2, ConcatProperties DEF Whole
<1>5. ASSUME NEW i \in 1 .. Len(Mark) PROVE Whole[Len(File) + i] = Mark[i]
  <2>1. /\ Len(File) + i \in 1 .. Len(File) + Len(Mark)
        /\ ~(Len(File) + i <= Len(File)) /\ Len(File) + i - Len(File) = i
    BY <1>3
  <2> QED
    BY <1>4, <2>1
<1> QED
  BY <1>2, <1>3, <1>4, <1>5, ElementOfSeq

\* The bytes a mark may fill.
LEMMA WindowIs ==
    ASSUME MarkAssumption, NEW p \in 0 .. Len(Whole)
    PROVE  /\ Window(p) \in Seq(Int) /\ Len(Window(p)) = Len(Mark)
           /\ \A i \in 1 .. Len(Mark) :
                 Window(p)[i] = IF p - Len(Mark) + i >= 1 THEN Whole[p - Len(Mark) + i] ELSE -1
<1>1. \A i \in 1 .. Len(Mark) : (IF p - Len(Mark) + i >= 1 THEN Whole[p - Len(Mark) + i] ELSE -1) \in Int
  BY SMTT(60), FileAndMark
<1>2. Window(p) \in [1 .. Len(Mark) -> Int]
  BY <1>1 DEF Window
<1> QED
  BY SMTT(60), <1>2, FileAndMark DEF Window

\* After a read the last bytes are the window at the new position, whether the
\* read is longer than a mark or not.
LEMMA WindowMoves ==
    ASSUME MarkAssumption, NEW r \in 0 .. Len(Whole), NEW k \in 1 .. Len(Whole) - r,
           NEW buf, buf = SubSeq(Whole, r + 1, r + k)
    PROVE  LastBytes(Window(r), buf) = Window(r + k) /\ Len(buf) = k
<1> PICK n : n = Len(Mark)
  BY ZenonT(60)
<1>1. n \in Nat /\ n # 0 /\ Len(Whole) \in Nat /\ Whole \in Seq(Int) /\ r \in Nat /\ k \in Nat
  BY FileAndMark
<1>2. r + k \in r .. Len(Whole) /\ r + k \in 0 .. Len(Whole) /\ r + k - r = k
  BY <1>1
<1>3. buf \in Seq(Int) /\ Len(buf) = k /\ \A i \in 1 .. k : buf[i] = Whole[r + i]
  <2>1. PartIs(Whole, r, r + k, buf)
    BY ZenonT(60), <1>1, <1>2, PartOf
  <2> QED
    BY <1>1, <1>2, <2>1 DEF PartIs
<1>4. /\ Window(r + k) \in Seq(Int) /\ Len(Window(r + k)) = n
      /\ \A i \in 1 .. n : Window(r + k)[i] = IF r + k - n + i >= 1 THEN Whole[r + k - n + i] ELSE -1
  BY <1>2, WindowIs
<1>5. CASE k >= n
  <2>1. PICK q : q = SubSeq(buf, (k - n) + 1, k)
    BY ZenonT(60)
  <2>2. k - n \in Nat /\ k \in k - n .. Len(buf) /\ k - (k - n) = n
    BY <1>1, <1>3, <1>5
  <2>3. q \in Seq(Int) /\ Len(q) = n /\ \A i \in 1 .. n : q[i] = buf[(k - n) + i]
    <3>1. PICK a : a = k - n
      OBVIOUS
    <3>2. buf \in Seq(Int) /\ a \in Nat /\ k \in a .. Len(buf) /\ q = SubSeq(buf, a + 1, k)
      BY <1>3, <2>1, <2>2, <3>1
    <3>3. q \in Seq(Int) /\ Len(q) = k - a /\ \A i \in 1 .. k - a : q[i] = buf[a + i]
      <4>1. PartIs(buf, a, k, q)
        BY ZenonT(60), <3>2, PartOf
      <4> QED
        BY <3>2, <4>1 DEF PartIs
    <3> QED
      BY ZenonT(60), <2>2, <3>1, <3>3
  <2>4. ASSUME NEW i \in 1 .. n PROVE q[i] = Window(r + k)[i]
    <3>1. (k - n) + i \in 1 .. k /\ r + ((k - n) + i) = r + k - n + i /\ r + k - n + i >= 1
      BY <1>1, <1>5, <2>4
    <3> QED
      BY <1>3, <1>4, <2>3, <3>1
  <2>5. q = Window(r + k)
    BY <1>4, <2>3, <2>4, SeqEqual
  <2> QED
    BY ZenonT(60), <1>3, <1>5, <2>1, <2>5 DEF LastBytes
<1>6. CASE k < n
  <2>1. PICK q : q = SubSeq(Window(r), k + 1, n)
    BY ZenonT(60)
  <2>2. /\ Window(r) \in Seq(Int) /\ Len(Window(r)) = n
        /\ \A i \in 1 .. n : Window(r)[i] = IF r - n + i >= 1 THEN Whole[r - n + i] ELSE -1
    BY WindowIs
  <2>3. n \in k .. Len(Window(r))
    BY <1>1, <1>6, <2>2
  <2>4. q \in Seq(Int) /\ Len(q) = n - k /\ \A i \in 1 .. n - k : q[i] = Window(r)[k + i]
    <3>1. PICK v : v = Window(r)
      OBVIOUS
    <3>2. v \in Seq(Int) /\ k \in Nat /\ n \in k .. Len(v) /\ q = SubSeq(v, k + 1, n)
      BY <1>1, <2>1, <2>2, <2>3, <3>1
    <3>3. q \in Seq(Int) /\ Len(q) = n - k /\ \A i \in 1 .. n - k : q[i] = v[k + i]
      <4>1. PartIs(v, k, n, q)
        BY ZenonT(60), <3>2, PartOf
      <4> QED
        BY ZenonT(60), <3>2, <4>1 DEF PartIs
    <3> QED
      BY <3>1, <3>3
  <2>5. /\ q \o buf \in Seq(Int) /\ Len(q \o buf) = Len(q) + Len(buf)
        /\ \A i \in 1 .. Len(q) + Len(buf) : (q \o buf)[i] = IF i <= Len(q) THEN q[i] ELSE buf[i - Len(q)]
    BY ZenonT(200), <1>3, <2>4, ConcatProperties
  <2>6. Len(q) + Len(buf) = n
    BY <1>1, <1>3, <2>4
  <2>7. ASSUME NEW i \in 1 .. n PROVE (q \o buf)[i] = Window(r + k)[i]
    <3>1. CASE i <= n - k
      <4>1. i \in 1 .. n - k /\ k + i \in 1 .. n /\ r - n + (k + i) = r + k - n + i
        BY <1>1, <2>7, <3>1
      <4>2. (q \o buf)[i] = Window(r)[k + i]
        BY ZenonT(60), <2>4, <2>5, <2>6, <2>7, <3>1, <4>1
      <4> QED
        BY ZenonT(60), <1>4, <2>2, <2>7, <4>1, <4>2
    <3>2. CASE ~(i <= n - k)
      <4>1. i - (n - k) \in 1 .. k /\ r + (i - (n - k)) = r + k - n + i /\ r + k - n + i >= 1
        BY <1>1, <2>7, <3>2
      <4>2. (q \o buf)[i] = buf[i - (n - k)]
        BY ZenonT(60), <2>4, <2>5, <2>6, <2>7, <3>2
      <4> QED
        BY ZenonT(60), <1>3, <1>4, <2>7, <4>1, <4>2
    <3> QED
      BY ZenonT(60), <3>1, <3>2
  <2>8. q \o buf = Window(r + k)
    BY ZenonT(60), <1>4, <2>5, <2>6, <2>7, SeqEqual
  <2>9. ~(Len(buf) >= n)
    BY <1>1, <1>3, <1>6
  <2> QED
    BY ZenonT(60), <1>3, <2>1, <2>8, <2>9 DEF LastBytes
<1> QED
  BY <1>1, <1>5, <1>6

\* The mark is seen at the end and nowhere before.
LEMMA MarkSeen ==
    ASSUME MarkAssumption, NEW p \in 1 .. Len(Whole)
    PROVE  Window(p) = Mark <=> p = Len(Whole)
<1> PICK n : n = Len(Mark)
  BY ZenonT(60)
<1>1. /\ n \in Nat /\ n # 0 /\ Len(File) \in Nat /\ Len(Whole) = Len(File) + n
      /\ Whole \in Seq(Int) /\ Mark \in Seq(Int) /\ p \in 0 .. Len(Whole)
      /\ \A i \in 1 .. n : Mark[i] \in Nat /\ Whole[Len(File) + i] = Mark[i]
  BY FileAndMark
<1>2. /\ Window(p) \in Seq(Int) /\ Len(Window(p)) = n
      /\ \A i \in 1 .. n : Window(p)[i] = IF p - n + i >= 1 THEN Whole[p - n + i] ELSE -1
  BY <1>1, WindowIs
<1>3. ASSUME p = Len(Whole) PROVE Window(p) = Mark
  <2>1. ASSUME NEW i \in 1 .. n PROVE Window(p)[i] = Mark[i]
    <3>1. p - n + i = Len(File) + i /\ p - n + i >= 1
      BY <1>1, <1>3, <2>1
    <3> QED
      BY ZenonT(60), <1>1, <1>2, <2>1, <3>1
  <2> QED
    BY ZenonT(60), <1>1, <1>2, <2>1, SeqEqual
<1>4. ASSUME p # Len(Whole), Window(p) = Mark PROVE FALSE
  <2>1. CASE p < n
    <3>1. 1 \in 1 .. n /\ ~(p - n + 1 >= 1)
      BY <1>1, <2>1
    <3>2. Window(p)[1] = -1
      BY <1>2, <3>1
    <3>3. Mark[1] \in Nat
      BY <1>1, <3>1
    <3> QED
      BY <1>4, <3>2, <3>3
  <2>2. CASE ~(p < n)
    <3>1. PICK a : a = p - n
      OBVIOUS
    <3>2. PICK q : q = SubSeq(Whole, a + 1, p)
      BY ZenonT(60)
    <3>3. a \in Nat /\ p \in a .. Len(Whole) /\ p - a = n /\ a + 1 \in 1 .. Len(File) /\ p = a + 1 + n - 1
      BY <1>1, <1>4, <2>2, <3>1
    <3>4. q \in Seq(Int) /\ Len(q) = p - a /\ \A i \in 1 .. p - a : q[i] = Whole[a + i]
      <4>1. PartIs(Whole, a, p, q)
        BY ZenonT(60), <1>1, <3>2, <3>3, PartOf
      <4> QED
        BY ZenonT(60), <1>1, <3>2, <3>3, <4>1 DEF PartIs
    <3>5. ASSUME NEW i \in 1 .. n PROVE q[i] = Window(p)[i]
      <4>1. a + i = p - n + i /\ p - n + i >= 1
        BY <1>1, <3>1, <3>3, <3>5
      <4> QED
        BY <1>2, <3>3, <3>4, <3>5, <4>1
    <3>6. q = Window(p)
      BY <1>2, <3>3, <3>4, <3>5, SeqEqual
    <3>7. SubSeq(Whole, a + 1, a + 1 + Len(Mark) - 1) # Mark
      BY Zenon, <3>3 DEF MarkAssumption, Whole
    <3>8. p = a + 1 + Len(Mark) - 1
      BY <3>3
    <3> QED
      BY ZenonT(60), <1>4, <3>2, <3>6, <3>7, <3>8
  <2> QED
    BY <2>1, <2>2
<1> QED
  BY <1>3, <1>4

\* The first line of the answer.
LEMMA HeaderStep ==
    ASSUME MarkAssumption, FileInv, Header
    PROVE  FileInv'
<1>1. /\ s.state = "TRANSFER" /\ s.size = -1 /\ s' = ReadHeader(s, wire.form) /\ wire' = wire
      /\ LinkInv(s) /\ Fields(s) /\ Reading(s, wire)
  BY DEF Header, FileInv, LinkInv
<1>2. LinkInv(s') /\ s'.data = s.data
  BY <1>1, ReadKeeps, SameLink
<1>3. s.read = 0 /\ s.file = <<>>
  BY <1>1 DEF Reading
<1>4. ASSUME NEW F \in Seq(Int), wire.bytes = F, wire = [form |-> wire.form, bytes |-> wire.bytes],
             s'.read = 0, s'.file = <<>>
      PROVE  HasRead(s', wire', F)
  <2>1. Len(F) \in Nat /\ 0 \in 0 .. Len(F)
    BY LenProperties
  <2>2. SubSeq(F, 1, 0) = <<>>
    BY SubSeqEmpty
  <2>3. SubSeq(F, 0 + 1, Len(F)) = F
    BY SubSeqFull
  <2> QED
    BY <1>1, <1>4, <2>1, <2>2, <2>3 DEF HasRead
<1>5. CASE wire = [form |-> "mark", bytes |-> Whole]
  <2>1. s' = [s EXCEPT !.usemark = TRUE, !.last = [i \in 1 .. Len(Mark) |-> -1], !.size = 0]
    BY <1>1, <1>5 DEF ReadHeader
  <2>2. /\ s'.usemark = TRUE /\ s'.last = [i \in 1 .. Len(Mark) |-> -1] /\ s'.size = 0
        /\ s'.read = s.read /\ s'.file = s.file
    BY <1>1, <2>1 DEF Fields
  <2>3. Window(0) = [i \in 1 .. Len(Mark) |-> -1]
    BY FileAndMark DEF Window
  <2>4. HasRead(s', wire', Whole)
    BY <1>3, <1>4, <1>5, <2>2, FileAndMark
  <2>5. Reading(s', wire')
    BY <1>3, <2>2, <2>3, <2>4 DEF Reading
  <2> QED
    BY <1>2, <2>5 DEF FileInv, LoadedIsTheFile
<1>6. CASE wire = [form |-> "size", bytes |-> File]
  <2>1. s' = [s EXCEPT !.usemark = FALSE, !.size = Len(File)]
    BY <1>1, <1>6 DEF ReadHeader
  <2>2. /\ s'.usemark = FALSE /\ s'.size = Len(File)
        /\ s'.read = s.read /\ s'.file = s.file
    BY <1>1, <2>1 DEF Fields
  <2>3. HasRead(s', wire', File)
    BY <1>3, <1>4, <1>6, <2>2, FileAndMark
  <2>4. Len(File) # -1
    BY FileAndMark
  <2>5. Reading(s', wire')
    BY <2>2, <2>3, <2>4 DEF Reading
  <2> QED
    BY <1>2, <2>5 DEF FileInv, LoadedIsTheFile
<1> QED
  BY <1>1, <1>5, <1>6 DEF Reading

\* The fields of the reader after a read with a mark.
AfterMark(x, buf, last, y) ==
    /\ y.size = x.size /\ y.usemark = x.usemark /\ y.read = x.read + Len(buf)
    /\ y.last = last /\ (y.eof <=> last = Mark)
    /\ last = Mark => y.file = SubSeq(x.file \o buf, 1, Len(x.file \o buf) - Len(Mark))
    /\ last # Mark => y.file = x.file \o buf

\* A read with a mark, and one with a length.
LEMMA MarkFields ==
    ASSUME NEW x, Fields(x), x.usemark = TRUE, NEW buf, NEW y, y = ReadBytes(x, buf),
           NEW last, last = LastBytes(x.last, buf)
    PROVE  AfterMark(x, buf, last, y)
<1>1. y = [x EXCEPT !.last = last, !.read = @ + Len(buf), !.eof = (last = Mark),
                    !.file = IF last = Mark THEN SubSeq(x.file \o buf, 1, Len(x.file \o buf) - Len(Mark)) ELSE x.file \o buf]
  BY ZenonT(60) DEF ReadBytes
<1> QED
  BY ZenonT(60), <1>1 DEF Fields, AfterMark

LEMMA SizeFields ==
    ASSUME NEW x, Fields(x), x.usemark = FALSE, NEW buf, NEW y, y = ReadBytes(x, buf)
    PROVE  /\ y.size = x.size /\ y.usemark = x.usemark /\ y.read = x.read + Len(buf)
           /\ (y.eof <=> x.read + Len(buf) = x.size) /\ y.file = x.file \o buf
<1>1. y = [x EXCEPT !.last = x.last, !.read = @ + Len(buf), !.eof = (x.read + Len(buf) = x.size), !.file = x.file \o buf]
  BY ZenonT(60) DEF ReadBytes
<1> QED
  BY ZenonT(60), <1>1 DEF Fields

\* A read of n bytes: the reader afterwards, and what is left on the wire.
Took(x, w, n, y, v) ==
    /\ y = ReadBytes(x, SubSeq(w.bytes, 1, n))
    /\ v = [w EXCEPT !.bytes = SubSeq(@, n + 1, Len(@))]

\* The bytes of a read come next in what is sent.
LEMMA Chunk ==
    ASSUME NEW F \in Seq(Int), NEW x, NEW w, HasRead(x, w, F), NEW n \in Nat \ {0}, n <= Len(w.bytes)
    PROVE  /\ Len(F) \in Nat /\ x.read \in 0 .. Len(F) /\ n \in 1 .. Len(F) - x.read
           /\ SubSeq(w.bytes, 1, n) = SubSeq(F, x.read + 1, x.read + n)
           /\ Len(SubSeq(F, x.read + 1, x.read + n)) = n
           /\ x.file \o SubSeq(F, x.read + 1, x.read + n) = SubSeq(F, 1, x.read + n)
           /\ SubSeq(w.bytes, n + 1, Len(w.bytes)) = SubSeq(F, x.read + n + 1, Len(F))
           /\ w = [form |-> w.form, bytes |-> w.bytes]
<1>1. PICK r : r = x.read
  OBVIOUS
<1>2. PICK b : b = w.bytes
  OBVIOUS
<1>3. /\ r \in 0 .. Len(F) /\ x.file = SubSeq(F, 1, r) /\ b = SubSeq(F, r + 1, Len(F))
      /\ w = [form |-> w.form, bytes |-> w.bytes]
  BY <1>1, <1>2 DEF HasRead
<1>4. Len(F) \in Nat
  BY LenProperties
<1>5. r \in Nat /\ Len(F) \in r .. Len(F)
  BY <1>3, <1>4
<1>6. Len(b) = Len(F) - r
  <2>1. PartIs(F, r, Len(F), b)
    BY ZenonT(60), <1>3, <1>5, PartOf
  <2> QED
    BY <1>3, <1>5, <2>1 DEF PartIs
<1>7. n \in 1 .. Len(F) - r
  BY <1>2, <1>4, <1>5, <1>6
<1>8. /\ SubSeq(b, 1, n) = SubSeq(F, r + 1, r + n)
      /\ SubSeq(b, n + 1, Len(b)) = SubSeq(F, r + n + 1, Len(F))
      /\ SubSeq(F, 1, r) \o SubSeq(F, r + 1, r + n) = SubSeq(F, 1, r + n)
  BY ZenonT(60), <1>3, <1>7, NextBytes
<1>9. r + n \in r .. Len(F) /\ r + n - r = n
  BY <1>4, <1>5, <1>7
<1>10. Len(SubSeq(F, r + 1, r + n)) = n
  <2>1. PartIs(F, r, r + n, SubSeq(F, r + 1, r + n))
    BY ZenonT(60), <1>5, <1>9, PartOf
  <2> QED
    BY <1>5, <1>9, <2>1 DEF PartIs
<1> QED
  BY ZenonT(60), <1>1, <1>2, <1>3, <1>4, <1>7, <1>8, <1>10

\* The file is what is sent without the mark.
LEMMA CutWhole ==
    ASSUME MarkAssumption
    PROVE  SubSeq(Whole, 1, Len(Whole) - Len(Mark)) = File
<1>1. /\ Len(Whole) - Len(Mark) = Len(File) /\ 0 \in Nat /\ Len(File) \in 0 .. Len(Whole)
      /\ File \in Seq(Int) /\ Mark \in Seq(Int) /\ Whole \in Seq(Int) /\ Len(File) \in Nat /\ Len(Mark) \in Nat
  BY FileAndMark
<1>2. PICK q : q = SubSeq(Whole, 0 + 1, Len(File))
  BY ZenonT(60)
<1>3. q \in Seq(Int) /\ Len(q) = Len(File) - 0 /\ \A i \in 1 .. Len(File) - 0 : q[i] = Whole[0 + i]
  <2>1. PartIs(Whole, 0, Len(File), q)
    BY ZenonT(60), <1>1, <1>2, PartOf
  <2> QED
    BY <1>1, <1>2, <2>1 DEF PartIs
<1>4. ASSUME NEW i \in 1 .. Len(File) PROVE q[i] = File[i]
  <2>1. i \in 1 .. Len(File) - 0 /\ 0 + i = i /\ i \in 1 .. Len(File) + Len(Mark) /\ i <= Len(File)
    BY <1>1, <1>4
  <2>2. Whole[i] = File[i]
    BY <1>1, <2>1, ConcatProperties DEF Whole
  <2> QED
    BY <1>3, <2>1, <2>2
<1>5. Len(q) = Len(File)
  BY <1>1, <1>3
<1>6. q = File
  BY ZenonT(60), <1>1, <1>3, <1>4, <1>5, SeqEqual
<1> QED
  BY SMTT(60), <1>1, <1>2, <1>6

\* A read of a file that ends with a mark.
LEMMA ReadByMark ==
    ASSUME MarkAssumption, NEW x, Fields(x), NEW w, x.size # -1,
           x.usemark = TRUE, HasRead(x, w, Whole), x.last = Window(x.read),
           NEW n \in Nat \ {0}, n <= Len(w.bytes), NEW y, NEW v, Took(x, w, n, y, v)
    PROVE  IF y.eof THEN y.file = File ELSE Reading(y, v)
<1>1. PICK r : r = x.read
  OBVIOUS
<1>2. PICK buf : buf = SubSeq(Whole, r + 1, r + n)
  BY ZenonT(60)
<1>3. /\ Len(Whole) \in Nat /\ r \in 0 .. Len(Whole) /\ n \in 1 .. Len(Whole) - r
      /\ SubSeq(w.bytes, 1, n) = buf /\ Len(buf) = n /\ x.file \o buf = SubSeq(Whole, 1, r + n)
      /\ SubSeq(w.bytes, n + 1, Len(w.bytes)) = SubSeq(Whole, r + n + 1, Len(Whole))
      /\ w = [form |-> w.form, bytes |-> w.bytes]
  <2>1. Whole \in Seq(Int)
    BY FileAndMark
  <2>2. /\ Len(Whole) \in Nat /\ x.read \in 0 .. Len(Whole) /\ n \in 1 .. Len(Whole) - x.read
        /\ SubSeq(w.bytes, 1, n) = SubSeq(Whole, x.read + 1, x.read + n)
        /\ Len(SubSeq(Whole, x.read + 1, x.read + n)) = n
        /\ x.file \o SubSeq(Whole, x.read + 1, x.read + n) = SubSeq(Whole, 1, x.read + n)
        /\ SubSeq(w.bytes, n + 1, Len(w.bytes)) = SubSeq(Whole, x.read + n + 1, Len(Whole))
        /\ w = [form |-> w.form, bytes |-> w.bytes]
    BY ZenonT(60), <2>1, Chunk
  <2> QED
    BY ZenonT(60), <1>1, <1>2, <2>2
<1>4. PICK last : last = LastBytes(x.last, buf)
  OBVIOUS
<1>5. last = Window(r + n)
  <2>1. LastBytes(Window(r), buf) = Window(r + n)
    BY ZenonT(60), <1>2, <1>3, WindowMoves
  <2> QED
    BY <1>1, <1>4, <2>1
<1>6. PICK p : p = r + n
  OBVIOUS
<1>7. p \in 1 .. Len(Whole)
  BY SMTT(60), <1>3, <1>6
<1>8. last = Mark <=> p = Len(Whole)
  BY <1>5, <1>6, <1>7, MarkSeen
<1>9. y = ReadBytes(x, buf) /\ v = [form |-> w.form, bytes |-> SubSeq(Whole, p + 1, Len(Whole))]
  BY ZenonT(60), <1>3, <1>6 DEF Took
<1>10. /\ y.size = x.size /\ y.usemark = TRUE /\ y.read = p
       /\ y.last = last /\ (y.eof <=> last = Mark)
       /\ last = Mark => y.file = SubSeq(x.file \o buf, 1, Len(x.file \o buf) - Len(Mark))
       /\ last # Mark => y.file = x.file \o buf
  <2>1. AfterMark(x, buf, last, y)
    BY ZenonT(60), <1>4, <1>9, MarkFields
  <2> QED
    BY ZenonT(60), <1>1, <1>3, <1>6, <2>1 DEF AfterMark
<1>11. CASE last = Mark
  <2>1. x.file \o buf = Whole
    BY <1>3, <1>6, <1>8, <1>11, SubSeqFull, FileAndMark
  <2> QED
    BY ZenonT(60), <1>10, <1>11, <2>1, CutWhole
<1>12. CASE last # Mark
  <2>1. p \in 0 .. Len(Whole)
    BY <1>3, <1>7
  <2>2. HasRead(y, v, Whole)
    BY ZenonT(60), <1>3, <1>6, <1>9, <1>10, <1>12, <2>1 DEF HasRead
  <2> QED
    BY <1>5, <1>6, <1>10, <1>12, <2>2 DEF Reading
<1> QED
  BY <1>11, <1>12

\* A read of a file whose length is known.
LEMMA ReadBySize ==
    ASSUME MarkAssumption, NEW x, Fields(x), NEW w, x.size # -1,
           x.usemark = FALSE, HasRead(x, w, File), x.size = Len(File),
           NEW n \in Nat \ {0}, n <= Len(w.bytes), NEW y, NEW v, Took(x, w, n, y, v)
    PROVE  IF y.eof THEN y.file = File ELSE Reading(y, v)
<1>1. PICK r : r = x.read
  OBVIOUS
<1>2. PICK buf : buf = SubSeq(File, r + 1, r + n)
  BY ZenonT(60)
<1>3. /\ Len(File) \in Nat /\ r \in 0 .. Len(File) /\ n \in 1 .. Len(File) - r
      /\ SubSeq(w.bytes, 1, n) = buf /\ Len(buf) = n /\ x.file \o buf = SubSeq(File, 1, r + n)
      /\ SubSeq(w.bytes, n + 1, Len(w.bytes)) = SubSeq(File, r + n + 1, Len(File))
      /\ w = [form |-> w.form, bytes |-> w.bytes]
  <2>1. File \in Seq(Int)
    BY FileAndMark
  <2>2. /\ Len(File) \in Nat /\ x.read \in 0 .. Len(File) /\ n \in 1 .. Len(File) - x.read
        /\ SubSeq(w.bytes, 1, n) = SubSeq(File, x.read + 1, x.read + n)
        /\ Len(SubSeq(File, x.read + 1, x.read + n)) = n
        /\ x.file \o SubSeq(File, x.read + 1, x.read + n) = SubSeq(File, 1, x.read + n)
        /\ SubSeq(w.bytes, n + 1, Len(w.bytes)) = SubSeq(File, x.read + n + 1, Len(File))
        /\ w = [form |-> w.form, bytes |-> w.bytes]
    BY ZenonT(60), <2>1, Chunk
  <2> QED
    BY ZenonT(60), <1>1, <1>2, <2>2
<1>4. PICK last : last = LastBytes(x.last, buf)
  OBVIOUS
<1>5. PICK p : p = r + n
  OBVIOUS
<1>6. p \in 0 .. Len(File)
  BY SMTT(60), <1>3, <1>5
<1>7. y = ReadBytes(x, buf) /\ v = [form |-> w.form, bytes |-> SubSeq(File, p + 1, Len(File))]
  BY ZenonT(60), <1>3, <1>5 DEF Took
<1>8. /\ y.size = x.size /\ y.usemark = FALSE /\ y.read = p
      /\ (y.eof <=> p = Len(File)) /\ y.file = x.file \o buf
  <2>1. /\ y.size = x.size /\ y.usemark = x.usemark /\ y.read = x.read + Len(buf)
        /\ (y.eof <=> x.read + Len(buf) = x.size) /\ y.file = x.file \o buf
    BY ZenonT(200), <1>7, SizeFields
  <2> QED
    BY ZenonT(60), <1>1, <1>3, <1>5, <2>1
<1>9. CASE p = Len(File)
  BY <1>3, <1>5, <1>8, <1>9, SubSeqFull, FileAndMark
<1>10. CASE p # Len(File)
  <2>1. HasRead(y, v, File)
    BY <1>3, <1>5, <1>6, <1>7, <1>8 DEF HasRead
  <2> QED
    BY <1>8, <1>10, <2>1 DEF Reading
<1> QED
  BY <1>9, <1>10

\* The length never limits a read: no more bytes are on the wire.
LEMMA ReadIsWhole ==
    ASSUME MarkAssumption, NEW x, NEW w, x.size # -1, Reading(x, w), NEW n \in Nat \ {0}, n <= Len(w.bytes)
    PROVE  n = IF x.usemark THEN n ELSE Min2(n, x.size - x.read)
<1>1. CASE x.usemark = TRUE
  BY <1>1
<1>2. CASE x.usemark = FALSE
  <2>1. HasRead(x, w, File) /\ x.size = Len(File)
    BY <1>2 DEF Reading
  <2>2. Len(File) \in Nat /\ x.read \in 0 .. Len(File) /\ n \in 1 .. Len(File) - x.read
    BY ZenonT(60), <2>1, Chunk, FileAndMark
  <2>3. Min2(n, Len(File) - x.read) = n
    BY <2>2 DEF Min2
  <2> QED
    BY <1>2, <2>1, <2>3
<1> QED
  BY ZenonT(60), <1>1, <1>2 DEF Reading

\* A read keeps the invariant, also when it ends the transfer.
LEMMA BytesStep ==
    ASSUME HostAssumption, MarkAssumption, FileInv, NEW n \in 1 .. Len(File) + Len(Mark), Bytes(n)
    PROVE  FileInv'
<1>1. /\ LinkInv(s) /\ LoadedIsTheFile /\ s.state = "TRANSFER" /\ s.size # -1 /\ Reading(s, wire)
      /\ n <= Len(wire.bytes)
  BY DEF FileInv, Bytes
<1>2. n \in Nat \ {0}
  BY FileAndMark
<1>3. PICK len : len = IF s.usemark THEN n ELSE Min2(n, s.size - s.read)
  OBVIOUS
<1>4. PICK x : x = ReadBytes(s, SubSeq(wire.bytes, 1, len))
  OBVIOUS
<1>5. PICK w : w = [wire EXCEPT !.bytes = SubSeq(@, len + 1, Len(@))]
  BY ZenonT(60)
<1>6. IF x.eof THEN x.file = File ELSE Reading(x, w)
  <2>1. len = n
    BY <1>1, <1>2, <1>3, ReadIsWhole
  <2>2. Took(s, wire, n, x, w) /\ Fields(s)
    BY <1>1, <1>4, <1>5, <2>1 DEF Took, LinkInv
  <2>3. \/ s.usemark = TRUE /\ HasRead(s, wire, Whole) /\ s.last = Window(s.read)
        \/ s.usemark = FALSE /\ HasRead(s, wire, File) /\ s.size = Len(File)
    BY <1>1 DEF Reading
  <2> QED
    BY ZenonT(60), <1>1, <1>2, <2>2, <2>3, ReadByMark, ReadBySize
<1>7. LinkInv(x) /\ x.state = "TRANSFER" /\ x.data = s.data
  BY <1>1, <1>4, ReadKeeps, SameLink DEF LinkInv
<1>8. \/ ~x.eof /\ s' = x /\ wire' = w
      \/ x.eof /\ s' = Load(x, TRUE)
      \/ x.eof /\ s' = Load(x, FALSE)
  BY ZenonT(60), <1>3, <1>4, <1>5 DEF Bytes
<1>9. CASE ~x.eof /\ s' = x /\ wire' = w
  BY <1>1, <1>6, <1>7, <1>9 DEF FileInv, LoadedIsTheFile
<1>10. CASE x.eof /\ s' = Load(x, TRUE)
  <2>1. LinkInv(s') /\ s'.state # "TRANSFER" /\ s'.data = File
    BY ZenonT(60), <1>6, <1>7, <1>10, LoadKeeps
  <2> QED
    BY <2>1 DEF FileInv, LoadedIsTheFile
<1>11. CASE x.eof /\ s' = Load(x, FALSE)
  <2>1. LinkInv(s') /\ s'.state # "TRANSFER" /\ s'.data = <<>>
    BY ZenonT(60), <1>7, <1>11, LoadFailureKeeps
  <2> QED
    BY <2>1 DEF FileInv, LoadedIsTheFile
<1> QED
  BY ZenonT(60), <1>8, <1>9, <1>10, <1>11

\* What a replica loads is the file of its master, byte by byte, however the
\* reads cut the file and its end mark, and whatever attempts were given up
\* before (readSyncBulkPayload).
THEOREM FileArrivesWhole ==
    ASSUME HostAssumption, MarkAssumption
    PROVE  Spec => []LoadedIsTheFile
<1>1. Init => FileInv
  BY DEF Init, FileInv, LoadedIsTheFile, LinkInv, Fields, Clean, Hosted, States
<1>2. FileInv /\ [Next]_vars => FileInv'
  <2>1. CASE UNCHANGED vars
    BY <2>1 DEF vars, FileInv, LoadedIsTheFile
  <2>2. ASSUME FileInv, Reads PROVE FileInv'
    BY <2>2, HeaderStep, BytesStep DEF Reads
  <2>3. ASSUME FileInv, Next, ~Reads PROVE FileInv'
    <3>1. /\ LinkInv(s') /\ s'.data = s.data
          /\ s'.state = "TRANSFER" =>
                /\ s'.size = -1 /\ s'.read = 0 /\ s'.file = <<>>
                /\ wire' \in {[form |-> "mark", bytes |-> File \o Mark], [form |-> "size", bytes |-> File]}
      BY <2>3, OtherSteps DEF FileInv
    <3> QED
      BY <2>3, <3>1 DEF FileInv, LoadedIsTheFile, Reading, Whole
  <2> QED
    BY <2>1, <2>2, <2>3
<1>3. FileInv => LoadedIsTheFile
  BY DEF FileInv
<1> QED
  BY <1>1, <1>2, <1>3, PTL DEF Spec
=============================================================================
