--------------------------- MODULE ReplHandshake ---------------------------
(***************************************************************************)
(* The connection of a replica to its master (replication.c): the states   *)
(* of syncWithMaster, the answers of the master, the transfer of the file  *)
(* in pieces, with a length or an end mark, timeouts and cancellations.    *)
(***************************************************************************)
EXTENDS Integers, Sequences

CONSTANTS Host,        \* masters an operator may configure
          Auth,        \* is masterauth configured?
          AnnounceIp,  \* is slave-announce-ip configured?
          File,        \* the bytes of the file a master sends
          Mark,        \* the end mark of a streamed file
          MaxTrouble   \* bound on errors, timeouts and operator commands

VARIABLES s,         \* the replica
          wire,      \* the bytes of the file still to be read, and how it is sent
          trouble

vars == <<s, wire, trouble>>

None == "nobody"
NoWire == [form |-> "none", bytes |-> <<>>]
Connecting == {"CONNECTING", "RECEIVE_PONG", "RECEIVE_AUTH", "RECEIVE_PORT", "RECEIVE_IP", "RECEIVE_CAPA", "RECEIVE_PSYNC"}

Min2(a, b) == IF a < b THEN a ELSE b

----------------------------------------------------------------------------
(* Leaving a connection.                                                   *)

undoConnectWithMaster(x) == [x EXCEPT !.sockets = @ - 1]

replicationAbortSyncTransfer(x) == [undoConnectWithMaster(x) EXCEPT !.temps = @ - 1]

cancelReplicationHandshake(x) ==
    IF x.state = "TRANSFER" THEN [replicationAbortSyncTransfer(x) EXCEPT !.state = "CONNECT"]
    ELSE IF x.state \in Connecting THEN [undoConnectWithMaster(x) EXCEPT !.state = "CONNECT"]
    ELSE x

\* freeClient on the master: "server.master != NULL && server.cached_master == NULL".
replicationCacheMaster(x) ==
    [x EXCEPT !.cached = x.master, !.master = None, !.state = "CONNECT", !.sockets = @ - 1]
LoseMaster(x) == IF x.master = None THEN x ELSE replicationCacheMaster(x)
replicationDiscardCachedMaster(x) == [x EXCEPT !.cached = None]

replicationSetMaster(x, h) ==
    LET y == cancelReplicationHandshake(LoseMaster([x EXCEPT !.host = h]))
    IN [(IF x.host = "none" THEN [y EXCEPT !.cached = "myself"] ELSE y) EXCEPT !.state = "CONNECT"]

replicationUnsetMaster(x) ==
    [cancelReplicationHandshake(replicationDiscardCachedMaster(LoseMaster([x EXCEPT !.host = "none"]))) EXCEPT !.state = "NONE"]

connectWithMaster(x) == [x EXCEPT !.state = "CONNECTING", !.sockets = @ + 1]

----------------------------------------------------------------------------
(* syncWithMaster: one call handles a reply and goes on to the next        *)
(* command that has to wait for one.                                       *)

Error(x) == [x EXCEPT !.sockets = @ - 1, !.state = "CONNECT"]

SendPing(x) == [x EXCEPT !.state = "RECEIVE_PONG"]
SendPsync(x) == [x EXCEPT !.state = "RECEIVE_PSYNC"]
SendCapa(x) == [x EXCEPT !.state = "RECEIVE_CAPA"]
SendIp(x) == IF AnnounceIp THEN [x EXCEPT !.state = "RECEIVE_IP"] ELSE SendCapa(x)
SendPort(x) == [x EXCEPT !.state = "RECEIVE_PORT"]
SendAuth(x) == IF Auth THEN [x EXCEPT !.state = "RECEIVE_AUTH"] ELSE SendPort(x)

\* An error reply to PING ends the attempt, unless it asks for authentication;
\* the replies to REPLCONF are not looked at.
HandshakeReply(x, reply) ==
    CASE x.state = "CONNECTING"   -> SendPing(x)
      [] x.state = "RECEIVE_PONG" -> IF reply \in {"+", "-NOAUTH"} THEN SendAuth(x) ELSE Error(x)
      [] x.state = "RECEIVE_AUTH" -> IF reply = "+" THEN SendPort(x) ELSE Error(x)
      [] x.state = "RECEIVE_PORT" -> SendIp(x)
      [] x.state = "RECEIVE_IP"   -> SendCapa(x)
      [] x.state = "RECEIVE_CAPA" -> SendPsync(x)

\* The reading half of slaveTryPartialResynchronization.
PsyncReply(reply) ==
    CASE reply = "newline" -> "WAIT_REPLY"
      [] reply = "+FULLRESYNC" -> "FULLRESYNC"
      [] reply = "+CONTINUE" -> "CONTINUE"
      [] reply \in {"-NOMASTERLINK", "-LOADING"} -> "TRY_LATER"
      [] OTHER -> "NOT_SUPPORTED"

replicationResurrectCachedMaster(x) == [x EXCEPT !.master = x.cached, !.cached = None, !.state = "CONNECTED"]

\* Whatever the master sends now replaces the data set.
StartTransfer(x) ==
    [replicationDiscardCachedMaster(x) EXCEPT !.state = "TRANSFER", !.size = -1, !.read = 0, !.temps = @ + 1, !.file = <<>>]

syncWithMasterPsync(x, reply) ==
    LET r == PsyncReply(reply)
    IN CASE r = "WAIT_REPLY" -> x
         [] r = "TRY_LATER" -> Error(x)
         [] r = "CONTINUE" -> replicationResurrectCachedMaster(x)
         [] r \in {"FULLRESYNC", "NOT_SUPPORTED"} -> StartTransfer(x)

----------------------------------------------------------------------------
(* readSyncBulkPayload.                                                    *)

\* The first line: the length, or the end mark.
ReadHeader(x, form) ==
    IF form = "mark" THEN [x EXCEPT !.usemark = TRUE, !.last = [i \in 1 .. Len(Mark) |-> -1], !.size = 0]
    ELSE [x EXCEPT !.usemark = FALSE, !.size = Len(File)]

\* The last bytes, to find the mark wherever the reads cut it.
LastBytes(last, buf) ==
    LET n == Len(Mark)
    IN IF Len(buf) >= n THEN SubSeq(buf, Len(buf) - n + 1, Len(buf))
       ELSE SubSeq(last, Len(buf) + 1, n) \o buf

\* The bytes are written; at the end mark the file is cut.
ReadBytes(x, buf) ==
    LET last == IF x.usemark THEN LastBytes(x.last, buf) ELSE x.last
        eof == IF x.usemark THEN last = Mark ELSE x.read + Len(buf) = x.size
        all == x.file \o buf
    IN [x EXCEPT !.last = last, !.read = @ + Len(buf), !.eof = eof,
                 !.file = IF x.usemark /\ eof THEN SubSeq(all, 1, Len(all) - Len(Mark)) ELSE all]

\* The file is complete: the old data set is dropped, the new one is loaded.
Load(x, ok) ==
    IF ~ok THEN cancelReplicationHandshake([x EXCEPT !.data = <<>>, !.eof = FALSE])
    ELSE [x EXCEPT !.data = x.file, !.eof = FALSE, !.temps = @ - 1, !.master = x.host, !.state = "CONNECTED"]

----------------------------------------------------------------------------
Init == /\ s = [host |-> "none", state |-> "NONE", sockets |-> 0, temps |-> 0, master |-> None, cached |-> None,
                size |-> -1, read |-> 0, usemark |-> FALSE, last |-> <<>>, eof |-> FALSE, file |-> <<>>, data |-> <<>>]
        /\ wire = NoWire /\ trouble = 0

Trouble == trouble < MaxTrouble /\ trouble' = trouble + 1

replicationCron == s.state = "CONNECT" /\ s' = connectWithMaster(s) /\ UNCHANGED <<wire, trouble>>

\* A reply of the master, or an error on the socket.
Reply == /\ s.state \in Connecting \ {"RECEIVE_PSYNC"} /\ UNCHANGED wire
         /\ \/ s' = HandshakeReply(s, "+") /\ UNCHANGED trouble
            \/ \E r \in {"-NOAUTH", "-ERR"} : s' = HandshakeReply(s, r) /\ Trouble
            \/ s' = Error(s) /\ Trouble

\* A master continues only for a replica that asked for it.
Psync == /\ s.state = "RECEIVE_PSYNC"
         /\ \E r \in {"newline", "+FULLRESYNC", "+CONTINUE", "-NOMASTERLINK", "-ERR"} :
               /\ r = "+CONTINUE" => s.cached # None
               /\ s' = syncWithMasterPsync(s, r)
               /\ IF r \in {"newline", "-NOMASTERLINK"} THEN Trouble ELSE UNCHANGED trouble
               /\ wire' \in IF s'.state # "TRANSFER" THEN {NoWire}
                            ELSE {[form |-> "mark", bytes |-> File \o Mark], [form |-> "size", bytes |-> File]}

Header == /\ s.state = "TRANSFER" /\ s.size = -1
          /\ s' = ReadHeader(s, wire.form) /\ UNCHANGED <<wire, trouble>>

\* A read returns some of the bytes, never more than the length leaves.
Bytes(n) == LET len == IF s.usemark THEN n ELSE Min2(n, s.size - s.read)
            IN /\ s.state = "TRANSFER" /\ s.size # -1 /\ n <= Len(wire.bytes)
               /\ LET x == ReadBytes(s, SubSeq(wire.bytes, 1, len))
                  IN \/ ~x.eof /\ s' = x /\ wire' = [wire EXCEPT !.bytes = SubSeq(@, len + 1, Len(@))] /\ UNCHANGED trouble
                     \/ x.eof /\ s' = Load(x, TRUE) /\ wire' = NoWire /\ UNCHANGED trouble
                     \/ x.eof /\ s' = Load(x, FALSE) /\ wire' = NoWire /\ Trouble

\* A timeout, an error while reading, a file that cannot be written or renamed.
Fails == /\ s.state \in Connecting \cup {"TRANSFER"}
         /\ s' = cancelReplicationHandshake(s) /\ wire' = NoWire /\ Trouble
MasterLost == s.master # None /\ s' = LoseMaster(s) /\ UNCHANGED wire /\ Trouble

ReplicaOf(h) == h # s.host /\ s' = replicationSetMaster(s, h) /\ wire' = NoWire /\ Trouble
ReplicaOfNoOne == s.host # "none" /\ s' = replicationUnsetMaster(s) /\ wire' = NoWire /\ Trouble

Progress == replicationCron \/ Reply \/ Psync \/ Header \/ \E n \in 1 .. Len(File) + Len(Mark) : Bytes(n)
Next == Progress \/ Fails \/ MasterLost \/ ReplicaOfNoOne \/ \E h \in Host : ReplicaOf(h)
Spec == Init /\ [][Next]_vars

----------------------------------------------------------------------------
\* One socket at most, and one exactly while a connection is being made or is
\* up; one temporary file exactly during a transfer.
NothingLeaks ==
    /\ s.sockets = IF s.state \in {"NONE", "CONNECT"} THEN 0 ELSE 1
    /\ s.temps = IF s.state = "TRANSFER" THEN 1 ELSE 0

\* A master client exists exactly in the connected state, and never together
\* with a cached one (the assertion of replicationCacheMaster).
OneMaster ==
    /\ s.master # None <=> s.state = "CONNECTED"
    /\ s.master # None => s.cached = None
    /\ s.host = "none" => s.state = "NONE" /\ s.cached = None

\* What is loaded is the file of the master, byte by byte, however the reads cut
\* it; after a failed load there is nothing.
LoadedIsTheFile == s.data \in {<<>>, File}
=============================================================================
