----------------------------- MODULE SyncProofs -----------------------------
(***************************************************************************)
(* Proofs about full resynchronisations (FullSync), for any replicas,      *)
(* databases, number of writes, saves and lost connections, and for a      *)
(* server that is a master or a replica itself.                            *)
(***************************************************************************)
EXTENDS FullSync, TLAPS

\* Databases are numbers; -1 stands for "none selected".
SyncAssumption == Db \subseteq Nat

----------------------------------------------------------------------------
(* A copy and the differences that go with it                              *)

Row == Int \X Nat
Item == ({"select"} \X Int) \cup ({"write"} \X Nat)

Prefix(data, all) ==
    /\ data \in Seq(Row) /\ Len(data) <= Len(all)
    /\ \A i \in 1..Len(data) : data[i] = all[i]

\* An item read after n rows with the database d selected.
ItemFits(all, item, n, d, n1, d1) ==
    \/ item[1] = "select" /\ n1 = n /\ d1 = item[2]
    \/ item[1] = "write" /\ n1 = n + 1 /\ d1 = d /\ all[n1] = <<d, item[2]>>

\* What the reader of the buffer will have read after each item: number of rows,
\* and the database selected.
Reading(all, cur, data, db, buf, n, d) ==
    /\ \A i \in 0..Len(buf) : n[i] \in Nat /\ n[i] <= Len(all) /\ d[i] \in Int
    /\ n[0] = Len(data) /\ d[0] = db
    /\ n[Len(buf)] = Len(all)
    /\ cur # -1 => d[Len(buf)] = cur
    /\ \A i \in 1..Len(buf) : ItemFits(all, buf[i], n[i - 1], d[i - 1], n[i], d[i])

\* The copy is a prefix of the data, and the buffer holds the rest of it, and
\* ends in the database the stream has selected.
Ready(all, cur, data, db, buf) ==
    /\ all \in Seq(Row) /\ cur \in Int /\ Prefix(data, all) /\ buf \in Seq(Item)
    /\ \E n, d : Reading(all, cur, data, db, buf, n, d)

\* A copy just made.
LEMMA FreshCopy ==
    ASSUME NEW all \in Seq(Row), NEW cur \in Int, NEW db \in Int, cur # -1 => cur = db
    PROVE  Ready(all, cur, all, db, <<>>)
<1>1. Prefix(all, all)
  BY DEF Prefix
<1>2. Reading(all, cur, all, db, <<>>, [i \in 0..0 |-> Len(all)], [i \in 0..0 |-> db])
  BY DEF Reading
<1> QED
  BY <1>1, <1>2 DEF Ready

\* The stream forgets its database: it will select one before the next write.
LEMMA ForgetDatabase ==
    ASSUME NEW all, NEW cur, NEW data, NEW db, NEW buf, Ready(all, cur, data, db, buf)
    PROVE  Ready(all, -1, data, db, buf)
<1>1. PICK n, d : Reading(all, cur, data, db, buf, n, d)
  BY DEF Ready
<1>2. Reading(all, -1, data, db, buf, n, d)
  BY <1>1 DEF Reading
<1> QED
  BY <1>2 DEF Ready

LEMMA SelectIsBuffered ==
    ASSUME NEW all, NEW cur, NEW data, NEW db, NEW buf, Ready(all, cur, data, db, buf), NEW e \in Int
    PROVE  Ready(all, e, data, db, Append(buf, <<"select", e>>))
<1>1. PICK n, d : Reading(all, cur, data, db, buf, n, d)
  BY DEF Ready
<1>2. PICK L : L = Len(buf)
  BY ZenonT(60)
<1>3. buf \in Seq(Item) /\ L \in Nat /\ <<"select", e>> \in Item
  BY <1>2 DEF Ready, Item
<1>4. PICK b : b = Append(buf, <<"select", e>>)
  BY ZenonT(60)
<1>5. /\ b \in Seq(Item) /\ Len(b) = L + 1 /\ b[L + 1] = <<"select", e>>
      /\ \A i \in 1..L : b[i] = buf[i]
  BY <1>2, <1>3, <1>4
<1>. DEFINE n1 == [i \in 0..(L + 1) |-> IF i = L + 1 THEN Len(all) ELSE n[i]]
            d1 == [i \in 0..(L + 1) |-> IF i = L + 1 THEN e ELSE d[i]]
<1>6. ASSUME NEW i \in 0..(L + 1) PROVE n1[i] \in Nat /\ n1[i] <= Len(all) /\ d1[i] \in Int
  <2>1. Len(all) \in Nat
    BY DEF Ready
  <2>2. i # L + 1 => n[i] \in Nat /\ n[i] <= Len(all) /\ d[i] \in Int
    BY <1>1, <1>2, <1>3 DEF Reading
  <2> QED
    BY <2>1, <2>2
<1>7. n1[0] = Len(data) /\ d1[0] = db /\ n1[L + 1] = Len(all) /\ d1[L + 1] = e
  BY <1>1, <1>2, <1>3 DEF Reading
<1>8. ASSUME NEW i \in 1..(L + 1) PROVE ItemFits(all, b[i], n1[i - 1], d1[i - 1], n1[i], d1[i])
  <2>1. CASE i = L + 1
    <3>1. n1[i - 1] = Len(all) /\ n1[i] = Len(all) /\ d1[i] = e
      BY <1>1, <1>2, <1>3, <2>1 DEF Reading
    <3>. HIDE DEF n1, d1
    <3> QED
      BY <1>5, <2>1, <3>1 DEF ItemFits
  <2>2. CASE i # L + 1
    <3>1. /\ i \in 1..L /\ n1[i - 1] = n[i - 1] /\ d1[i - 1] = d[i - 1] /\ n1[i] = n[i] /\ d1[i] = d[i]
      BY <1>3, <2>2
    <3>. HIDE DEF n1, d1
    <3>2. ItemFits(all, buf[i], n[i - 1], d[i - 1], n[i], d[i])
      BY <1>1, <1>2, <3>1 DEF Reading
    <3> QED
      BY <1>5, <3>1, <3>2
  <2> QED
    BY <2>1, <2>2
<1>. HIDE DEF n1, d1
<1>9. Reading(all, e, data, db, b, n1, d1)
  BY <1>5, <1>6, <1>7, <1>8 DEF Reading
<1> QED
  BY <1>4, <1>5, <1>9 DEF Ready

LEMMA WriteIsBuffered ==
    ASSUME NEW all, NEW cur, cur # -1, NEW data, NEW db, NEW buf, Ready(all, cur, data, db, buf),
           NEW w, w = Len(all) + 1
    PROVE  Ready(Append(all, <<cur, w>>), cur, data, db, Append(buf, <<"write", w>>))
<1>1. PICK n, d : Reading(all, cur, data, db, buf, n, d)
  BY DEF Ready
<1>2. PICK L, N : L = Len(buf) /\ N = Len(all)
  BY ZenonT(60)
<1>3. /\ buf \in Seq(Item) /\ all \in Seq(Row) /\ L \in Nat /\ N \in Nat /\ w = N + 1
      /\ <<"write", w>> \in Item /\ <<cur, w>> \in Row
  BY <1>2 DEF Ready, Item, Row
<1>4. PICK b, A : b = Append(buf, <<"write", w>>) /\ A = Append(all, <<cur, w>>)
  BY ZenonT(60)
<1>5. /\ b \in Seq(Item) /\ Len(b) = L + 1 /\ b[L + 1] = <<"write", w>>
      /\ \A i \in 1..L : b[i] = buf[i]
  BY <1>2, <1>3, <1>4
<1>6. /\ A \in Seq(Row) /\ Len(A) = N + 1 /\ A[N + 1] = <<cur, w>>
      /\ \A i \in 1..N : A[i] = all[i]
  BY <1>2, <1>3, <1>4
<1>. DEFINE n1 == [i \in 0..(L + 1) |-> IF i = L + 1 THEN N + 1 ELSE n[i]]
            d1 == [i \in 0..(L + 1) |-> IF i = L + 1 THEN cur ELSE d[i]]
<1>7. ASSUME NEW i \in 0..(L + 1) PROVE n1[i] \in Nat /\ n1[i] <= N + 1 /\ d1[i] \in Int
  <2>1. i # L + 1 => n[i] \in Nat /\ n[i] <= N /\ d[i] \in Int
    BY <1>1, <1>2, <1>3 DEF Reading
  <2>2. cur \in Int
    BY DEF Ready
  <2> QED
    BY <1>3, <2>1, <2>2
<1>8. n1[0] = Len(data) /\ d1[0] = db /\ n1[L + 1] = N + 1 /\ d1[L + 1] = cur
  BY <1>1, <1>2, <1>3 DEF Reading
<1>9. ASSUME NEW i \in 1..(L + 1) PROVE ItemFits(A, b[i], n1[i - 1], d1[i - 1], n1[i], d1[i])
  <2>1. CASE i = L + 1
    <3>1. n1[i - 1] = N /\ n1[i] = N + 1 /\ d1[i - 1] = cur /\ d1[i] = cur
      BY SMTT(60), <1>1, <1>2, <1>3, <2>1 DEF Reading
    <3>. HIDE DEF n1, d1
    <3> QED
      BY <1>5, <1>6, <2>1, <3>1 DEF ItemFits
  <2>2. CASE i # L + 1
    <3>1. /\ i \in 1..L /\ n1[i - 1] = n[i - 1] /\ d1[i - 1] = d[i - 1] /\ n1[i] = n[i] /\ d1[i] = d[i]
      BY <1>3, <2>2
    <3>. HIDE DEF n1, d1
    <3>2. n[i] \in Nat /\ n[i] <= N /\ n[i - 1] \in Nat
      BY <1>1, <1>2, <1>3, <3>1 DEF Reading
    <3>3. ItemFits(all, buf[i], n[i - 1], d[i - 1], n[i], d[i])
      BY <1>1, <1>2, <3>1 DEF Reading
    <3> QED
      <4>1. b[i] = buf[i]
        BY <1>5, <3>1
      <4>2. n[i] = n[i - 1] + 1 => A[n[i]] = all[n[i]]
        BY SMTT(60), <1>3, <1>6, <3>2
      <4> QED
        BY <3>1, <3>3, <4>1, <4>2 DEF ItemFits
  <2> QED
    BY <2>1, <2>2
<1>. HIDE DEF n1, d1
<1>10. Reading(A, cur, data, db, b, n1, d1)
  BY <1>5, <1>6, <1>7, <1>8, <1>9 DEF Reading
<1>11. Prefix(data, A)
  <2>1. data \in Seq(Row) /\ Len(data) <= N /\ \A i \in 1..Len(data) : data[i] = all[i]
    BY <1>2 DEF Ready, Prefix
  <2>2. Len(data) \in Nat
    BY <2>1
  <2> QED
    BY <1>3, <1>6, <2>1, <2>2 DEF Prefix
<1> QED
  BY ZenonT(60), <1>4, <1>5, <1>6, <1>10, <1>11 DEF Ready

\* The reader takes the first item from the buffer.
LEMMA ItemIsRead ==
    ASSUME NEW all, NEW cur, NEW data, NEW db, NEW buf, Ready(all, cur, data, db, buf), buf # <<>>,
           NEW data1, NEW db1,
           \/ Head(buf)[1] = "select" /\ data1 = data /\ db1 = Head(buf)[2]
           \/ Head(buf)[1] # "select" /\ data1 = Append(data, <<db, Head(buf)[2]>>) /\ db1 = db
    PROVE  Ready(all, cur, data1, db1, Tail(buf))
<1>1. PICK n, d : Reading(all, cur, data, db, buf, n, d)
  BY DEF Ready
<1>2. PICK L, b, item : L = Len(buf) /\ b = Tail(buf) /\ item = Head(buf)
  BY ZenonT(60)
<1>3. /\ buf \in Seq(Item) /\ L \in Nat /\ L >= 1 /\ item = buf[1] /\ item \in Item
      /\ b \in Seq(Item) /\ Len(b) = L - 1 /\ \A i \in 1..(L - 1) : b[i] = buf[i + 1]
  BY <1>2 DEF Ready
<1>4. /\ \A i \in 0..L : n[i] \in Nat /\ n[i] <= Len(all) /\ d[i] \in Int
      /\ n[0] = Len(data) /\ d[0] = db /\ n[L] = Len(all) /\ (cur # -1 => d[L] = cur)
  BY <1>1, <1>2 DEF Reading
<1>5. \A i \in 1..L : ItemFits(all, buf[i], n[i - 1], d[i - 1], n[i], d[i])
  BY <1>1, <1>2 DEF Reading
<1>6. ItemFits(all, item, Len(data), db, n[1], d[1])
  <2>1. ItemFits(all, buf[1], n[1 - 1], d[1 - 1], n[1], d[1])
    BY <1>3, <1>5
  <2> QED
    BY <1>3, <1>4, <2>1
<1>7. data \in Seq(Row) /\ all \in Seq(Row) /\ cur \in Int /\ Prefix(data, all)
  BY DEF Ready, Prefix
<1>8. n[1] = Len(data1) /\ d[1] = db1 /\ Prefix(data1, all)
  <2>1. CASE item[1] = "select"
    BY ZenonT(60), <1>2, <1>6, <1>7, <2>1 DEF ItemFits
  <2>2. CASE item[1] # "select"
    <3>1. n[1] = Len(data) + 1 /\ d[1] = db /\ all[n[1]] = <<db, item[2]>> /\ db1 = db
          /\ data1 = Append(data, <<db, item[2]>>)
      BY <1>2, <1>6, <2>2 DEF ItemFits
    <3>2. n[1] \in Nat /\ n[1] <= Len(all)
      BY <1>3, <1>4
    <3>3. all[n[1]] \in Row
      <4>1. Len(data) \in Nat /\ n[1] \in 1..Len(all)
        BY <1>7, <3>1, <3>2
      <4> QED
        BY <1>7, <4>1
    <3>4. /\ data1 \in Seq(Row) /\ Len(data1) = Len(data) + 1 /\ data1[Len(data) + 1] = <<db, item[2]>>
          /\ \A i \in 1..Len(data) : data1[i] = data[i]
      BY <1>7, <3>1, <3>3
    <3>5. Prefix(data1, all)
      <4>1. Len(data) \in Nat /\ Len(data1) <= Len(all)
        BY <1>7, <3>1, <3>2, <3>4
      <4>2. ASSUME NEW i \in 1..Len(data1) PROVE data1[i] = all[i]
        <5>1. CASE i = Len(data) + 1
          BY ZenonT(60), <3>1, <3>4, <5>1
        <5>2. CASE i # Len(data) + 1
          <6>1. i \in 1..Len(data)
            BY <3>4, <4>1, <5>2
          <6> QED
            BY <1>7, <3>4, <6>1 DEF Prefix
        <5> QED
          BY <5>1, <5>2
      <4> QED
        BY <3>4, <4>1, <4>2 DEF Prefix
    <3> QED
      BY <3>1, <3>4, <3>5
  <2> QED
    BY <2>1, <2>2
<1>. DEFINE n1 == [i \in 0..(L - 1) |-> n[i + 1]]
            d1 == [i \in 0..(L - 1) |-> d[i + 1]]
<1>9. \A i \in 0..(L - 1) : n1[i] = n[i + 1] /\ d1[i] = d[i + 1]
  OBVIOUS
<1>. HIDE DEF n1, d1
<1>10. ASSUME NEW i \in 0..Len(b) PROVE n1[i] \in Nat /\ n1[i] <= Len(all) /\ d1[i] \in Int
  <2>1. i + 1 \in 0..L /\ i \in 0..(L - 1)
    BY <1>3
  <2> QED
    BY <1>4, <1>9, <2>1
<1>11. n1[0] = Len(data1) /\ d1[0] = db1 /\ n1[Len(b)] = Len(all) /\ (cur # -1 => d1[Len(b)] = cur)
  BY SMTT(60), <1>3, <1>4, <1>8, <1>9
<1>12. ASSUME NEW i \in 1..Len(b) PROVE ItemFits(all, b[i], n1[i - 1], d1[i - 1], n1[i], d1[i])
  <2>1. n1[i - 1] = n[i] /\ d1[i - 1] = d[i] /\ n1[i] = n[i + 1] /\ d1[i] = d[i + 1] /\ b[i] = buf[i + 1]
    BY SMTT(60), <1>3, <1>9
  <2>2. PICK j : j = i + 1
    OBVIOUS
  <2>3. j \in 1..L /\ j - 1 = i
    BY <1>3, <2>2
  <2>4. ItemFits(all, buf[j], n[j - 1], d[j - 1], n[j], d[j])
    BY <1>5, <2>3
  <2> QED
    BY <2>1, <2>2, <2>3, <2>4
<1>13. Reading(all, cur, data1, db1, b, n1, d1)
  BY <1>10, <1>11, <1>12 DEF Reading
<1> QED
  BY <1>2, <1>3, <1>7, <1>8, <1>13 DEF Ready

\* With nothing left to read the copy is complete.
LEMMA NothingToRead ==
    ASSUME NEW all, NEW cur, NEW data, NEW db, NEW buf, Ready(all, cur, data, db, buf)
    PROVE  data = SubSeq(all, 1, Len(data)) /\ (buf = <<>> => data = all)
<1>1. /\ all \in Seq(Row) /\ data \in Seq(Row) /\ Len(data) <= Len(all)
      /\ \A i \in 1..Len(data) : data[i] = all[i]
  BY DEF Ready, Prefix
<1>2. data = SubSeq(all, 1, Len(data))
  BY <1>1
<1>3. CASE buf = <<>>
  <2>1. Len(data) = Len(all)
    BY <1>3 DEF Ready, Reading
  <2> QED
    BY <1>1, <1>2, <2>1
<1> QED
  BY <1>2, <1>3

----------------------------------------------------------------------------
(* One replica                                                             *)

SlaveShape(s) ==
    s = [state |-> s.state, buf |-> s.buf, initial |-> s.initial, onack |-> s.onack, file |-> s.file]

CopyShape(p) == p = [state |-> p.state, data |-> p.data, db |-> p.db, off |-> p.off]

\* The client s and the replica p: the data of the server, its offset, the
\* database of its stream and the file that is being made fit what they hold.
Fits(all, off, cur, f, s, p) ==
    /\ SlaveShape(s) /\ CopyShape(p)
    /\ s.state \in {"none", "start", "end", "bulk", "online"}
    /\ s.state \in {"none", "start"} => s.buf = <<>>
    /\ p.state = "loaded" => s.state = "online"
    /\ s.state = "online" => p.state = "loaded"
    /\ s.state \in {"end", "bulk", "online"} =>
           p.off \in Nat /\ Len(s.buf) \in Nat /\ p.off + Len(s.buf) = off
    /\ s.state = "end" => p.off = s.initial /\ Ready(all, cur, f.data, f.db, s.buf)
    /\ s.state = "bulk" => Ready(all, cur, s.file.data, s.file.db, s.buf)
    /\ s.state = "online" => Ready(all, cur, p.data, p.db, s.buf)

LEMMA NobodyFits ==
    ASSUME NEW all, NEW off, NEW cur, NEW f
    PROVE  Fits(all, off, cur, f, NoSlave, Idle)
<1>1. SlaveShape(NoSlave) /\ CopyShape(Idle)
  BY ZenonT(60) DEF NoSlave, Idle, SlaveShape, CopyShape
<1>2. NoSlave.state = "none" /\ NoSlave.buf = <<>> /\ Idle.state = "idle"
  BY DEF NoSlave, Idle
<1> QED
  BY <1>1, <1>2 DEF Fits

\* A replica that asks for a copy.
LEMMA NewcomerFits ==
    ASSUME NEW all, NEW off, NEW cur, NEW f, NEW s, NEW p,
           s = [NoSlave EXCEPT !.state = "start"], p = [Idle EXCEPT !.state = "wait"]
    PROVE  Fits(all, off, cur, f, s, p) /\ SlaveShape(s) /\ s.state = "start" /\ s.buf = <<>>
<1>1. SlaveShape(s) /\ CopyShape(p) /\ s.state = "start" /\ s.buf = <<>> /\ p.state = "wait"
  BY ZenonT(60) DEF NoSlave, Idle, SlaveShape, CopyShape
<1> QED
  BY <1>1 DEF Fits

LEMMA ForgetfulFits ==
    ASSUME NEW all, NEW off, NEW cur, NEW f, NEW s, NEW p, Fits(all, off, cur, f, s, p)
    PROVE  Fits(all, off, -1, f, s, p)
BY ZenonT(60), ForgetDatabase DEF Fits

\* The file that is being made matters only to those who wait for it.
LEMMA OtherFileFits ==
    ASSUME NEW all, NEW off, NEW cur, NEW f, NEW s, NEW p, Fits(all, off, cur, f, s, p), s.state # "end",
           NEW g
    PROVE  Fits(all, off, cur, g, s, p)
BY ZenonT(60) DEF Fits

\* The replica waits for the end of a save.
LEMMA SetupFits ==
    ASSUME NEW all, NEW off, NEW cur, NEW f, NEW s, SlaveShape(s), NEW start \in Nat, Len(s.buf) \in Nat,
           start + Len(s.buf) = off, Ready(all, cur, f.data, f.db, s.buf),
           NEW t, t = [s EXCEPT !.state = "end", !.initial = start],
           NEW p, p = [Idle EXCEPT !.state = "full", !.off = start]
    PROVE  Fits(all, off, cur, f, t, p)
<1>1. SlaveShape(t) /\ t.state = "end" /\ t.initial = start /\ t.buf = s.buf
  BY ZenonT(60) DEF SlaveShape
<1>2. CopyShape(p) /\ p.state = "full" /\ p.off = start
  BY ZenonT(60) DEF Idle, CopyShape
<1> QED
  BY <1>1, <1>2 DEF Fits

\* The save has ended: the file is sent.
LEMMA BulkFits ==
    ASSUME NEW all, NEW off, NEW cur, NEW f, NEW s, NEW p, Fits(all, off, cur, f, s, p), s.state = "end",
           NEW t, t = [s EXCEPT !.state = "bulk", !.file = f], NEW g
    PROVE  Fits(all, off, cur, g, t, p)
<1>1. SlaveShape(t) /\ t.state = "bulk" /\ t.file = f /\ t.buf = s.buf
  BY ZenonT(60) DEF SlaveShape, Fits
<1> QED
  BY <1>1 DEF Fits

\* The file is loaded.
LEMMA LoadedFits ==
    ASSUME NEW all, NEW off, NEW cur, NEW f, NEW s, NEW p, Fits(all, off, cur, f, s, p),
           s.state \in {"end", "bulk"}, NEW t, SlaveShape(t), t.state = "online", t.buf = s.buf,
           NEW q, q = Loaded(p, IF s.state = "end" THEN f ELSE s.file), NEW g
    PROVE  Fits(all, off, cur, g, t, q)
<1>1. PICK h : h = IF s.state = "end" THEN f ELSE s.file
  OBVIOUS
<1>2. q = [p EXCEPT !.state = "loaded", !.data = h.data, !.db = h.db]
  BY ZenonT(60), <1>1 DEF Loaded
<1>3. CopyShape(q) /\ q.state = "loaded" /\ q.data = h.data /\ q.db = h.db /\ q.off = p.off
  BY ZenonT(60), <1>2 DEF CopyShape, Fits
<1>4. Ready(all, cur, h.data, h.db, s.buf)
  BY <1>1 DEF Fits
<1>5. p.off \in Nat /\ Len(s.buf) \in Nat /\ p.off + Len(s.buf) = off
  BY DEF Fits
<1> QED
  BY <1>3, <1>4, <1>5 DEF Fits

\* An item of the stream is accumulated: a SELECT ...
LEMMA FedSelectFits ==
    ASSUME NEW all, NEW off \in Nat, NEW cur, NEW f, NEW s, NEW p, Fits(all, off, cur, f, s, p),
           NEW e \in Int, NEW t, t = Fed(s, <<"select", e>>)
    PROVE  Fits(all, off + 1, e, f, t, p)
<1>1. CASE s.state \in {"none", "start"}
  <2>1. t = s
    BY <1>1 DEF Fed
  <2> QED
    BY <1>1, <2>1 DEF Fits
<1>2. CASE s.state \notin {"none", "start"}
  <2>1. PICK b : b = Append(s.buf, <<"select", e>>)
    BY ZenonT(60)
  <2>2. t = [s EXCEPT !.buf = b]
    BY ZenonT(60), <1>2, <2>1 DEF Fed
  <2>3. SlaveShape(t) /\ t.state = s.state /\ t.initial = s.initial /\ t.file = s.file /\ t.buf = b
    BY ZenonT(60), <2>2 DEF SlaveShape, Fits
  <2>4. \A data, db : Ready(all, cur, data, db, s.buf) => Ready(all, e, data, db, b)
    BY ZenonT(60), <2>1, SelectIsBuffered
  <2>5. s.buf \in Seq(Item)
    BY <1>2 DEF Fits, Ready
  <2>6. Len(b) = Len(s.buf) + 1 /\ Len(b) \in Nat
    BY <2>1, <2>5
  <2>7. p.off \in Nat /\ Len(s.buf) \in Nat /\ p.off + Len(s.buf) = off
    BY <1>2 DEF Fits
  <2>8. p.off + Len(b) = off + 1
    BY <2>6, <2>7
  <2> QED
    BY <1>2, <2>3, <2>4, <2>6, <2>7, <2>8 DEF Fits
<1> QED
  BY <1>1, <1>2

\* ... or a write, which the server has executed.
LEMMA FedWriteFits ==
    ASSUME NEW all, NEW off \in Nat, NEW cur, cur # -1, NEW f, NEW s, NEW p, Fits(all, off, cur, f, s, p),
           NEW w, w = Len(all) + 1, NEW t, t = Fed(s, <<"write", w>>)
    PROVE  Fits(Append(all, <<cur, w>>), off + 1, cur, f, t, p)
<1>1. CASE s.state \in {"none", "start"}
  <2>1. t = s
    BY <1>1 DEF Fed
  <2> QED
    BY <1>1, <2>1 DEF Fits
<1>2. CASE s.state \notin {"none", "start"}
  <2>1. PICK b, A : b = Append(s.buf, <<"write", w>>) /\ A = Append(all, <<cur, w>>)
    BY ZenonT(60)
  <2>2. t = [s EXCEPT !.buf = b]
    BY ZenonT(60), <1>2, <2>1 DEF Fed
  <2>3. SlaveShape(t) /\ t.state = s.state /\ t.initial = s.initial /\ t.file = s.file /\ t.buf = b
    BY ZenonT(60), <2>2 DEF SlaveShape, Fits
  <2>4. \A data, db : Ready(all, cur, data, db, s.buf) => Ready(A, cur, data, db, b)
    BY ZenonT(60), <2>1, WriteIsBuffered
  <2>5. s.buf \in Seq(Item)
    BY <1>2 DEF Fits, Ready
  <2>6. Len(b) = Len(s.buf) + 1 /\ Len(b) \in Nat
    BY <2>1, <2>5
  <2>7. p.off \in Nat /\ Len(s.buf) \in Nat /\ p.off + Len(s.buf) = off
    BY <1>2 DEF Fits
  <2>8. p.off + Len(b) = off + 1
    BY SMTT(60), <2>6, <2>7
  <2>9. Fits(A, off + 1, cur, f, t, p)
    BY <1>2, <2>3, <2>4, <2>6, <2>7, <2>8 DEF Fits
  <2> QED
    BY <2>1, <2>9
<1> QED
  BY <1>1, <1>2

\* The replica reads an item.
LEMMA ReaderFits ==
    ASSUME NEW all, NEW off, NEW cur, NEW f, NEW s, NEW p, Fits(all, off, cur, f, s, p),
           s.state = "online", s.buf # <<>>,
           NEW t, t = [s EXCEPT !.buf = Tail(@)], NEW q, q = Apply(p, Head(s.buf))
    PROVE  Fits(all, off, cur, f, t, q)
<1>1. PICK b, item, data, db : /\ b = Tail(s.buf) /\ item = Head(s.buf)
                               /\ data = IF item[1] = "select" THEN p.data ELSE Append(p.data, <<p.db, item[2]>>)
                               /\ db = IF item[1] = "select" THEN item[2] ELSE p.db
  BY ZenonT(60)
<1>2. Ready(all, cur, p.data, p.db, s.buf) /\ p.off \in Nat /\ p.off + Len(s.buf) = off
  BY DEF Fits
<1>3. Ready(all, cur, data, db, b)
  BY ZenonT(60), <1>1, <1>2, ItemIsRead
<1>4. s.buf \in Seq(Item)
  BY <1>2 DEF Ready
<1>5. Len(b) = Len(s.buf) - 1 /\ Len(b) \in Nat /\ Len(s.buf) \in Nat
  BY <1>1, <1>4
<1>6. PICK o : o = p.off + 1
  OBVIOUS
<1>7. q = [p EXCEPT !.data = data, !.db = db, !.off = o]
  <2>1. p = [state |-> p.state, data |-> p.data, db |-> p.db, off |-> p.off]
    BY DEF Fits, CopyShape
  <2>2. CASE item[1] = "select"
    BY ZenonT(60), <1>1, <1>6, <2>1, <2>2 DEF Apply
  <2>3. CASE item[1] # "select"
    BY ZenonT(60), <1>1, <1>6, <2>1, <2>3 DEF Apply
  <2> QED
    BY <2>2, <2>3
<1>8. CopyShape(q) /\ q.state = p.state /\ q.data = data /\ q.db = db /\ q.off = o
  BY ZenonT(60), <1>7 DEF CopyShape, Fits
<1>9. SlaveShape(t) /\ t.state = s.state /\ t.buf = b
  BY ZenonT(60), <1>1 DEF SlaveShape, Fits
<1>10. o \in Nat /\ o + Len(b) = off
  BY SMTT(60), <1>2, <1>5, <1>6
<1> QED
  BY ZenonT(60), <1>3, <1>5, <1>8, <1>9, <1>10 DEF Fits

----------------------------------------------------------------------------
(* The inductive invariant                                                 *)

ServerShape(c) ==
    c = [data |-> c.data, offset |-> c.offset, seldb |-> c.seldb, db |-> c.db, child |-> c.child,
         aof |-> c.aof, diskless |-> c.diskless]

\* The database the stream of the server is in.
Selected(c) == IF Proxy THEN c.db ELSE c.seldb

ServerOK(c) ==
    /\ ServerShape(c) /\ c.data \in Seq(Row) /\ c.offset \in Nat /\ c.seldb \in Int /\ c.db \in Nat

Shape(x) ==
    /\ x = [m |-> x.m, slave |-> x.slave, order |-> x.order, rep |-> x.rep]
    /\ x.slave = [r \in Replica |-> x.slave[r]] /\ x.rep = [r \in Replica |-> x.rep[r]]

FitsIn(x, f, r) == Fits(x.m.data, x.m.offset, Selected(x.m), f, x.slave[r], x.rep[r])

Whole(x, f) == Shape(x) /\ ServerOK(x.m) /\ \A r \in Replica : FitsIn(x, f, r)

\* A streamed file goes to replicas that understand it; without a child nobody
\* waits for its end.
ChildOK(x) ==
    /\ x.m.child.type \in {"none", "disk", "socket"}
    /\ x.m.child.type = "none" => x.m.child = NoChild
    /\ x.m.child.type = "socket" => x.m.child.to \subseteq Eof
    /\ x.m.child.type = "none" => \A r \in Replica : x.slave[r].state # "end"

SyncState(x) == Whole(x, x.m.child.file) /\ ChildOK(x)

SyncInv == SyncState(Current)

----------------------------------------------------------------------------
(* The operations of a full resynchronisation                              *)

LEMMA DropKeeps ==
    ASSUME NEW x, NEW f, Whole(x, f), NEW R, NEW y, y = DropAll(x, R)
    PROVE  /\ Whole(y, f) /\ y.m = x.m
           /\ \A r \in Replica : y.slave[r] = IF r \in R THEN NoSlave ELSE x.slave[r]
<1>1. PICK o : o = SelectSeq(x.order, LAMBDA s : s \notin R)
  BY ZenonT(60)
<1>2. y = [x EXCEPT !.slave = [r \in Replica |-> IF r \in R THEN NoSlave ELSE x.slave[r]],
                    !.rep = [r \in Replica |-> IF r \in R THEN Idle ELSE x.rep[r]], !.order = o]
  BY ZenonT(60), <1>1 DEF DropAll
<1>3. /\ y = [m |-> y.m, slave |-> y.slave, order |-> y.order, rep |-> y.rep] /\ y.m = x.m
      /\ y.slave = [r \in Replica |-> IF r \in R THEN NoSlave ELSE x.slave[r]]
      /\ y.rep = [r \in Replica |-> IF r \in R THEN Idle ELSE x.rep[r]]
  BY ZenonT(60), <1>2 DEF Whole, Shape
<1>4. Shape(y)
  BY ZenonT(60), <1>3 DEF Shape
<1>5. ASSUME NEW r \in Replica PROVE FitsIn(y, f, r)
  <2>1. CASE r \in R
    <3>1. y.slave[r] = NoSlave /\ y.rep[r] = Idle
      BY ZenonT(60), <1>3, <2>1
    <3>2. Fits(y.m.data, y.m.offset, Selected(y.m), f, NoSlave, Idle)
      BY NobodyFits
    <3> QED
      BY ZenonT(60), <3>1, <3>2 DEF FitsIn
  <2>2. CASE r \notin R
    BY ZenonT(60), <1>3, <2>2 DEF FitsIn, Whole
  <2> QED
    BY <2>1, <2>2
<1> QED
  BY ZenonT(60), <1>3, <1>4, <1>5 DEF Whole

\* The replicas R can wait for the file f, made at the offset start, with what
\* they have accumulated.
CanWait(x, f, R, start) ==
    /\ Shape(x) /\ ServerOK(x.m) /\ start \in Nat
    /\ \A r \in Replica : r \notin R => FitsIn(x, f, r)
    /\ \A r \in Replica : r \in R =>
           /\ SlaveShape(x.slave[r]) /\ Len(x.slave[r].buf) \in Nat
           /\ start + Len(x.slave[r].buf) = x.m.offset
           /\ Ready(x.m.data, Selected(x.m), f.data, f.db, x.slave[r].buf)

LEMMA SetupKeeps ==
    ASSUME NEW x, NEW f, NEW R, NEW start, CanWait(x, f, R, start),
           NEW y, y = replicationSetupSlaveForFullResync(x, R, start)
    PROVE  /\ Whole(y, f) /\ y.m.child = x.m.child
           /\ \A r \in Replica : r \notin R => y.slave[r].state = x.slave[r].state
<1>0. /\ Shape(x) /\ ServerOK(x.m) /\ start \in Nat
      /\ \A r \in Replica : r \notin R => FitsIn(x, f, r)
      /\ \A r \in Replica : r \in R =>
             /\ SlaveShape(x.slave[r]) /\ Len(x.slave[r].buf) \in Nat
             /\ start + Len(x.slave[r].buf) = x.m.offset
             /\ Ready(x.m.data, Selected(x.m), f.data, f.db, x.slave[r].buf)
  BY DEF CanWait
<1>. DEFINE sl == [r \in Replica |-> IF r \in R THEN [x.slave[r] EXCEPT !.state = "end", !.initial = start] ELSE x.slave[r]]
            rp == [r \in Replica |-> IF r \in R THEN [Idle EXCEPT !.state = "full", !.off = start] ELSE x.rep[r]]
<1>1. PICK e : e = IF R = {} THEN x.m.seldb ELSE -1
  OBVIOUS
<1>2. y = [x EXCEPT !.slave = sl, !.rep = rp, !.m = [x.m EXCEPT !.seldb = e]]
  BY ZenonT(60), <1>1 DEF replicationSetupSlaveForFullResync
<1>3. /\ y = [m |-> y.m, slave |-> y.slave, order |-> y.order, rep |-> y.rep]
      /\ y.m = [x.m EXCEPT !.seldb = e] /\ y.slave = sl /\ y.rep = rp
  <2>. HIDE DEF sl, rp
  <2> QED
    BY ZenonT(60), <1>0, <1>2 DEF Shape
<1>4. Shape(y)
  BY ZenonT(60), <1>3 DEF Shape
<1>5. /\ ServerShape(y.m) /\ y.m.data = x.m.data /\ y.m.offset = x.m.offset /\ y.m.db = x.m.db
      /\ y.m.seldb = e /\ y.m.child = x.m.child
  <2>. HIDE DEF sl, rp
  <2> QED
    BY ZenonT(60), <1>0, <1>3 DEF ServerOK, ServerShape
<1>6. ServerOK(y.m)
  <2>1. e \in Int
    BY <1>0, <1>1 DEF ServerOK
  <2> QED
    BY ZenonT(60), <1>0, <1>5, <2>1 DEF ServerOK
<1>7. Selected(y.m) = Selected(x.m) \/ Selected(y.m) = -1
  BY <1>1, <1>5 DEF Selected
<1>8. ASSUME NEW r \in Replica PROVE Fits(x.m.data, x.m.offset, Selected(x.m), f, y.slave[r], y.rep[r])
  <2>1. CASE r \in R
    <3>1. /\ y.slave[r] = [x.slave[r] EXCEPT !.state = "end", !.initial = start]
          /\ y.rep[r] = [Idle EXCEPT !.state = "full", !.off = start]
      BY ZenonT(60), <1>3, <2>1
    <3> QED
      BY ZenonT(200), <1>0, <2>1, <3>1, SetupFits
  <2>2. CASE r \notin R
    BY ZenonT(60), <1>0, <1>3, <2>2 DEF FitsIn
  <2> QED
    BY <2>1, <2>2
<1>9. ASSUME NEW r \in Replica PROVE FitsIn(y, f, r)
  BY ZenonT(60), <1>5, <1>7, <1>8, ForgetfulFits DEF FitsIn
<1>10. \A r \in Replica : r \notin R => y.slave[r].state = x.slave[r].state
  BY ZenonT(60), <1>3
<1> QED
  BY ZenonT(60), <1>1, <1>3, <1>4, <1>5, <1>6, <1>9, <1>10 DEF Whole

\* Everybody who waits for a save gets the file made now.
LEMMA SetupAllKeeps ==
    ASSUME SyncAssumption, NEW x, NEW f, Whole(x, f), \A r \in Replica : x.slave[r].state # "end",
           NEW g, g = Snapshot(x), NEW y, y = SetupAll(x)
    PROVE  Whole(y, g) /\ y.m.child = x.m.child
<1>1. PICK R : R = InState(x.slave, "start")
  OBVIOUS
<1>2. g.data = x.m.data /\ g.db = rdbPopulateSaveInfo(x)
  BY DEF Snapshot
<1>3. x.m.data \in Seq(Row) /\ x.m.offset \in Nat /\ x.m.seldb \in Int /\ x.m.db \in Nat
  BY DEF Whole, ServerOK
<1>4. Ready(x.m.data, Selected(x.m), g.data, g.db, <<>>)
  <2>1. g.db \in Int /\ Selected(x.m) \in Int /\ (Selected(x.m) # -1 => Selected(x.m) = g.db)
    BY <1>2, <1>3 DEF rdbPopulateSaveInfo, Selected
  <2> QED
    BY ZenonT(60), <1>2, <1>3, <2>1, FreshCopy
<1>5. ASSUME NEW r \in Replica, r \notin R PROVE FitsIn(x, g, r)
  BY ZenonT(60), OtherFileFits DEF Whole, FitsIn
<1>6. ASSUME NEW r \in Replica, r \in R
      PROVE  /\ SlaveShape(x.slave[r]) /\ Len(x.slave[r].buf) \in Nat
             /\ x.m.offset + Len(x.slave[r].buf) = x.m.offset
             /\ Ready(x.m.data, Selected(x.m), g.data, g.db, x.slave[r].buf)
  <2>1. x.slave[r].buf = <<>> /\ SlaveShape(x.slave[r])
    BY <1>1, <1>6 DEF InState, Whole, FitsIn, Fits
  <2> QED
    BY <1>3, <1>4, <2>1
<1>7. y = replicationSetupSlaveForFullResync(x, R, x.m.offset)
  BY <1>1 DEF SetupAll
<1>8. PICK start : start = x.m.offset
  OBVIOUS
<1>9. start \in Nat /\ y = replicationSetupSlaveForFullResync(x, R, start)
  BY <1>3, <1>7, <1>8
<1>10. \A r \in Replica : r \notin R => FitsIn(x, g, r)
  BY <1>5
<1>11. \A r \in Replica : r \in R =>
           /\ SlaveShape(x.slave[r]) /\ Len(x.slave[r].buf) \in Nat
           /\ start + Len(x.slave[r].buf) = x.m.offset
           /\ Ready(x.m.data, Selected(x.m), g.data, g.db, x.slave[r].buf)
  BY ZenonT(60), <1>6, <1>8
<1>12. Shape(x) /\ ServerOK(x.m)
  BY DEF Whole
<1>13. CanWait(x, g, R, start)
  BY ZenonT(60), <1>9, <1>10, <1>11, <1>12 DEF CanWait
<1>14. PICK z : z = replicationSetupSlaveForFullResync(x, R, start)
  OBVIOUS
<1>15. Whole(z, g) /\ z.m.child = x.m.child
  BY <1>13, <1>14, SetupKeeps
<1> QED
  BY ZenonT(60), <1>9, <1>14, <1>15

\* Only the child of the server is replaced.
WithChild(x, ch) == [x EXCEPT !.m.child = ch]

LEMMA ChildKeeps ==
    ASSUME NEW x, NEW f, Whole(x, f), NEW ch, NEW y, y = WithChild(x, ch)
    PROVE  Whole(y, f) /\ y.m.child = ch /\ y.slave = x.slave /\ Snapshot(y) = Snapshot(x)
<1>1. PICK c : c = [x.m EXCEPT !.child = ch]
  BY ZenonT(60)
<1>2. y = [x EXCEPT !.m = c]
  BY ZenonT(60), <1>1 DEF WithChild
<1>3. /\ y = [m |-> y.m, slave |-> y.slave, order |-> y.order, rep |-> y.rep]
      /\ y.m = c /\ y.slave = x.slave /\ y.rep = x.rep
  BY ZenonT(60), <1>2 DEF Whole, Shape
<1>4. /\ ServerShape(c) /\ c.data = x.m.data /\ c.offset = x.m.offset /\ c.db = x.m.db
      /\ c.seldb = x.m.seldb /\ c.child = ch
  BY ZenonT(60), <1>1 DEF Whole, ServerOK, ServerShape
<1>5. Shape(y)
  BY ZenonT(60), <1>3 DEF Whole, Shape
<1>6. ServerOK(y.m)
  BY ZenonT(60), <1>3, <1>4 DEF Whole, ServerOK
<1>7. \A r \in Replica : FitsIn(y, f, r)
  BY ZenonT(60), <1>3, <1>4 DEF Whole, FitsIn, Selected
<1>8. Snapshot(y) = Snapshot(x)
  BY ZenonT(60), <1>3, <1>4 DEF Snapshot, rdbPopulateSaveInfo
<1> QED
  BY ZenonT(60), <1>3, <1>4, <1>5, <1>6, <1>7, <1>8 DEF Whole

\* A save starts, or those who wait for it are dropped.
LEMMA StartKeeps ==
    ASSUME SyncAssumption, NEW x, SyncState(x), NEW eof, NEW ok,
           x.m.diskless /\ eof => InState(x.slave, "start") \subseteq Eof,
           NEW y, y = startBgsaveForReplication(x, eof, ok)
    PROVE  SyncState(y)
<1>1. PICK f : f = x.m.child.file
  OBVIOUS
<1>2. Whole(x, f) /\ ChildOK(x)
  BY <1>1 DEF SyncState
<1>3. CASE y = DropAll(x, InState(x.slave, "start"))
  <2>1. PICK R : R = InState(x.slave, "start")
    OBVIOUS
  <2>2. y = DropAll(x, R)
    BY <1>3, <2>1
  <2>3. /\ Whole(y, f) /\ y.m = x.m
        /\ \A r \in Replica : y.slave[r] = IF r \in R THEN NoSlave ELSE x.slave[r]
    BY <1>2, <2>2, DropKeeps
  <2>4. NoSlave.state # "end"
    BY DEF NoSlave
  <2>5. ASSUME NEW r \in Replica, x.slave[r].state # "end" PROVE y.slave[r].state # "end"
    BY <2>3, <2>4, <2>5
  <2>6. ChildOK(y)
    BY ZenonT(60), <1>2, <2>3, <2>5 DEF ChildOK
  <2> QED
    BY ZenonT(60), <1>1, <2>3, <2>6 DEF SyncState
<1>4. CASE x.m.child = NoChild /\ x.m.diskless /\ eof /\ y = rdbSaveToSlavesSockets(x)
  <2>1. \A r \in Replica : x.slave[r].state # "end"
    <3>1. x.m.child.type = "none"
      BY <1>4 DEF NoChild
    <3> QED
      BY ZenonT(60), <1>2, <3>1 DEF ChildOK
  <2>2. PICK z, g, ch : /\ z = SetupAll(x) /\ g = Snapshot(x)
                        /\ ch = [type |-> "socket", file |-> g, to |-> InState(x.slave, "start")]
    BY ZenonT(60)
  <2>3. Whole(z, g)
    BY <1>2, <2>1, <2>2, SetupAllKeeps
  <2>4. y = WithChild(z, ch)
    BY ZenonT(60), <1>4, <2>2 DEF rdbSaveToSlavesSockets, WithChild
  <2>5. Whole(y, g) /\ y.m.child = ch
    BY <2>3, <2>4, ChildKeeps
  <2>6. ch.type = "socket" /\ ch.file = g /\ ch.to \subseteq Eof
    BY <1>4, <2>2
  <2>7. ChildOK(y)
    BY <2>5, <2>6 DEF ChildOK
  <2> QED
    BY ZenonT(60), <2>5, <2>6, <2>7 DEF SyncState
<1>5. CASE x.m.child = NoChild /\ y = SetupAll(rdbSaveBackground(x))
  <2>1. \A r \in Replica : x.slave[r].state # "end"
    <3>1. x.m.child.type = "none"
      BY <1>5 DEF NoChild
    <3> QED
      BY ZenonT(60), <1>2, <3>1 DEF ChildOK
  <2>2. PICK z, g, ch : /\ z = rdbSaveBackground(x) /\ g = Snapshot(x) /\ ch = [type |-> "disk", file |-> g]
    BY ZenonT(60)
  <2>3. z = WithChild(x, ch)
    BY ZenonT(60), <2>2 DEF rdbSaveBackground, WithChild
  <2>4. Whole(z, f) /\ z.m.child = ch /\ z.slave = x.slave /\ g = Snapshot(z)
    BY <1>2, <2>2, <2>3, ChildKeeps
  <2>5. y = SetupAll(z) /\ \A r \in Replica : z.slave[r].state # "end"
    BY ZenonT(60), <1>5, <2>1, <2>2, <2>4
  <2>6. PICK v : v = SetupAll(z)
    OBVIOUS
  <2>7. Whole(v, g) /\ v.m.child = z.m.child
    BY <2>4, <2>5, <2>6, SetupAllKeeps
  <2>8. ch.type = "disk" /\ ch.file = g
    BY <2>2
  <2>9. ChildOK(v)
    BY <2>4, <2>7, <2>8 DEF ChildOK
  <2> QED
    BY ZenonT(60), <2>4, <2>5, <2>6, <2>7, <2>8, <2>9 DEF SyncState
<1> QED
  BY ZenonT(60), <1>3, <1>4, <1>5 DEF startBgsaveForReplication

\* A save has ended: nobody waits for its end any more.
LEMMA SaveEndedKeeps ==
    ASSUME NEW x, NEW f, Whole(x, f), NEW ok, NEW type, NEW y, y = SaveEnded(x, ok, type, f)
    PROVE  /\ y.m = x.m /\ \A g : Whole(y, g)
           /\ \A r \in Replica : y.slave[r].state # "end" /\ (y.slave[r].state = "start" <=> x.slave[r].state = "start")
<1>1. PICK R : R = InState(x.slave, "end")
  OBVIOUS
<1>2. \A r \in Replica : r \in R <=> x.slave[r].state = "end"
  BY <1>1 DEF InState
<1>3. \A r \in Replica : Fits(x.m.data, x.m.offset, Selected(x.m), f, x.slave[r], x.rep[r]) /\ SlaveShape(x.slave[r])
  BY ZenonT(60) DEF Whole, FitsIn, Fits
<1>4. ASSUME Shape(y), y.m = x.m,
             \A r \in Replica : y.slave[r].state # "end" /\ (y.slave[r].state = "start" <=> x.slave[r].state = "start"),
             \A r \in Replica : FitsIn(y, f, r)
      PROVE  /\ y.m = x.m /\ \A g : Whole(y, g)
             /\ \A r \in Replica : y.slave[r].state # "end" /\ (y.slave[r].state = "start" <=> x.slave[r].state = "start")
  <2>1. ASSUME NEW g, NEW r \in Replica PROVE FitsIn(y, g, r)
    BY ZenonT(60), <1>4, OtherFileFits DEF FitsIn
  <2> QED
    BY ZenonT(60), <1>4, <2>1 DEF Whole
<1>5. CASE type = "socket"
  <2>. DEFINE sl == [r \in Replica |-> IF r \in R THEN [x.slave[r] EXCEPT !.state = "online", !.onack = TRUE] ELSE x.slave[r]]
              rp == [r \in Replica |-> IF r \in R THEN Loaded(x.rep[r], f) ELSE x.rep[r]]
  <2>1. y = [x EXCEPT !.slave = sl, !.rep = rp]
    BY ZenonT(60), <1>1, <1>5 DEF SaveEnded
  <2>2. /\ y = [m |-> y.m, slave |-> y.slave, order |-> y.order, rep |-> y.rep]
        /\ y.m = x.m /\ y.slave = sl /\ y.rep = rp
    <3>. HIDE DEF sl, rp
    <3> QED
      BY ZenonT(60), <2>1 DEF Whole, Shape
  <2>3. Shape(y)
    BY ZenonT(60), <2>2 DEF Shape
  <2>4. ASSUME NEW r \in Replica, r \in R
        PROVE  FitsIn(y, f, r) /\ y.slave[r].state = "online"
    <3>1. y.slave[r] = [x.slave[r] EXCEPT !.state = "online", !.onack = TRUE] /\ y.rep[r] = Loaded(x.rep[r], f)
      BY ZenonT(60), <2>2, <2>4
    <3>2. PICK s, p, t, q : s = x.slave[r] /\ p = x.rep[r] /\ t = y.slave[r] /\ q = y.rep[r]
      OBVIOUS
    <3>3. t = [s EXCEPT !.state = "online", !.onack = TRUE] /\ q = Loaded(p, f) /\ s.state = "end" /\ SlaveShape(s)
      BY ZenonT(60), <1>2, <1>3, <2>4, <3>1, <3>2
    <3>4. SlaveShape(t) /\ t.state = "online" /\ t.buf = s.buf
      BY ZenonT(60), <3>3 DEF SlaveShape
    <3>5. Fits(x.m.data, x.m.offset, Selected(x.m), f, s, p)
      BY ZenonT(60), <1>3, <3>2
    <3>6. Fits(x.m.data, x.m.offset, Selected(x.m), f, t, q)
      BY ZenonT(60), <3>3, <3>4, <3>5, LoadedFits
    <3> QED
      BY ZenonT(60), <2>2, <3>2, <3>4, <3>6 DEF FitsIn
  <2>5. ASSUME NEW r \in Replica, r \notin R
        PROVE  FitsIn(y, f, r) /\ y.slave[r] = x.slave[r]
    BY ZenonT(60), <1>3, <2>2, <2>5 DEF FitsIn
  <2>6. ASSUME NEW r \in Replica
        PROVE  y.slave[r].state # "end" /\ (y.slave[r].state = "start" <=> x.slave[r].state = "start") /\ FitsIn(y, f, r)
    <3>1. CASE r \in R
      BY <1>2, <2>4, <3>1
    <3>2. CASE r \notin R
      BY <1>2, <2>5, <3>2
    <3> QED
      BY <3>1, <3>2
  <2> QED
    BY ZenonT(60), <1>4, <2>2, <2>3, <2>6
<1>6. CASE type # "socket" /\ ~ok
  <2>1. y = DropAll(x, R)
    BY ZenonT(60), <1>1, <1>6 DEF SaveEnded
  <2>2. /\ Whole(y, f) /\ y.m = x.m
        /\ \A r \in Replica : y.slave[r] = IF r \in R THEN NoSlave ELSE x.slave[r]
    BY <2>1, DropKeeps
  <2>3. NoSlave.state = "none"
    BY DEF NoSlave
  <2>4. ASSUME NEW r \in Replica
        PROVE  y.slave[r].state # "end" /\ (y.slave[r].state = "start" <=> x.slave[r].state = "start")
    BY ZenonT(60), <1>2, <2>2, <2>3
  <2> QED
    BY <1>4, <2>2, <2>4 DEF Whole
<1>7. CASE type # "socket" /\ ok
  <2>. DEFINE sl == [r \in Replica |-> IF r \in R THEN [x.slave[r] EXCEPT !.state = "bulk", !.file = f] ELSE x.slave[r]]
  <2>1. y = [x EXCEPT !.slave = sl]
    BY ZenonT(60), <1>1, <1>7 DEF SaveEnded
  <2>2. /\ y = [m |-> y.m, slave |-> y.slave, order |-> y.order, rep |-> y.rep]
        /\ y.m = x.m /\ y.slave = sl /\ y.rep = x.rep
    <3>. HIDE DEF sl
    <3> QED
      BY ZenonT(60), <2>1 DEF Whole, Shape
  <2>3. Shape(y)
    BY ZenonT(60), <2>2 DEF Whole, Shape
  <2>4. ASSUME NEW r \in Replica, r \in R
        PROVE  FitsIn(y, f, r) /\ y.slave[r].state = "bulk"
    <3>1. PICK s, p, t : s = x.slave[r] /\ p = x.rep[r] /\ t = y.slave[r]
      OBVIOUS
    <3>2. t = [s EXCEPT !.state = "bulk", !.file = f] /\ s.state = "end" /\ SlaveShape(s) /\ y.rep[r] = p
      BY ZenonT(60), <1>2, <1>3, <2>2, <2>4, <3>1
    <3>3. t.state = "bulk"
      BY ZenonT(60), <3>2 DEF SlaveShape
    <3>4. Fits(x.m.data, x.m.offset, Selected(x.m), f, s, p)
      BY ZenonT(60), <1>3, <3>1
    <3>5. Fits(x.m.data, x.m.offset, Selected(x.m), f, t, p)
      BY ZenonT(60), <3>2, <3>4, BulkFits
    <3> QED
      BY ZenonT(60), <2>2, <3>1, <3>2, <3>3, <3>5 DEF FitsIn
  <2>5. ASSUME NEW r \in Replica, r \notin R
        PROVE  FitsIn(y, f, r) /\ y.slave[r] = x.slave[r]
    BY ZenonT(60), <1>3, <2>2, <2>5 DEF FitsIn
  <2>6. ASSUME NEW r \in Replica
        PROVE  y.slave[r].state # "end" /\ (y.slave[r].state = "start" <=> x.slave[r].state = "start") /\ FitsIn(y, f, r)
    <3>1. CASE r \in R
      BY <1>2, <2>4, <3>1
    <3>2. CASE r \notin R
      BY <1>2, <2>5, <3>2
    <3> QED
      BY <3>1, <3>2
  <2> QED
    BY ZenonT(60), <1>4, <2>2, <2>3, <2>6
<1> QED
  BY <1>5, <1>6, <1>7

\* The end of a save, and the next one for those who came too late for it.
LEMMA UpdateKeeps ==
    ASSUME SyncAssumption, NEW x, NEW f, Whole(x, f), x.m.child = NoChild, NEW ok, NEW type, NEW again,
           NEW y, y = updateSlavesWaitingBgsave(x, ok, type, f, again)
    PROVE  SyncState(y)
<1>1. PICK v : v = SaveEnded(x, ok, type, f)
  OBVIOUS
<1>2. /\ v.m = x.m /\ \A g : Whole(v, g)
      /\ \A r \in Replica : v.slave[r].state # "end" /\ (v.slave[r].state = "start" <=> x.slave[r].state = "start")
  BY <1>1, SaveEndedKeeps
<1>3. v.m.child = NoChild /\ v.m.child.type = "none"
  BY <1>2 DEF NoChild
<1>4. SyncState(v)
  BY <1>2, <1>3 DEF SyncState, ChildOK
<1>5. InState(v.slave, "start") = InState(x.slave, "start")
  BY ZenonT(60), <1>2 DEF InState
<1>6. PICK w, eof : w = startBgsaveForReplication(v, eof, again) /\ eof = MinCapa(x.slave)
  OBVIOUS
<1>7. v.m.diskless /\ eof => InState(v.slave, "start") \subseteq Eof
  BY ZenonT(60), <1>5, <1>6 DEF MinCapa
<1>8. SyncState(w)
  BY <1>4, <1>6, <1>7, StartKeeps
<1>9. y = v \/ y = w
  BY ZenonT(60), <1>1, <1>6 DEF updateSlavesWaitingBgsave
<1> QED
  BY ZenonT(60), <1>4, <1>8, <1>9

LEMMA DiskDoneKeeps ==
    ASSUME SyncAssumption, NEW x, SyncState(x), NEW ok, NEW again,
           NEW y, y = backgroundSaveDoneHandlerDisk(x, ok, again)
    PROVE  SyncState(y)
<1>1. PICK f, z : f = x.m.child.file /\ z = WithChild(x, NoChild)
  OBVIOUS
<1>2. Whole(x, f)
  BY <1>1 DEF SyncState
<1>3. Whole(z, f) /\ z.m.child = NoChild
  BY <1>1, <1>2, ChildKeeps
<1>4. PICK v : v = updateSlavesWaitingBgsave(z, ok, "disk", f, again)
  OBVIOUS
<1>5. SyncState(v)
  BY <1>3, <1>4, UpdateKeeps
<1>6. y = v
  BY ZenonT(60), <1>1, <1>4 DEF backgroundSaveDoneHandlerDisk, WithChild
<1> QED
  BY <1>5, <1>6

LEMMA SocketDoneKeeps ==
    ASSUME SyncAssumption, NEW x, SyncState(x), NEW good, NEW again,
           NEW y, y = backgroundSaveDoneHandlerSocket(x, good, again)
    PROVE  SyncState(y)
<1>1. PICK f, z, bad : f = x.m.child.file /\ z = WithChild(x, NoChild)
                       /\ bad = {r \in Replica : x.slave[r].state = "end" /\ r \notin good}
  BY ZenonT(60)
<1>2. Whole(x, f)
  BY <1>1 DEF SyncState
<1>3. Whole(z, f) /\ z.m.child = NoChild
  BY <1>1, <1>2, ChildKeeps
<1>4. PICK u : u = DropAll(z, bad)
  OBVIOUS
<1>5. Whole(u, f) /\ u.m = z.m
  BY <1>3, <1>4, DropKeeps
<1>6. PICK some, v : some = (good # {}) /\ v = updateSlavesWaitingBgsave(u, some, "socket", f, again)
  OBVIOUS
<1>7. SyncState(v)
  BY <1>3, <1>5, <1>6, UpdateKeeps
<1>8. y = v
  BY ZenonT(60), <1>1, <1>4, <1>6 DEF backgroundSaveDoneHandlerSocket, WithChild
<1> QED
  BY <1>7, <1>8

\* A replica enters the list.
Newcomer(x, r) ==
    [x EXCEPT !.slave[r] = [NoSlave EXCEPT !.state = "start"], !.order = Append(@, r), !.rep[r].state = "wait"]

LEMMA NewcomerKeeps ==
    ASSUME NEW x, SyncState(x), NEW r \in Replica, x.slave[r] = NoSlave, x.rep[r] = Idle,
           NEW y, y = Newcomer(x, r)
    PROVE  /\ SyncState(y) /\ y.m = x.m /\ y.slave[r].state = "start"
           /\ \A q \in Replica \ {r} : y.slave[q] = x.slave[q]
<1>1. PICK f, s, p, o : /\ f = x.m.child.file /\ s = [NoSlave EXCEPT !.state = "start"]
                        /\ p = [Idle EXCEPT !.state = "wait"] /\ o = Append(x.order, r)
  BY ZenonT(60)
<1>2. Whole(x, f) /\ ChildOK(x)
  BY <1>1 DEF SyncState
<1>3. y = [x EXCEPT !.slave = [x.slave EXCEPT ![r] = s], !.order = o, !.rep = [x.rep EXCEPT ![r] = p]]
  BY ZenonT(60), <1>1 DEF Newcomer
<1>4. /\ y = [m |-> y.m, slave |-> y.slave, order |-> y.order, rep |-> y.rep] /\ y.m = x.m
      /\ y.slave = [x.slave EXCEPT ![r] = s] /\ y.rep = [x.rep EXCEPT ![r] = p]
  BY ZenonT(60), <1>2, <1>3 DEF Whole, Shape
<1>5. x.slave = [q \in Replica |-> x.slave[q]] /\ x.rep = [q \in Replica |-> x.rep[q]]
  BY <1>2 DEF Whole, Shape
<1>6. /\ y.slave = [q \in Replica |-> y.slave[q]] /\ y.rep = [q \in Replica |-> y.rep[q]]
      /\ y.slave[r] = s /\ y.rep[r] = p
      /\ \A q \in Replica \ {r} : y.slave[q] = x.slave[q] /\ y.rep[q] = x.rep[q]
  BY <1>4, <1>5
<1>7. Fits(x.m.data, x.m.offset, Selected(x.m), f, s, p) /\ s.state = "start"
  BY <1>1, NewcomerFits
<1>8. ASSUME NEW q \in Replica PROVE FitsIn(y, f, q) /\ (y.slave[q].state = "end" => x.slave[q].state = "end")
  <2>1. CASE q = r
    BY ZenonT(60), <1>4, <1>6, <1>7, <2>1 DEF FitsIn
  <2>2. CASE q # r
    BY ZenonT(60), <1>2, <1>4, <1>6, <2>2 DEF FitsIn, Whole
  <2> QED
    BY <2>1, <2>2
<1>9. Whole(y, f)
  BY ZenonT(60), <1>2, <1>4, <1>6, <1>8 DEF Whole, Shape
<1>10. ChildOK(y)
  BY ZenonT(60), <1>2, <1>4, <1>8 DEF ChildOK
<1> QED
  BY ZenonT(60), <1>1, <1>4, <1>6, <1>7, <1>9, <1>10 DEF SyncState

\* It joins a save that another replica waits for.
LEMMA AttachKeeps ==
    ASSUME NEW x, SyncState(x), x.m.child.type = "disk", NEW r \in Replica, x.slave[r].state = "start",
           NEW s \in Replica, x.slave[s].state = "end", NEW y, y = AttachTo(x, r, s)
    PROVE  SyncState(y)
<1>1. PICK f, b, start : f = x.m.child.file /\ b = x.slave[s].buf /\ start = x.slave[s].initial
  BY ZenonT(60)
<1>2. Whole(x, f) /\ Shape(x) /\ ServerOK(x.m) /\ r # s
  BY ZenonT(60), <1>1 DEF SyncState, Whole
<1>3. /\ x.rep[s].off \in Nat /\ Len(b) \in Nat /\ x.rep[s].off + Len(b) = x.m.offset
      /\ x.rep[s].off = start /\ Ready(x.m.data, Selected(x.m), f.data, f.db, b)
  BY <1>1, <1>2 DEF Whole, FitsIn, Fits
<1>4. PICK t : t = [x.slave[r] EXCEPT !.buf = b]
  BY ZenonT(60)
<1>5. SlaveShape(t) /\ t.buf = b
  <2>1. PICK o : o = x.slave[r]
    OBVIOUS
  <2>2. SlaveShape(o) /\ t = [o EXCEPT !.buf = b]
    BY ZenonT(60), <1>2, <1>4, <2>1 DEF Whole, FitsIn, Fits
  <2> QED
    BY ZenonT(60), <2>2 DEF SlaveShape
<1>6. PICK z : z = [x EXCEPT !.slave = [x.slave EXCEPT ![r] = t]]
  BY ZenonT(60)
<1>7. y = replicationSetupSlaveForFullResync(z, {r}, start)
  BY ZenonT(60), <1>1, <1>4, <1>6 DEF AttachTo
<1>8. /\ z = [m |-> z.m, slave |-> z.slave, order |-> z.order, rep |-> z.rep] /\ z.m = x.m
      /\ z.slave = [x.slave EXCEPT ![r] = t] /\ z.rep = x.rep
  BY ZenonT(60), <1>2, <1>6 DEF Shape
<1>9. /\ z.slave = [q \in Replica |-> z.slave[q]] /\ z.slave[r] = t
      /\ \A q \in Replica \ {r} : z.slave[q] = x.slave[q]
  BY <1>2, <1>8 DEF Shape
<1>10. Shape(z)
  BY ZenonT(60), <1>2, <1>8, <1>9 DEF Shape
<1>11. \A q \in Replica : q \notin {r} => FitsIn(z, f, q)
  BY ZenonT(60), <1>2, <1>8, <1>9 DEF FitsIn, Whole
<1>12. \A q \in Replica : q \in {r} =>
           /\ SlaveShape(z.slave[q]) /\ Len(z.slave[q].buf) \in Nat
           /\ start + Len(z.slave[q].buf) = z.m.offset
           /\ Ready(z.m.data, Selected(z.m), f.data, f.db, z.slave[q].buf)
  BY ZenonT(60), <1>3, <1>5, <1>8, <1>9
<1>13. CanWait(z, f, {r}, start)
  BY ZenonT(60), <1>2, <1>3, <1>8, <1>10, <1>11, <1>12 DEF CanWait
<1>14. PICK v, R : R = {r} /\ v = replicationSetupSlaveForFullResync(z, R, start)
  BY ZenonT(60)
<1>15. Whole(v, f) /\ v.m.child = z.m.child
  BY <1>13, <1>14, SetupKeeps
<1>16. ChildOK(v)
  BY <1>8, <1>15 DEF ChildOK
<1> QED
  BY ZenonT(60), <1>1, <1>7, <1>8, <1>14, <1>15, <1>16 DEF SyncState

LEMMA SyncCommandKeeps ==
    ASSUME SyncAssumption, NEW x, SyncState(x), NEW r \in Replica, x.slave[r] = NoSlave, x.rep[r] = Idle,
           NEW ok, NEW y, y = syncCommand(x, r, ok)
    PROVE  SyncState(y)
<1>1. PICK z : z = Newcomer(x, r)
  OBVIOUS
<1>2. SyncState(z) /\ z.slave[r].state = "start"
  BY <1>1, NewcomerKeeps
<1>. DEFINE joins == {s \in FirstBusy(z) : s \in Eof => r \in Eof}
<1>3. y = CASE z.m.child.type = "disk" -> IF joins # {} THEN AttachTo(z, r, CHOOSE s \in joins : TRUE) ELSE z
            [] z.m.child.type = "socket" -> z
            [] z.m.child = NoChild -> IF (z.m.diskless /\ r \in Eof) \/ z.m.aof THEN z
                                      ELSE startBgsaveForReplication(z, r \in Eof, ok)
  BY <1>1 DEF syncCommand, Newcomer
<1>4. CASE y = z
  BY <1>2, <1>4
<1>5. CASE z.m.child.type = "disk" /\ joins # {} /\ y = AttachTo(z, r, CHOOSE s \in joins : TRUE)
  <2>1. PICK s : s = CHOOSE t \in joins : TRUE
    OBVIOUS
  <2>2. s \in joins
    BY <1>5, <2>1
  <2>3. s \in Replica /\ z.slave[s].state = "end"
    BY <2>2 DEF FirstBusy, InState
  <2>4. PICK v : v = AttachTo(z, r, s)
    OBVIOUS
  <2>5. SyncState(v)
    BY <1>2, <1>5, <2>3, <2>4, AttachKeeps
  <2> QED
    BY ZenonT(60), <1>5, <2>1, <2>4, <2>5
<1>6. CASE ~(z.m.diskless /\ r \in Eof) /\ y = startBgsaveForReplication(z, r \in Eof, ok)
  <2>1. PICK eof, v : eof = (r \in Eof) /\ v = startBgsaveForReplication(z, eof, ok)
    OBVIOUS
  <2>2. ~(z.m.diskless /\ eof)
    BY ZenonT(60), <1>6, <2>1
  <2>3. SyncState(v)
    BY <1>2, <2>1, <2>2, StartKeeps
  <2> QED
    BY ZenonT(60), <1>6, <2>1, <2>3
<1>7. /\ z.m.child.type \in {"disk", "socket"} \/ (z.m.child.type = "none" /\ z.m.child = NoChild)
      /\ z.m.child = NoChild => z.m.child.type = "none"
  BY <1>2 DEF SyncState, ChildOK, NoChild
<1>. HIDE DEF joins
<1>8. CASE z.m.child.type = "disk"
  BY <1>3, <1>4, <1>5, <1>7, <1>8
<1>9. CASE z.m.child.type = "socket"
  BY <1>3, <1>4, <1>7, <1>9
<1>10. CASE z.m.child.type = "none" /\ z.m.child = NoChild
  BY <1>3, <1>4, <1>6, <1>10
<1> QED
  BY <1>7, <1>8, <1>9, <1>10

----------------------------------------------------------------------------
(* The stream                                                              *)

ServerIs(c, data, offset, seldb, db, child) ==
    /\ ServerShape(c) /\ c.data = data /\ c.offset = offset /\ c.seldb = seldb /\ c.db = db /\ c.child = child

WithServer(x, c) == [x EXCEPT !.m = c]

LEMMA ServerEdit ==
    ASSUME NEW x, Shape(x), NEW c, NEW y, y = WithServer(x, c)
    PROVE  Shape(y) /\ y.m = c /\ y.slave = x.slave /\ y.rep = x.rep
<1>1. /\ y = [m |-> y.m, slave |-> y.slave, order |-> y.order, rep |-> y.rep]
      /\ y.m = c /\ y.slave = x.slave /\ y.rep = x.rep
  BY ZenonT(60) DEF Shape, WithServer
<1> QED
  BY ZenonT(60), <1>1 DEF Shape

LEMMA FedKeepsState ==
    ASSUME NEW s, SlaveShape(s), NEW item
    PROVE  Fed(s, item).state = s.state /\ SlaveShape(Fed(s, item))
<1>1. PICK b : b = Append(s.buf, item)
  BY ZenonT(60)
<1>2. PICK t : t = [s EXCEPT !.buf = b]
  BY ZenonT(60)
<1>3. SlaveShape(t) /\ t.state = s.state
  BY ZenonT(60), <1>2 DEF SlaveShape
<1>4. Fed(s, item) = s \/ Fed(s, item) = t
  BY ZenonT(60), <1>1, <1>2 DEF Fed
<1> QED
  BY ZenonT(60), <1>3, <1>4

LEMMA FeedKeeps ==
    ASSUME NEW x, Shape(x), ServerShape(x.m), NEW item, NEW y, y = FeedItem(x, item)
    PROVE  /\ Shape(y) /\ ServerIs(y.m, x.m.data, x.m.offset + 1, x.m.seldb, x.m.db, x.m.child) /\ y.rep = x.rep
           /\ \A r \in Replica : y.slave[r] = Fed(x.slave[r], item)
<1>. DEFINE sl == [r \in Replica |-> Fed(x.slave[r], item)]
<1>1. PICK o1, c : o1 = x.m.offset + 1 /\ c = [x.m EXCEPT !.offset = o1]
  BY ZenonT(60)
<1>2. y = [x EXCEPT !.m = c, !.slave = sl]
  BY ZenonT(60), <1>1 DEF FeedItem
<1>3. /\ y = [m |-> y.m, slave |-> y.slave, order |-> y.order, rep |-> y.rep]
      /\ y.m = c /\ y.slave = sl /\ y.rep = x.rep
  <2>. HIDE DEF sl
  <2> QED
    BY ZenonT(60), <1>2 DEF Shape
<1>4. Shape(y)
  BY ZenonT(60), <1>3 DEF Shape
<1>5. ServerIs(c, x.m.data, o1, x.m.seldb, x.m.db, x.m.child)
  BY ZenonT(60), <1>1 DEF ServerIs, ServerShape
<1> QED
  BY ZenonT(60), <1>1, <1>3, <1>4, <1>5

\* The same child and the same states of the clients.
LEMMA StreamKeeps ==
    ASSUME NEW x, SyncState(x), NEW y, Shape(y), NEW a \in Seq(Row), NEW o \in Nat, NEW e \in Int, NEW d \in Nat,
           ServerIs(y.m, a, o, e, d, x.m.child),
           NEW cur, cur = IF Proxy THEN d ELSE e,
           \A r \in Replica : /\ y.slave[r].state = x.slave[r].state
                              /\ Fits(a, o, cur, x.m.child.file, y.slave[r], y.rep[r])
    PROVE  SyncState(y)
<1>1. ServerOK(y.m) /\ y.m.child = x.m.child
  BY ZenonT(60) DEF ServerIs, ServerOK
<1>2. Selected(y.m) = cur
  BY ZenonT(60) DEF Selected, ServerIs
<1>3. \A r \in Replica : FitsIn(y, x.m.child.file, r)
  BY ZenonT(60), <1>2 DEF FitsIn, ServerIs
<1>4. Whole(y, x.m.child.file)
  BY ZenonT(60), <1>1, <1>3 DEF Whole
<1>5. ChildOK(y)
  BY ZenonT(60), <1>1 DEF ChildOK, SyncState
<1> QED
  BY ZenonT(60), <1>1, <1>4, <1>5 DEF SyncState

LEMMA ServerIsItself ==
    ASSUME NEW x, SyncState(x)
    PROVE  /\ Shape(x) /\ x.m.data \in Seq(Row) /\ x.m.offset \in Nat /\ x.m.seldb \in Int /\ x.m.db \in Nat
           /\ ServerIs(x.m, x.m.data, x.m.offset, x.m.seldb, x.m.db, x.m.child)
           /\ \A r \in Replica : /\ SlaveShape(x.slave[r])
                                 /\ Fits(x.m.data, x.m.offset, Selected(x.m), x.m.child.file, x.slave[r], x.rep[r])
BY ZenonT(60) DEF SyncState, Whole, ServerOK, ServerIs, FitsIn, Fits

\* A replica that serves others passes a SELECT of its master on.
LEMMA SelectKeeps ==
    ASSUME SyncAssumption, Proxy, NEW x, SyncState(x), NEW d \in Db,
           NEW y, y = FeedItem([x EXCEPT !.m.db = d], <<"select", d>>)
    PROVE  SyncState(y)
<1>1. PICK a, o, e, ch, f : a = x.m.data /\ o = x.m.offset /\ e = x.m.seldb /\ ch = x.m.child /\ f = ch.file
  OBVIOUS
<1>2. /\ Shape(x) /\ a \in Seq(Row) /\ o \in Nat /\ e \in Int /\ x.m.db \in Nat
      /\ ServerIs(x.m, a, o, e, x.m.db, ch)
      /\ \A r \in Replica : SlaveShape(x.slave[r]) /\ Fits(a, o, Selected(x.m), f, x.slave[r], x.rep[r])
  BY ZenonT(60), <1>1, ServerIsItself
<1>3. PICK c, z, item : c = [x.m EXCEPT !.db = d] /\ z = WithServer(x, c) /\ item = <<"select", d>>
  BY ZenonT(60)
<1>4. ServerIs(c, a, o, e, d, ch)
  BY ZenonT(60), <1>2, <1>3 DEF ServerIs, ServerShape
<1>5. Shape(z) /\ z.m = c /\ z.slave = x.slave /\ z.rep = x.rep
  BY <1>2, <1>3, ServerEdit
<1>6. y = FeedItem(z, item)
  BY ZenonT(60), <1>3 DEF WithServer
<1>7. PICK v, o1 : v = FeedItem(z, item) /\ o1 = o + 1
  OBVIOUS
<1>8. /\ Shape(v) /\ ServerIs(v.m, a, o1, e, d, ch) /\ v.rep = z.rep
      /\ \A r \in Replica : v.slave[r] = Fed(z.slave[r], item)
  <2>1. ServerIs(z.m, a, o, e, d, ch)
    BY ZenonT(60), <1>4, <1>5
  <2>2. ServerShape(z.m)
    BY ZenonT(60), <2>1 DEF ServerIs
  <2>3. /\ Shape(v) /\ ServerIs(v.m, z.m.data, z.m.offset + 1, z.m.seldb, z.m.db, z.m.child) /\ v.rep = z.rep
        /\ \A r \in Replica : v.slave[r] = Fed(z.slave[r], item)
    BY <1>5, <1>7, <2>2, FeedKeeps
  <2> QED
    BY ZenonT(60), <1>7, <2>1, <2>3 DEF ServerIs
<1>9. d \in Nat /\ d \in Int
  BY DEF SyncAssumption
<1>10. ASSUME NEW r \in Replica
       PROVE  v.slave[r].state = x.slave[r].state /\ Fits(a, o1, d, f, v.slave[r], v.rep[r])
  <2>1. PICK s, p, t : s = x.slave[r] /\ p = x.rep[r] /\ t = v.slave[r]
    OBVIOUS
  <2>2. SlaveShape(s) /\ Fits(a, o, Selected(x.m), f, s, p) /\ t = Fed(s, item) /\ v.rep[r] = p
    BY ZenonT(60), <1>2, <1>5, <1>8, <2>1
  <2>3. t.state = s.state
    BY ZenonT(60), <2>2, FedKeepsState
  <2>4. Fits(a, o + 1, d, f, t, p)
    BY <1>2, <1>3, <1>9, <2>2, FedSelectFits
  <2> QED
    BY ZenonT(60), <1>7, <2>1, <2>2, <2>3, <2>4
<1>11. o1 \in Nat
  BY <1>2, <1>7
<1>12. SyncState(v)
  BY <1>1, <1>2, <1>8, <1>9, <1>10, <1>11, StreamKeeps
<1> QED
  BY <1>6, <1>7, <1>12

\* The server executes a write and feeds it to its replicas.
LEMMA WriteKeeps ==
    ASSUME SyncAssumption, NEW x, SyncState(x), NEW d \in Db, NEW w, w = Len(x.m.data) + 1,
           NEW z, z = [x EXCEPT !.m.data = Append(@, <<d, w>>)], NEW y,
           \/ Proxy /\ d = x.m.db /\ y = FeedItem(z, <<"write", w>>)
           \/ ~Proxy /\ y = replicationFeedSlaves(z, d, w)
    PROVE  SyncState(y)
<1>1. PICK a, o, e, b, ch, f : /\ a = x.m.data /\ o = x.m.offset /\ e = x.m.seldb /\ b = x.m.db
                               /\ ch = x.m.child /\ f = ch.file
  OBVIOUS
<1>2. /\ Shape(x) /\ a \in Seq(Row) /\ o \in Nat /\ e \in Int /\ b \in Nat
      /\ ServerIs(x.m, a, o, e, b, ch)
      /\ \A r \in Replica : SlaveShape(x.slave[r]) /\ Fits(a, o, Selected(x.m), f, x.slave[r], x.rep[r])
  BY ZenonT(60), <1>1, ServerIsItself
<1>3. PICK A, c, sel, wr : /\ A = Append(a, <<d, w>>) /\ c = [x.m EXCEPT !.data = A]
                           /\ sel = <<"select", d>> /\ wr = <<"write", w>>
  BY ZenonT(60)
<1>4. d \in Nat /\ d \in Int /\ d # -1 /\ w = Len(a) + 1 /\ w \in Nat
  BY <1>1, <1>2 DEF SyncAssumption
<1>5. A \in Seq(Row)
  BY <1>2, <1>3, <1>4 DEF Row
<1>6. ServerIs(c, A, o, e, b, ch)
  BY ZenonT(60), <1>2, <1>3 DEF ServerIs, ServerShape
<1>7. z = WithServer(x, c)
  BY ZenonT(60), <1>1, <1>3 DEF WithServer
<1>8. PICK u : u = WithServer(x, c)
  OBVIOUS
<1>9. Shape(u) /\ u.m = c /\ u.slave = x.slave /\ u.rep = x.rep
  BY <1>2, <1>8, ServerEdit
<1>10. PICK o1, o2 : o1 = o + 1 /\ o2 = o1 + 1
  OBVIOUS
<1>11. o1 \in Nat /\ o2 \in Nat
  BY <1>2, <1>10
\* The write is fed to clients that stand at the database d.
<1>12. ASSUME NEW v, NEW off \in Nat, NEW sd \in Int, Shape(v), ServerIs(v.m, A, off, sd, b, ch),
              d = IF Proxy THEN b ELSE sd,
              \A r \in Replica : /\ v.slave[r].state = x.slave[r].state /\ SlaveShape(v.slave[r])
                                 /\ Fits(a, off, d, f, v.slave[r], v.rep[r]),
              y = FeedItem(v, wr)
       PROVE  SyncState(y)
  <2>1. PICK t, off1 : t = FeedItem(v, wr) /\ off1 = off + 1
    OBVIOUS
  <2>2. /\ Shape(t) /\ ServerIs(t.m, A, off1, sd, b, ch) /\ t.rep = v.rep
        /\ \A r \in Replica : t.slave[r] = Fed(v.slave[r], wr)
    <3>1. ServerShape(v.m)
      BY ZenonT(60), <1>12 DEF ServerIs
    <3>2. /\ Shape(t) /\ ServerIs(t.m, v.m.data, v.m.offset + 1, v.m.seldb, v.m.db, v.m.child) /\ t.rep = v.rep
          /\ \A r \in Replica : t.slave[r] = Fed(v.slave[r], wr)
      BY <1>12, <2>1, <3>1, FeedKeeps
    <3> QED
      BY ZenonT(60), <1>12, <2>1, <3>2 DEF ServerIs
  <2>3. ASSUME NEW r \in Replica
        PROVE  t.slave[r].state = x.slave[r].state /\ Fits(A, off1, d, f, t.slave[r], t.rep[r])
    <3>1. PICK s, p, g : s = v.slave[r] /\ p = v.rep[r] /\ g = t.slave[r]
      OBVIOUS
    <3>2. SlaveShape(s) /\ Fits(a, off, d, f, s, p) /\ g = Fed(s, wr) /\ t.rep[r] = p
      BY ZenonT(60), <1>12, <2>2, <3>1
    <3>3. g.state = s.state
      BY ZenonT(60), <3>2, FedKeepsState
    <3>4. Fits(A, off + 1, d, f, g, p)
      BY <1>3, <1>4, <3>2, FedWriteFits
    <3> QED
      BY ZenonT(60), <1>12, <2>1, <3>1, <3>2, <3>3, <3>4
  <2>4. off1 \in Nat
    BY <2>1
  <2>5. SyncState(t)
    <3>1. ServerIs(t.m, A, off1, sd, b, x.m.child)
      BY ZenonT(60), <1>1, <2>2
    <3>2. \A r \in Replica : /\ t.slave[r].state = x.slave[r].state
                             /\ Fits(A, off1, d, x.m.child.file, t.slave[r], t.rep[r])
      BY ZenonT(60), <1>1, <2>3
    <3> QED
      BY ZenonT(60), <1>2, <1>5, <1>12, <2>2, <2>4, <3>1, <3>2, StreamKeeps
  <2> QED
    BY <1>12, <2>1, <2>5
<1>13. CASE Proxy
  <2>1. d = b /\ Selected(x.m) = d /\ y = FeedItem(u, wr)
    BY ZenonT(60), <1>1, <1>3, <1>7, <1>8, <1>13 DEF Selected
  <2>2. \A r \in Replica : /\ u.slave[r].state = x.slave[r].state /\ SlaveShape(u.slave[r])
                           /\ Fits(a, o, d, f, u.slave[r], u.rep[r])
    BY ZenonT(60), <1>2, <1>9, <2>1
  <2>3. ServerIs(u.m, A, o, e, b, ch)
    BY ZenonT(60), <1>6, <1>9
  <2> QED
    BY ZenonT(60), <1>2, <1>9, <1>12, <1>13, <2>1, <2>2, <2>3
<1>14. CASE ~Proxy
  <2>1. Selected(x.m) = e /\ y = replicationFeedSlaves(u, d, w) /\ u.m.seldb = e
    BY ZenonT(60), <1>1, <1>6, <1>7, <1>8, <1>9, <1>14 DEF Selected, ServerIs
  <2>2. CASE e = d
    <3>1. PICK c1, v : c1 = [u.m EXCEPT !.seldb = d] /\ v = WithServer(u, c1)
      BY ZenonT(60)
    <3>2. Shape(v) /\ v.m = c1 /\ v.slave = u.slave /\ v.rep = u.rep
      BY <1>9, <3>1, ServerEdit
    <3>3. ServerIs(c1, A, o, d, b, ch)
      BY ZenonT(60), <1>6, <1>9, <3>1 DEF ServerIs, ServerShape
    <3>4. y = FeedItem(v, wr)
      BY ZenonT(60), <1>3, <2>1, <2>2, <3>1 DEF replicationFeedSlaves, WithServer
    <3>5. \A r \in Replica : /\ v.slave[r].state = x.slave[r].state /\ SlaveShape(v.slave[r])
                             /\ Fits(a, o, d, f, v.slave[r], v.rep[r])
      BY ZenonT(60), <1>2, <1>9, <2>1, <2>2, <3>2
    <3>6. ServerIs(v.m, A, o, d, b, ch) /\ d = IF Proxy THEN b ELSE d
      BY ZenonT(60), <1>14, <3>2, <3>3
    <3> QED
      BY <1>2, <1>4, <1>12, <3>2, <3>4, <3>5, <3>6
  <2>3. CASE e # d
    <3>1. PICK t : t = FeedItem(u, sel)
      OBVIOUS
    <3>2. /\ Shape(t) /\ ServerIs(t.m, A, o1, e, b, ch) /\ t.rep = u.rep
          /\ \A r \in Replica : t.slave[r] = Fed(u.slave[r], sel)
      <4>1. ServerIs(u.m, A, o, e, b, ch)
        BY ZenonT(60), <1>6, <1>9
      <4>2. ServerShape(u.m)
        BY ZenonT(60), <4>1 DEF ServerIs
      <4>3. /\ Shape(t) /\ ServerIs(t.m, u.m.data, u.m.offset + 1, u.m.seldb, u.m.db, u.m.child) /\ t.rep = u.rep
            /\ \A r \in Replica : t.slave[r] = Fed(u.slave[r], sel)
        BY <1>9, <3>1, <4>2, FeedKeeps
      <4> QED
        BY ZenonT(60), <1>10, <4>1, <4>3 DEF ServerIs
    <3>3. PICK c1, v : c1 = [t.m EXCEPT !.seldb = d] /\ v = WithServer(t, c1)
      BY ZenonT(60)
    <3>4. Shape(v) /\ v.m = c1 /\ v.slave = t.slave /\ v.rep = t.rep
      BY <3>2, <3>3, ServerEdit
    <3>5. ServerIs(c1, A, o1, d, b, ch)
      <4>1. ServerIs(t.m, A, o1, e, b, ch)
        BY ZenonT(60), <1>10, <3>2
      <4> QED
        BY ZenonT(60), <3>3, <4>1 DEF ServerIs, ServerShape
    <3>6. y = FeedItem(v, wr)
      BY ZenonT(60), <1>3, <2>1, <2>3, <3>1, <3>3 DEF replicationFeedSlaves, WithServer
    <3>7. ASSUME NEW r \in Replica
          PROVE  /\ v.slave[r].state = x.slave[r].state /\ SlaveShape(v.slave[r])
                 /\ Fits(a, o1, d, f, v.slave[r], v.rep[r])
      <4>1. PICK s, p, g : s = x.slave[r] /\ p = x.rep[r] /\ g = v.slave[r]
        OBVIOUS
      <4>2. SlaveShape(s) /\ Fits(a, o, e, f, s, p) /\ g = Fed(s, sel) /\ v.rep[r] = p
        BY ZenonT(60), <1>2, <1>9, <2>1, <3>2, <3>4, <4>1
      <4>3. g.state = s.state /\ SlaveShape(g)
        BY ZenonT(60), <4>2, FedKeepsState
      <4>4. Fits(a, o + 1, d, f, g, p)
        BY <1>2, <1>3, <1>4, <4>2, FedSelectFits
      <4> QED
        BY ZenonT(60), <1>10, <4>1, <4>2, <4>3, <4>4
    <3>8. ServerIs(v.m, A, o1, d, b, ch) /\ d = IF Proxy THEN b ELSE d
      BY ZenonT(60), <1>14, <3>4, <3>5
    <3> QED
      BY <1>4, <1>11, <1>12, <3>4, <3>6, <3>7, <3>8
  <2> QED
    BY <2>2, <2>3
<1> QED
  BY <1>13, <1>14

----------------------------------------------------------------------------
(* The steps                                                               *)

\* One client and its replica change.
Changed(x, r, t, q) == [m |-> x.m, slave |-> [x.slave EXCEPT ![r] = t], order |-> x.order, rep |-> [x.rep EXCEPT ![r] = q]]

LEMMA ChangedKeeps ==
    ASSUME NEW x, SyncState(x), NEW r \in Replica, NEW t, NEW q, t.state # "end",
           Fits(x.m.data, x.m.offset, Selected(x.m), x.m.child.file, t, q), NEW y, y = Changed(x, r, t, q)
    PROVE  SyncState(y)
<1>1. /\ y = [m |-> y.m, slave |-> y.slave, order |-> y.order, rep |-> y.rep]
      /\ y.m = x.m /\ y.slave = [x.slave EXCEPT ![r] = t] /\ y.rep = [x.rep EXCEPT ![r] = q]
  BY ZenonT(60) DEF Changed
<1>2. /\ x.slave = [i \in Replica |-> x.slave[i]] /\ x.rep = [i \in Replica |-> x.rep[i]]
      /\ ServerOK(x.m) /\ \A i \in Replica : FitsIn(x, x.m.child.file, i)
  BY ZenonT(60) DEF SyncState, Whole, Shape
<1>3. /\ y.slave = [i \in Replica |-> IF i = r THEN t ELSE x.slave[i]]
      /\ y.rep = [i \in Replica |-> IF i = r THEN q ELSE x.rep[i]]
  BY <1>1, <1>2
<1>4. /\ \A i \in Replica : y.slave[i] = IF i = r THEN t ELSE x.slave[i]
      /\ \A i \in Replica : y.rep[i] = IF i = r THEN q ELSE x.rep[i]
  BY ZenonT(60), <1>3
<1>5. y.slave = [i \in Replica |-> y.slave[i]] /\ y.rep = [i \in Replica |-> y.rep[i]]
  BY <1>3
<1>6. Shape(y)
  BY ZenonT(60), <1>1, <1>5 DEF Shape
<1>7. \A i \in Replica : FitsIn(y, x.m.child.file, i)
  BY ZenonT(60), <1>1, <1>2, <1>4 DEF FitsIn
<1>8. Whole(y, y.m.child.file)
  BY ZenonT(60), <1>1, <1>2, <1>6, <1>7 DEF Whole
<1>9. ChildOK(y)
  <2>1. ChildOK(x)
    BY ZenonT(60) DEF SyncState
  <2>2. \A i \in Replica : x.slave[i].state # "end" => y.slave[i].state # "end"
    BY <1>4
  <2> QED
    BY <1>1, <2>1, <2>2 DEF ChildOK
<1> QED
  BY ZenonT(60), <1>8, <1>9 DEF SyncState

\* Only the configuration, or the rewrite of the AOF, changes.
LEMMA SettingKeeps ==
    ASSUME NEW x, SyncState(x), NEW c, ServerIs(c, x.m.data, x.m.offset, x.m.seldb, x.m.db, x.m.child),
           NEW y, y = WithServer(x, c)
    PROVE  SyncState(y)
<1>1. /\ Shape(x) /\ x.m.data \in Seq(Row) /\ x.m.offset \in Nat /\ x.m.seldb \in Int /\ x.m.db \in Nat
      /\ \A r \in Replica : Fits(x.m.data, x.m.offset, Selected(x.m), x.m.child.file, x.slave[r], x.rep[r])
  BY ZenonT(60), ServerIsItself
<1>2. Shape(y) /\ y.m = c /\ y.slave = x.slave /\ y.rep = x.rep
  BY <1>1, ServerEdit
<1>3. PICK cur : cur = IF Proxy THEN x.m.db ELSE x.m.seldb
  OBVIOUS
<1>4. \A r \in Replica : /\ y.slave[r].state = x.slave[r].state
                         /\ Fits(x.m.data, x.m.offset, cur, x.m.child.file, y.slave[r], y.rep[r])
  BY ZenonT(60), <1>1, <1>2, <1>3 DEF Selected
<1>5. ServerIs(y.m, x.m.data, x.m.offset, x.m.seldb, x.m.db, x.m.child)
  BY ZenonT(60), <1>2
<1> QED
  BY ZenonT(60), <1>1, <1>2, <1>3, <1>4, <1>5, StreamKeeps

LEMMA BecomesKeeps ==
    ASSUME NEW y, SyncState(y), Becomes(y)
    PROVE  SyncInv'
<1>1. y = [m |-> y.m, slave |-> y.slave, order |-> y.order, rep |-> y.rep]
  BY ZenonT(60) DEF SyncState, Whole, Shape
<1>2. Current' = y
  BY <1>1 DEF Current, Becomes
<1> QED
  BY <1>2 DEF SyncInv

LEMMA CurrentIs == Current.m = m /\ Current.slave = slave /\ Current.order = order /\ Current.rep = rep
BY ZenonT(60) DEF Current

LEMMA WriteStep ==
    ASSUME SyncAssumption, SyncInv, NEW d \in Db, Write(d)
    PROVE  SyncInv'
<1>1. PICK x, w, z : x = Current /\ w = Len(m.data) + 1 /\ z = [x EXCEPT !.m.data = Append(@, <<d, w>>)]
  BY ZenonT(60)
<1>2. SyncState(x) /\ w = Len(x.m.data) + 1 /\ x.m = m
  BY <1>1, CurrentIs DEF SyncInv
<1>3. CASE Proxy
  <2>1. PICK y : y = FeedItem(z, <<"write", w>>)
    OBVIOUS
  <2>2. d = m.db /\ Becomes(y)
    BY ZenonT(60), <1>1, <1>3, <2>1 DEF Write
  <2>3. d = x.m.db
    BY <1>2, <2>2
  <2>4. SyncState(y)
    BY ZenonT(60), <1>1, <1>2, <1>3, <2>1, <2>3, WriteKeeps
  <2> QED
    BY <2>2, <2>4, BecomesKeeps
<1>4. CASE ~Proxy
  <2>1. PICK y : y = replicationFeedSlaves(z, d, w)
    OBVIOUS
  <2>2. Becomes(y)
    BY ZenonT(60), <1>1, <1>4, <2>1 DEF Write
  <2>3. SyncState(y)
    BY ZenonT(60), <1>1, <1>2, <1>4, <2>1, WriteKeeps
  <2> QED
    BY <2>2, <2>3, BecomesKeeps
<1> QED
  BY <1>3, <1>4

LEMMA SelectStep ==
    ASSUME SyncAssumption, SyncInv, NEW d \in Db, Select(d)
    PROVE  SyncInv'
<1>1. PICK x, y : x = Current /\ y = FeedItem([x EXCEPT !.m.db = d], <<"select", d>>)
  OBVIOUS
<1>2. SyncState(x) /\ Proxy /\ Becomes(y)
  BY ZenonT(60), <1>1 DEF SyncInv, Select
<1>3. SyncState(y)
  BY <1>1, <1>2, SelectKeeps
<1> QED
  BY <1>2, <1>3, BecomesKeeps

LEMMA PsyncStep ==
    ASSUME SyncAssumption, SyncInv, NEW r \in Replica, Psync(r)
    PROVE  SyncInv'
<1>1. PICK x : x = Current
  OBVIOUS
<1>2. PICK ok \in BOOLEAN : Becomes(syncCommand(x, r, ok))
  BY ZenonT(60), <1>1 DEF Psync
<1>3. PICK y : y = syncCommand(x, r, ok)
  OBVIOUS
<1>4. SyncState(x) /\ x.slave[r] = NoSlave /\ x.rep[r] = Idle
  BY <1>1, CurrentIs DEF SyncInv, Psync
<1>5. SyncState(y)
  BY <1>3, <1>4, SyncCommandKeeps
<1> QED
  BY <1>2, <1>3, <1>5, BecomesKeeps

LEMMA LoseStep ==
    ASSUME SyncInv, NEW r \in Replica, Lose(r)
    PROVE  SyncInv'
<1>1. PICK x, f, R, y : x = Current /\ f = x.m.child.file /\ R = {r} /\ y = DropAll(x, R)
  BY ZenonT(60)
<1>2. Whole(x, f) /\ ChildOK(x) /\ Becomes(y)
  BY ZenonT(60), <1>1 DEF SyncInv, SyncState, Lose
<1>3. /\ Whole(y, f) /\ y.m = x.m
      /\ \A i \in Replica : y.slave[i] = IF i \in R THEN NoSlave ELSE x.slave[i]
  BY <1>1, <1>2, DropKeeps
<1>4. NoSlave.state # "end"
  BY DEF NoSlave
<1>5. ChildOK(y)
  <2>1. \A i \in Replica : x.slave[i].state # "end" => y.slave[i].state # "end"
    BY <1>3, <1>4
  <2> QED
    BY <1>2, <1>3, <2>1 DEF ChildOK
<1>6. SyncState(y)
  BY ZenonT(60), <1>1, <1>3, <1>5 DEF SyncState
<1> QED
  BY <1>2, <1>6, BecomesKeeps

LEMMA BgsaveStep ==
    ASSUME SyncInv, Bgsave
    PROVE  SyncInv'
<1>1. PICK x, f, g, ch, y : /\ x = Current /\ f = x.m.child.file /\ g = Snapshot(x)
                            /\ ch = [type |-> "disk", file |-> g] /\ y = WithChild(x, ch)
  BY ZenonT(60)
<1>2. Whole(x, f) /\ ChildOK(x) /\ Becomes(y)
  BY ZenonT(60), <1>1 DEF SyncInv, SyncState, Bgsave, rdbSaveBackground, WithChild
<1>3. x.m.child.type = "none"
  BY <1>1, CurrentIs DEF Bgsave, NoChild
<1>4. Whole(y, f) /\ y.m.child = ch /\ y.slave = x.slave
  BY <1>1, <1>2, ChildKeeps
<1>5. \A r \in Replica : FitsIn(y, g, r)
  <2>1. ASSUME NEW r \in Replica PROVE FitsIn(y, g, r)
    <3>1. FitsIn(y, f, r) /\ y.slave[r].state # "end"
      BY ZenonT(60), <1>2, <1>3, <1>4 DEF ChildOK, Whole
    <3> QED
      BY <3>1, OtherFileFits DEF FitsIn
  <2> QED
    BY ZenonT(60), <2>1
<1>6. ch.type = "disk" /\ ch.file = g
  BY <1>1
<1>7. Whole(y, y.m.child.file) /\ ChildOK(y)
  BY <1>4, <1>5, <1>6 DEF Whole, ChildOK
<1> QED
  BY <1>2, <1>7, BecomesKeeps DEF SyncState

LEMMA SettingStep ==
    ASSUME SyncInv, RewriteAof \/ RewriteEnds \/ ConfigSet
    PROVE  SyncInv'
<1>1. PICK x, y : x = Current /\ y = WithServer(x, m')
  OBVIOUS
<1>2. SyncState(x) /\ x.m = m
  BY <1>1, CurrentIs DEF SyncInv
<1>3. ServerIs(m, m.data, m.offset, m.seldb, m.db, m.child)
  BY ZenonT(60), <1>2, ServerIsItself
<1>4. PICK a, b : m' = [m EXCEPT !.aof = a] \/ m' = [m EXCEPT !.diskless = b]
  BY ZenonT(60) DEF RewriteAof, RewriteEnds, ConfigSet
<1>5. ServerIs(m', m.data, m.offset, m.seldb, m.db, m.child)
  BY ZenonT(60), <1>3, <1>4 DEF ServerIs, ServerShape
<1>6. PICK c : c = m'
  OBVIOUS
<1>7. SyncState(y)
  BY <1>1, <1>2, <1>5, <1>6, SettingKeeps
<1>8. y = Current'
  <2>1. slave' = slave /\ order' = order /\ rep' = rep
    BY ZenonT(60) DEF RewriteAof, RewriteEnds, ConfigSet
  <2> QED
    BY ZenonT(60), <1>1, <2>1 DEF Current, WithServer
<1> QED
  BY <1>7, <1>8 DEF SyncInv

LEMMA ChildStep ==
    ASSUME SyncAssumption, SyncInv, DiskChildEnds \/ SocketChildEnds
    PROVE  SyncInv'
<1>1. PICK x : x = Current
  OBVIOUS
<1>2. SyncState(x)
  BY <1>1 DEF SyncInv
<1>3. CASE DiskChildEnds
  <2>1. PICK ok \in BOOLEAN : Becomes(backgroundSaveDoneHandlerDisk(x, ok, TRUE))
    BY ZenonT(60), <1>1, <1>3 DEF DiskChildEnds
  <2>2. PICK y : y = backgroundSaveDoneHandlerDisk(x, ok, TRUE)
    BY ZenonT(60)
  <2>3. SyncState(y)
    BY ZenonT(60), <1>2, <2>2, DiskDoneKeeps
  <2> QED
    BY ZenonT(60), <2>1, <2>2, <2>3, BecomesKeeps
<1>4. CASE SocketChildEnds
  <2>1. PICK good : Becomes(backgroundSaveDoneHandlerSocket(x, good, TRUE))
    BY ZenonT(60), <1>1, <1>4 DEF SocketChildEnds
  <2>2. PICK y : y = backgroundSaveDoneHandlerSocket(x, good, TRUE)
    OBVIOUS
  <2>3. SyncState(y)
    BY <1>2, <2>2, SocketDoneKeeps
  <2> QED
    BY <2>1, <2>2, <2>3, BecomesKeeps
<1> QED
  BY <1>3, <1>4

LEMMA CronStep ==
    ASSUME SyncAssumption, SyncInv, replicationCron
    PROVE  SyncInv'
<1>1. PICK x, eof, ok, y : x = Current /\ eof = MinCapa(x.slave) /\ ok = TRUE /\ y = startBgsaveForReplication(x, eof, ok)
  OBVIOUS
<1>2. SyncState(x) /\ x.slave = slave
  BY <1>1, CurrentIs DEF SyncInv
<1>3. Becomes(y)
  BY ZenonT(60), <1>1, <1>2 DEF replicationCron
<1>4. eof => InState(x.slave, "start") \subseteq Eof
  BY ZenonT(60), <1>1 DEF MinCapa
<1>5. SyncState(y)
  BY ZenonT(60), <1>1, <1>2, <1>4, StartKeeps
<1> QED
  BY <1>3, <1>5, BecomesKeeps

\* The file has been sent, an acknowledgement comes, an item is read.
LEMMA ReadsStep ==
    ASSUME SyncInv, NEW r \in Replica, Reads(r)
    PROVE  SyncInv'
<1>1. PICK x, s, p, f : x = Current /\ s = slave[r] /\ p = rep[r] /\ f = x.m.child.file
  OBVIOUS
<1>2. SyncState(x) /\ x.m = m /\ x.slave = slave /\ x.rep = rep
  BY <1>1, CurrentIs DEF SyncInv
<1>3. Fits(x.m.data, x.m.offset, Selected(x.m), f, s, p)
  BY ZenonT(60), <1>1, <1>2, ServerIsItself
<1>4. SlaveShape(s)
  BY ZenonT(60), <1>3 DEF Fits
<1>5. m' = m /\ order' = order
  BY ZenonT(60) DEF Reads, sendBulkToSlave, Ack, Deliver
<1>6. SUFFICES ASSUME NEW t, NEW q, slave' = [slave EXCEPT ![r] = t], rep' = [rep EXCEPT ![r] = q], t.state # "end",
                      Fits(x.m.data, x.m.offset, Selected(x.m), f, t, q)
               PROVE  SyncInv'
  <2>1. CASE sendBulkToSlave(r)
    <3>1. PICK file, t, q : file = NoSlave.file /\ t = [s EXCEPT !.state = "online", !.file = file] /\ q = Loaded(p, s.file)
      BY ZenonT(60)
    <3>2. SlaveShape(t) /\ t.state = "online" /\ t.buf = s.buf /\ s.state = "bulk"
      BY ZenonT(60), <1>1, <1>4, <2>1, <3>1 DEF SlaveShape, sendBulkToSlave
    <3>3. q = Loaded(p, IF s.state = "end" THEN f ELSE s.file)
      BY <3>1, <3>2
    <3>4. Fits(x.m.data, x.m.offset, Selected(x.m), f, t, q)
      BY <1>3, <3>2, <3>3, LoadedFits
    <3>5. slave' = [slave EXCEPT ![r] = t] /\ rep' = [rep EXCEPT ![r] = q]
      BY ZenonT(60), <1>1, <2>1, <3>1 DEF sendBulkToSlave
    <3> QED
      BY ZenonT(60), <1>6, <3>2, <3>4, <3>5
  <2>2. CASE Ack(r)
    <3>1. PICK t : t = [s EXCEPT !.onack = FALSE]
      BY ZenonT(60)
    <3>2. SlaveShape(t) /\ t.state = s.state /\ t.buf = s.buf /\ s.state = "online" /\ t.initial = s.initial /\ t.file = s.file
      BY ZenonT(60), <1>1, <1>4, <2>2, <3>1 DEF SlaveShape, Ack
    <3>3. Fits(x.m.data, x.m.offset, Selected(x.m), f, t, p)
      BY ZenonT(60), <1>3, <3>2 DEF Fits
    <3>4. slave' = [slave EXCEPT ![r] = t]
      BY ZenonT(60), <1>1, <2>2, <3>1 DEF Ack
    <3>5. rep' = [rep EXCEPT ![r] = p]
      <4>1. rep' = rep
        BY ZenonT(60), <2>2 DEF Ack
      <4>2. rep = [i \in Replica |-> rep[i]]
        BY ZenonT(60), <1>2 DEF SyncState, Whole, Shape
      <4> QED
        BY <1>1, <4>1, <4>2
    <3>6. t.state # "end"
      BY <3>2
    <3> QED
      BY ZenonT(60), <1>6, <3>3, <3>4, <3>5, <3>6
  <2>3. CASE Deliver(r)
    <3>1. PICK t, q : t = [s EXCEPT !.buf = Tail(@)] /\ q = Apply(p, Head(s.buf))
      BY ZenonT(60)
    <3>2. s.state = "online" /\ s.buf # <<>>
      BY ZenonT(60), <1>1, <2>3 DEF Deliver
    <3>3. Fits(x.m.data, x.m.offset, Selected(x.m), f, t, q)
      BY <1>3, <3>1, <3>2, ReaderFits
    <3>4. slave' = [slave EXCEPT ![r] = t] /\ rep' = [rep EXCEPT ![r] = q]
      BY ZenonT(60), <1>1, <2>3, <3>1 DEF Deliver
    <3>5. t.state = "online"
      BY ZenonT(60), <1>4, <3>1, <3>2 DEF SlaveShape
    <3>6. t.state # "end"
      BY <3>5
    <3> QED
      BY ZenonT(60), <1>6, <3>3, <3>4, <3>6
  <2> QED
    BY <2>1, <2>2, <2>3 DEF Reads
<1>7. PICK y : y = Changed(x, r, t, q)
  BY ZenonT(60)
<1>8. SyncState(y)
  BY <1>1, <1>2, <1>6, <1>7, ChangedKeeps
<1>9. Current' = y
  BY ZenonT(60), <1>1, <1>2, <1>5, <1>6, <1>7 DEF Changed, Current
<1> QED
  BY <1>8, <1>9 DEF SyncInv

LEMMA SyncStep ==
    ASSUME SyncAssumption, SyncInv, [Next]_vars
    PROVE  SyncInv'
<1>1. CASE UNCHANGED vars
  BY <1>1 DEF vars, SyncInv, Current
<1>2. ASSUME NEW d \in Db, Write(d) PROVE SyncInv'
  BY <1>2, WriteStep
<1>3. ASSUME NEW d \in Db, Select(d) PROVE SyncInv'
  BY <1>3, SelectStep
<1>4. ASSUME NEW r \in Replica, Psync(r) PROVE SyncInv'
  BY <1>4, PsyncStep
<1>5. ASSUME NEW r \in Replica, Lose(r) PROVE SyncInv'
  BY <1>5, LoseStep
<1>6. ASSUME NEW r \in Replica, Reads(r) PROVE SyncInv'
  BY <1>6, ReadsStep
<1>7. CASE Bgsave
  BY <1>7, BgsaveStep
<1>8. CASE RewriteAof \/ RewriteEnds \/ ConfigSet
  BY <1>8, SettingStep
<1>9. CASE DiskChildEnds \/ SocketChildEnds
  BY <1>9, ChildStep
<1>10. CASE replicationCron
  BY <1>10, CronStep
<1> QED
  BY <1>1, <1>2, <1>3, <1>4, <1>5, <1>6, <1>7, <1>8, <1>9, <1>10 DEF Next, Work, Ends

LEMMA SyncInit ==
    ASSUME Init
    PROVE  SyncInv
<1>1. PICK x : x = Current
  OBVIOUS
<1>2. x.m = m /\ x.slave = slave /\ x.rep = rep /\ x.order = order
  BY <1>1, CurrentIs
<1>3. /\ slave = [r \in Replica |-> NoSlave] /\ rep = [r \in Replica |-> Idle]
  BY DEF Init
<1>4. \A r \in Replica : slave[r] = NoSlave /\ rep[r] = Idle
  BY ZenonT(60), <1>3
<1>5. Shape(x)
  <2>1. slave = [r \in Replica |-> slave[r]] /\ rep = [r \in Replica |-> rep[r]]
    BY <1>3
  <2>2. x = [m |-> x.m, slave |-> x.slave, order |-> x.order, rep |-> x.rep]
    BY ZenonT(60), <1>1, <1>2 DEF Current
  <2> QED
    BY ZenonT(60), <1>2, <2>1, <2>2 DEF Shape
<1>6. /\ m.data = <<>> /\ m.offset = 0 /\ m.seldb = -1 /\ m.db = 0 /\ m.child = NoChild /\ ServerShape(m)
  BY ZenonT(60) DEF Init, ServerShape
<1>7. ServerOK(x.m)
  BY <1>2, <1>6 DEF ServerOK
<1>8. \A r \in Replica : FitsIn(x, x.m.child.file, r)
  BY ZenonT(60), <1>2, <1>4, NobodyFits DEF FitsIn
<1>9. ChildOK(x)
  <2>1. NoChild.type = "none" /\ NoSlave.state # "end"
    BY DEF NoChild, NoSlave
  <2> QED
    BY <1>2, <1>4, <1>6, <2>1 DEF ChildOK
<1> QED
  BY ZenonT(60), <1>1, <1>5, <1>7, <1>8, <1>9 DEF SyncInv, SyncState, Whole

LEMMA SyncHolds ==
    ASSUME SyncAssumption
    PROVE  Spec => []SyncInv
<1>1. Init => SyncInv
  BY SyncInit
<1>2. SyncInv /\ [Next]_vars => SyncInv'
  BY SyncStep
<1> QED
  BY <1>1, <1>2, PTL DEF Spec

LEMMA SyncGives ==
    ASSUME SyncInv
    PROVE  ReplicaIsComplete /\ OffsetIsRight /\ StreamIsUnderstood
<1>1. PICK x : x = Current
  OBVIOUS
<1>2. SyncState(x) /\ x.m = m /\ x.slave = slave /\ x.rep = rep
  BY <1>1, CurrentIs DEF SyncInv
<1>3. \A r \in Replica : Fits(m.data, m.offset, Selected(m), m.child.file, slave[r], rep[r])
  BY ZenonT(60), <1>2, ServerIsItself
<1>4. ASSUME NEW r \in Replica, rep[r].state = "loaded"
      PROVE  rep[r].data = SubSeq(m.data, 1, Len(rep[r].data)) /\ (slave[r].buf = <<>> => rep[r].data = m.data)
  <2>1. Ready(m.data, Selected(m), rep[r].data, rep[r].db, slave[r].buf)
    BY ZenonT(60), <1>3, <1>4 DEF Fits
  <2> QED
    BY <2>1, NothingToRead
<1>5. OffsetIsRight
  BY ZenonT(60), <1>3 DEF Fits, OffsetIsRight
<1>6. StreamIsUnderstood
  BY ZenonT(60), <1>2 DEF SyncState, ChildOK, StreamIsUnderstood
<1> QED
  BY <1>4, <1>5, <1>6 DEF ReplicaIsComplete

----------------------------------------------------------------------------
\* Whenever a replica has loaded the file of a full resynchronisation, its data
\* are a beginning of the server's and, once it has read what the server keeps
\* for it, all of them: the file of startBgsaveForReplication, and the output
\* buffer that starts with it or is copied from another replica's by
\* syncCommand, fit together, databases included.
THEOREM CopiesAreComplete ==
    ASSUME SyncAssumption
    PROVE  Spec => []ReplicaIsComplete
BY SyncHolds, SyncGives, PTL

\* The offset sent with +FULLRESYNC and what waits in the output buffer always
\* add up to master_repl_offset, so that the replica asks for the right bytes
\* when it comes back.
THEOREM OffsetsAreRight ==
    ASSUME SyncAssumption
    PROVE  Spec => []OffsetIsRight
BY SyncHolds, SyncGives, PTL

\* A file is streamed through the sockets only to replicas with the EOF
\* capability, whether syncCommand, replicationCron or the end of another save
\* started it.
THEOREM StreamsAreUnderstood ==
    ASSUME SyncAssumption
    PROVE  Spec => []StreamIsUnderstood
BY SyncHolds, SyncGives, PTL
=============================================================================
