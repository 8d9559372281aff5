------------------------------ MODULE LogProofs ------------------------------
(***************************************************************************)
(* Proofs about Log, for any size of the area and any lengths of messages: *)
(* the pointers of the ring always lead through the records in order of    *)
(* arrival, no record is overwritten, and so the area is the first-in      *)
(* first-out queue of LogFifo.                                             *)
(***************************************************************************)
EXTENDS Log, SequenceTheorems, TLAPS

Records == [m : Messages, at : Addrs]
Cells   == [m : Messages \cup {NoMsg}, next : 0..AreaSize]

LogTypeOK ==
  /\ la \in [head : Addrs, tail : Addrs, empty : BOOLEAN]
  /\ q \in Seq(Records) /\ mem \in [Addrs -> Cells] /\ n \in 0..MaxMsgs

End(r) == r.at + r.m.len

\* A record does not leave the area, and one that was written after the area
\* has wrapped around ends before the head h.
Fits(r, h) == End(r) <= AreaSize /\ (r.at < h => End(r) < h)

\* Record r was written before record s: it lies before it, unless the area
\* has wrapped around in between.
Before(r, s, h) ==
  \/ s.at < h /\ h <= r.at
  \/ End(r) <= s.at /\ (h <= r.at \/ s.at < h)

\* The records of s lie in the ring one behind the other.
Ring(s, h) ==
  /\ \A k \in 1..Len(s) : Fits(s[k], h)
  /\ \A i, j \in 1..Len(s) : i < j => Before(s[i], s[j], h)

LogInv == LogTypeOK /\ Ring(q, la.head) /\ LogChain
-----------------------------------------------------------------------------
(***************************************************************************)
(* Records in a ring                                                       *)
(***************************************************************************)
\* What is known of addresses and lengths.
LEMMA RecordIs ==
  ASSUME NEW r \in Records
  PROVE  /\ r.at \in Nat /\ r.at \in Addrs /\ r.at < AreaSize /\ AreaSize \in Nat
         /\ r.m.len \in Nat /\ r.m.len >= 1 /\ r.m.len <= MaxLen /\ r.m.len <= AreaSize
         /\ End(r) \in Nat /\ End(r) = r.at + r.m.len /\ r.m \in Messages
<1>1. r.m \in Messages /\ r.at \in Addrs BY DEF Records
<1>2. r.m.len \in 1..MaxLen BY <1>1 DEF Messages
<1> QED BY <1>1, <1>2, LogAssumption DEF Addrs, End

\* Two records of a ring share no memory.
LEMMA Disjoint ==
  ASSUME NEW r \in Records, NEW s \in Records, NEW h \in Nat,
         Fits(r, h), Fits(s, h), Before(r, s, h)
  PROVE  /\ Block(r.at, r.m.len) \cap Block(s.at, s.m.len) = {}
         /\ r.at # s.at /\ r.at \notin Block(s.at, s.m.len) /\ s.at \notin Block(r.at, r.m.len)
<1>1. End(r) <= s.at \/ End(s) <= r.at BY RecordIs DEF Fits, Before
<1> QED BY <1>1, RecordIs DEF Block

\* The cells of a record are in the area.
LEMMA BlockIs ==
  ASSUME NEW r \in Records, NEW h \in Nat, Fits(r, h)
  PROVE  Block(r.at, r.m.len) \subseteq Addrs /\ r.at \in Block(r.at, r.m.len)
BY RecordIs DEF Fits, Block, Addrs

\* A record is added at the end.
LEMMA RingAppend ==
  ASSUME NEW s \in Seq(Records), NEW r \in Records, NEW h \in Nat, Ring(s, h), Fits(r, h),
         \A k \in 1..Len(s) : Before(s[k], r, h)
  PROVE  Ring(Append(s, r), h)
<1>1. /\ Len(Append(s, r)) = Len(s) + 1 /\ Append(s, r)[Len(s) + 1] = r /\ Len(s) \in Nat
      /\ \A k \in 1..Len(s) : Append(s, r)[k] = s[k]
  OBVIOUS
<1> DEFINE t == Append(s, r)
<1> HIDE DEF t
<1>2. \A k \in 1..Len(t) : Fits(t[k], h)
  <2> TAKE k \in 1..Len(t)
  <2>1. CASE k = Len(s) + 1 BY <1>1, <2>1 DEF t
  <2>2. CASE k \in 1..Len(s) BY <1>1, <2>2 DEF t, Ring
  <2> QED BY <1>1, <2>1, <2>2 DEF t
<1>3. \A i, j \in 1..Len(t) : i < j => Before(t[i], t[j], h)
  <2> SUFFICES ASSUME NEW i \in 1..Len(t), NEW j \in 1..Len(t), i < j PROVE Before(t[i], t[j], h)
    OBVIOUS
  <2>1. i \in 1..Len(s) /\ t[i] = s[i] BY <1>1 DEF t
  <2>2. CASE j = Len(s) + 1 BY <1>1, <2>1, <2>2 DEF t
  <2>3. CASE j \in 1..Len(s) BY <1>1, <2>1, <2>3 DEF t, Ring
  <2> QED BY <1>1, <2>2, <2>3 DEF t
<1> QED BY <1>2, <1>3 DEF Ring, t

\* The place that log_enqueue() chooses for a record: behind the last record.
LEMMA Place ==
  ASSUME NEW s \in Seq(Records), NEW r \in Records, NEW h \in Addrs, s # <<>>, Ring(s, h),
         LET t1   == End(s[Len(s)])
             wrap == h <= t1 /\ r.m.len > AreaSize - t1
         IN  /\ r.at = IF wrap THEN 0 ELSE t1
             /\ ~(wrap /\ h = 0) /\ ~(h > r.at /\ r.m.len >= h - r.at)
  PROVE  Fits(r, h) /\ \A k \in 1..Len(s) : Before(s[k], r, h)
<1> DEFINE last == s[Len(s)]
           t1   == End(last)
           wrap == h <= t1 /\ r.m.len > AreaSize - t1
<1>1. Len(s) \in Nat /\ Len(s) \in 1..Len(s) /\ last \in Records OBVIOUS
<1>2. h \in Nat /\ h < AreaSize BY LogAssumption DEF Addrs
<1>3. /\ r.at = IF wrap THEN 0 ELSE t1
      /\ ~(wrap /\ h = 0) /\ ~(h > r.at /\ r.m.len >= h - r.at)
  OBVIOUS
<1>4. Fits(last, h) BY <1>1 DEF Ring
<1> HIDE DEF last
<1>5. /\ last.at \in Nat /\ t1 \in Nat /\ t1 <= AreaSize /\ AreaSize \in Nat /\ r.at \in Nat
      /\ r.m.len \in Nat /\ r.m.len >= 1 /\ last.m.len >= 1 /\ t1 = last.at + last.m.len
      /\ last.m.len \in Nat
      /\ (last.at < h => t1 < h) /\ End(r) = r.at + r.m.len
  BY <1>1, <1>4, RecordIs DEF Fits
<1> HIDE DEF t1
<1>6. Fits(r, h)
  <2>1. CASE wrap
    <3>1. r.at = 0 /\ 0 < h /\ h <= t1 BY <1>2, <1>3, <2>1
    <3>2. r.m.len < h BY <1>2, <1>3, <1>5, <3>1
    <3> QED BY <1>2, <1>5, <3>1, <3>2 DEF Fits
  <2>2. CASE ~wrap
    <3>1. r.at = t1 BY <1>3, <2>2
    <3>2. CASE t1 < h
      <4>1. t1 + r.m.len < h BY <1>2, <1>3, <1>5, <3>1, <3>2
      <4> QED BY <1>2, <1>5, <3>1, <4>1 DEF Fits
    <3>3. CASE h <= t1
      <4>1. ~(r.m.len > AreaSize - t1) BY <2>2, <3>3
      <4> QED BY <1>2, <1>5, <3>1, <3>3, <4>1 DEF Fits
    <3> QED BY <1>2, <1>5, <3>2, <3>3
  <2> QED BY <2>1, <2>2
<1>7. Before(last, r, h) BY <1>2, <1>3, <1>5 DEF Before, t1
<1>8. ASSUME NEW k \in 1..Len(s), k # Len(s) PROVE Before(s[k], r, h)
  <2>1. Before(s[k], last, h) BY <1>1, <1>8 DEF Ring, last
  <2>2. s[k] \in Records BY <1>8
  <2>3. s[k].at \in Nat /\ End(s[k]) \in Nat BY <2>2, RecordIs
  <2> DEFINE a == s[k].at
             e == End(s[k])
  <2>4. a \in Nat /\ e \in Nat BY <2>3
  <2>5. (last.at < h /\ h <= a) \/ (e <= last.at /\ (h <= a \/ last.at < h))
    BY <2>1 DEF Before
  <2> SUFFICES (r.at < h /\ h <= a) \/ (e <= r.at /\ (h <= a \/ r.at < h))
    BY DEF Before
  <2> HIDE DEF a, e
  <2>6. CASE wrap
    <3>1. r.at = 0 /\ 0 < h /\ h <= t1 BY <1>2, <1>3, <2>6
    <3>2. h <= last.at BY <1>2, <1>5, <3>1
    <3> QED BY <1>2, <1>5, <2>4, <2>5, <3>1, <3>2
  <2>7. CASE ~wrap
    <3>1. r.at = t1 BY <1>3, <2>7
    <3> QED BY <1>2, <1>5, <2>4, <2>5, <3>1
  <2> QED BY <2>6, <2>7
<1> QED BY <1>1, <1>6, <1>7, <1>8 DEF last

\* When the records before r are gone, those behind it lie in the ring that
\* begins there.
LEMMA FitsNext ==
  ASSUME NEW r \in Records, NEW s \in Records, NEW h \in Nat, Fits(s, h),
         r = s \/ Before(r, s, h)
  PROVE  Fits(s, r.at)
BY RecordIs DEF Fits, Before

LEMMA BeforeNext ==
  ASSUME NEW r \in Records, NEW s \in Records, NEW t \in Records, NEW h \in Nat,
         r = s \/ Before(r, s, h), Before(r, t, h), Before(s, t, h)
  PROVE  Before(s, t, r.at)
<1> DEFINE ra == r.at
           re == End(r)
           sa == s.at
           se == End(s)
           ta == t.at
<1>1. /\ ra \in Nat /\ re \in Nat /\ sa \in Nat /\ se \in Nat /\ ta \in Nat
      /\ ra < re /\ sa < se
  BY RecordIs
<1>2. /\ (ta < h /\ h <= ra) \/ (re <= ta /\ (h <= ra \/ ta < h))
      /\ (ta < h /\ h <= sa) \/ (se <= ta /\ (h <= sa \/ ta < h))
  BY DEF Before
<1>3. ra = sa \/ (sa < h /\ h <= ra) \/ (re <= sa /\ (h <= ra \/ sa < h))
  BY DEF Before
<1> SUFFICES (ta < ra /\ ra <= sa) \/ (se <= ta /\ (ra <= sa \/ ta < ra))
  BY DEF Before
<1> HIDE DEF ra, re, sa, se, ta
<1> QED BY <1>1, <1>2, <1>3

\* A record is taken out at the beginning.
LEMMA RingTail ==
  ASSUME NEW s \in Seq(Records), NEW h \in Nat, Ring(s, h), Len(s) > 1
  PROVE  Ring(Tail(s), s[2].at)
<1> DEFINE t == Tail(s)
<1>1. /\ Len(s) \in Nat /\ Len(t) = Len(s) - 1 /\ s[2] \in Records
      /\ \A k \in 1..Len(t) : t[k] = s[k + 1] /\ k + 1 \in 1..Len(s) /\ t[k] \in Records
  OBVIOUS
<1> HIDE DEF t
<1>2. ASSUME NEW k \in 1..Len(t) PROVE s[2] = t[k] \/ Before(s[2], t[k], h)
  BY SMTT(40), <1>1 DEF Ring
<1>3. ASSUME NEW k \in 1..Len(t) PROVE Fits(t[k], s[2].at)
  <2>1. Fits(t[k], h) BY <1>1 DEF Ring
  <2> QED BY <1>1, <1>2, <2>1, FitsNext
<1>4. ASSUME NEW i \in 1..Len(t), NEW j \in 1..Len(t), i < j PROVE Before(t[i], t[j], s[2].at)
  <2>1. /\ i + 1 \in 1..Len(s) /\ j + 1 \in 1..Len(s) /\ i + 1 < j + 1
        /\ t[i] = s[i + 1] /\ t[j] = s[j + 1] /\ 2 \in 1..Len(s) /\ 2 < j + 1
    BY <1>1, <1>4
  <2>2. Before(t[i], t[j], h) /\ Before(s[2], t[j], h) BY <2>1 DEF Ring
  <2> QED BY <1>1, <1>2, <2>2, BeforeNext
<1> QED BY <1>3, <1>4 DEF Ring, t

(***************************************************************************)
(* The area                                                                *)
(***************************************************************************)
\* What log_enqueue() writes: the text, and the two pointers.
LEMMA StageIs ==
  ASSUME NEW m \in Messages, NEW at \in Addrs, NEW lastmsg \in Addrs, NEW head \in Addrs,
         mem \in [Addrs -> Cells], NEW M, M = Stage(m, at, lastmsg, head)
  PROVE  /\ M \in [Addrs -> Cells]
         /\ \A a \in Addrs : a \in Block(at, m.len) => M[a].m = m
         /\ \A a \in Addrs : a \notin Block(at, m.len) => M[a].m = mem[a].m
         /\ \A a \in Addrs : a \notin Block(at, m.len) /\ a # lastmsg /\ a # at =>
                               M[a].next = mem[a].next
         /\ lastmsg # at => M[lastmsg].next = at
<1> DEFINE text == [a \in Addrs |-> IF a \in Block(at, m.len)
                                    THEN [m |-> m, next |-> Null] ELSE mem[a]]
           link == [text EXCEPT ![lastmsg].next = at]
           new  == [link EXCEPT ![at].next = head]
<1>1. at \in 0..AreaSize /\ head \in 0..AreaSize /\ Null \in 0..AreaSize
  BY LogAssumption DEF Addrs, Null
<1>2. /\ text \in [Addrs -> Cells]
      /\ \A a \in Addrs : text[a].m = IF a \in Block(at, m.len) THEN m ELSE mem[a].m
      /\ \A a \in Addrs : a \notin Block(at, m.len) => text[a].next = mem[a].next
  BY <1>1 DEF Cells
<1>3. Stage(m, at, lastmsg, head) = new BY DEF Stage
<1> HIDE DEF text
<1>4. /\ link \in [Addrs -> Cells]
      /\ \A a \in Addrs : link[a].m = text[a].m
      /\ \A a \in Addrs : a # lastmsg => link[a].next = text[a].next
      /\ link[lastmsg].next = at
  BY <1>1, <1>2 DEF Cells
<1> HIDE DEF link
<1>5. /\ new \in [Addrs -> Cells]
      /\ \A a \in Addrs : new[a].m = link[a].m
      /\ \A a \in Addrs : a # at => new[a].next = link[a].next
  BY <1>1, <1>4 DEF Cells
<1> HIDE DEF new
<1> QED BY <1>2, <1>3, <1>4, <1>5

\* M is the area with the record r written behind the one at z.
Staged(M, r, z) ==
  /\ M \in [Addrs -> Cells]
  /\ \A a \in Addrs : a \in Block(r.at, r.m.len) => M[a].m = r.m
  /\ \A a \in Addrs : a \notin Block(r.at, r.m.len) => M[a].m = mem[a].m
  /\ \A a \in Addrs : a \notin Block(r.at, r.m.len) /\ a # z /\ a # r.at =>
                        M[a].next = mem[a].next
  /\ z # r.at => M[z].next = r.at

\* The same of a record that is written.
LEMMA StageRecord ==
  ASSUME NEW r \in Records, NEW h \in Addrs, NEW z \in Addrs, mem \in [Addrs -> Cells],
         NEW M, M = Stage(r.m, r.at, z, h)
  PROVE  Staged(M, r, z)
<1>1. PICK x \in Messages : x = r.m BY RecordIs
<1>2. PICK y \in Addrs : y = r.at BY RecordIs
<1>3. M = Stage(x, y, z, h) BY <1>1, <1>2
<1>4. /\ M \in [Addrs -> Cells]
      /\ \A a \in Addrs : a \in Block(y, x.len) => M[a].m = x
      /\ \A a \in Addrs : a \notin Block(y, x.len) => M[a].m = mem[a].m
      /\ \A a \in Addrs : a \notin Block(y, x.len) /\ a # z /\ a # y => M[a].next = mem[a].next
      /\ z # y => M[z].next = y
  BY <1>3, StageIs
<1> QED BY <1>1, <1>2, <1>4 DEF Staged

\* The parts of LogChain that are about one record: its cells hold it, and
\* it points to the next one.
Whole(s, M) ==
  \A k \in 1..Len(s) :
    /\ Block(s[k].at, s[k].m.len) \subseteq Addrs
    /\ \A a \in Block(s[k].at, s[k].m.len) : M[a].m = s[k].m
    /\ k < Len(s) => M[s[k].at].next = s[k + 1].at

Ends(s, a) ==
  /\ a.empty <=> s = <<>>
  /\ s = <<>> => a.head = a.tail
  /\ s # <<>> => a.head = s[1].at /\ a.tail = s[Len(s)].at

LEMMA ChainIs == LogChain <=> Ends(q, la) /\ Whole(q, mem)
BY DEF LogChain, Ends, Whole

\* A record is written: the ones that are in the area stay as they are.
LEMMA EnqueueKeeps ==
  ASSUME LogInv, NEW r \in Records, NEW h \in Addrs,
         q # <<>> => h = la.head,
         Fits(r, h), \A k \in 1..Len(q) : Before(q[k], r, h),
         q = <<>> => h = r.at,
         la' = [head |-> h, tail |-> r.at, empty |-> FALSE],
         mem' = Stage(r.m, r.at, la.tail, h), q' = Append(q, r), n' \in 0..MaxMsgs
  PROVE  LogInv'
<1>1. /\ la \in [head : Addrs, tail : Addrs, empty : BOOLEAN]
      /\ q \in Seq(Records) /\ mem \in [Addrs -> Cells] /\ Ring(q, la.head)
      /\ Ends(q, la) /\ Whole(q, mem)
  BY ChainIs DEF LogInv, LogTypeOK
<1>2. /\ Len(q') = Len(q) + 1 /\ q'[Len(q) + 1] = r /\ Len(q) \in Nat
      /\ \A k \in 1..Len(q) : q'[k] = q[k] /\ q[k] \in Records
      /\ q' \in Seq(Records) /\ q' # <<>>
  BY <1>1
<1>3. h \in Nat /\ la.tail \in Addrs BY <1>1 DEF Addrs
<1>4. Ring(q, h)
  <2>1. CASE q = <<>> BY <2>1 DEF Ring
  <2>2. CASE q # <<>> BY <1>1, <2>2
  <2> QED BY <2>1, <2>2
<1>5. Ring(q', la'.head)
  <2>1. la'.head = h OBVIOUS
  <2> QED BY <1>1, <1>3, <1>4, <2>1, RingAppend
<1>6. r.m \in Messages /\ r.at \in Addrs BY RecordIs
<1>7. /\ mem' \in [Addrs -> Cells]
      /\ \A a \in Addrs : a \in Block(r.at, r.m.len) => mem'[a].m = r.m
      /\ \A a \in Addrs : a \notin Block(r.at, r.m.len) => mem'[a].m = mem[a].m
      /\ \A a \in Addrs : a \notin Block(r.at, r.m.len) /\ a # la.tail /\ a # r.at =>
                            mem'[a].next = mem[a].next
      /\ la.tail # r.at => mem'[la.tail].next = r.at
  <2>1. PICK M : M = Stage(r.m, r.at, la.tail, h) /\ mem' = M OBVIOUS
  <2>2. mem \in [Addrs -> Cells] /\ la.tail \in Addrs BY <1>1, <1>3
  <2>3. Staged(M, r, la.tail) BY <2>1, <2>2, StageRecord
  <2> QED BY <2>1, <2>3 DEF Staged
<1>8. LogTypeOK' BY <1>1, <1>2, <1>6, <1>7 DEF LogTypeOK
<1>9. Ends(q', la') BY <1>2, <1>1 DEF Ends
<1>10. Whole(q', mem')
  <2> SUFFICES ASSUME NEW k \in 1..Len(q')
               PROVE  /\ Block(q'[k].at, q'[k].m.len) \subseteq Addrs
                      /\ \A a \in Block(q'[k].at, q'[k].m.len) : mem'[a].m = q'[k].m
                      /\ k < Len(q') => mem'[q'[k].at].next = q'[k + 1].at
    BY DEF Whole
  <2>1. CASE k = Len(q) + 1
    <3>1. q'[k] = r /\ ~(k < Len(q')) BY <1>2, <2>1
    <3>2. Block(r.at, r.m.len) \subseteq Addrs BY <1>3, BlockIs
    <3>3. \A a \in Block(r.at, r.m.len) : mem'[a].m = r.m BY <1>7, <3>2
    <3> QED BY <3>1, <3>2, <3>3
  <2>2. CASE k \in 1..Len(q)
    <3>1. q[k] \in Records /\ q'[k] = q[k] BY <1>2, <2>2
    <3>2. /\ Block(q[k].at, q[k].m.len) \cap Block(r.at, r.m.len) = {}
          /\ q[k].at # r.at /\ q[k].at \notin Block(r.at, r.m.len)
      BY <1>3, <1>4, <2>2, <3>1, Disjoint DEF Ring
    <3>3. /\ Block(q[k].at, q[k].m.len) \subseteq Addrs /\ q[k].at \in Addrs
          /\ \A a \in Block(q[k].at, q[k].m.len) : mem[a].m = q[k].m
      BY <1>1, <2>2, <3>1, RecordIs DEF Whole
    <3>4. \A a \in Block(q[k].at, q[k].m.len) : mem'[a].m = q[k].m
      BY <1>7, <3>2, <3>3
    <3>5. CASE k = Len(q)
      <4>1. q # <<>> /\ la.tail = q[k].at BY <1>1, <2>2, <3>5 DEF Ends
      <4> QED BY SMTT(40), <1>2, <1>7, <3>1, <3>2, <3>3, <3>4, <3>5, <4>1
    <3>6. CASE k < Len(q)
      <4>1. k + 1 \in 1..Len(q) /\ Len(q) \in 1..Len(q) /\ q'[k + 1] = q[k + 1]
            /\ q[Len(q)] \in Records
        BY <1>2, <2>2, <3>6
      <4>2. mem[q[k].at].next = q[k + 1].at BY <1>1, <2>2, <3>6 DEF Whole
      <4>3. q[k].at # q[Len(q)].at
        BY <1>3, <1>4, <2>2, <3>1, <3>6, <4>1, Disjoint DEF Ring
      <4>4. la.tail = q[Len(q)].at BY <1>1, <1>2, <4>1 DEF Ends
      <4> QED BY <1>7, <3>1, <3>2, <3>3, <3>4, <4>1, <4>2, <4>3, <4>4
    <3> QED BY <1>2, <2>2, <3>5, <3>6
  <2>3. k = Len(q) + 1 \/ k \in 1..Len(q) BY <1>2
  <2> QED BY <2>1, <2>2, <2>3
<1> QED BY <1>5, <1>8, <1>9, <1>10, ChainIs DEF LogInv, LogChain, Ends, Whole

\* A record is taken out: it is the first one, whole, and the others stay.
LEMMA DequeueKeeps ==
  ASSUME LogInv, ~la.empty, log_dequeue, n' \in 0..MaxMsgs
  PROVE  LogInv' /\ q # <<>> /\ buff' = <<q[1].m>> /\ q' = Tail(q)
<1>1. /\ la \in [head : Addrs, tail : Addrs, empty : BOOLEAN]
      /\ q \in Seq(Records) /\ mem \in [Addrs -> Cells] /\ Ring(q, la.head)
      /\ Ends(q, la) /\ Whole(q, mem)
  BY ChainIs DEF LogInv, LogTypeOK
<1>2. /\ q # <<>> /\ Len(q) \in Nat /\ 1 \in 1..Len(q) /\ Len(q) \in 1..Len(q)
      /\ q[1] \in Records /\ q[Len(q)] \in Records /\ la.head = q[1].at
      /\ la.tail = q[Len(q)].at /\ la.head \in Nat
  BY <1>1 DEF Ends, Addrs
<1>3. Len(q) = 1 \/ Len(q) > 1 BY <1>2
<1> DEFINE first == Block(q[1].at, q[1].m.len)
<1>4. /\ first \subseteq Addrs /\ \A a \in first : mem[a].m = q[1].m
      /\ Len(q) > 1 => mem[q[1].at].next = q[2].at
  BY <1>1, <1>2 DEF Whole
<1>5. q[1].at \in first BY <1>1, <1>2, BlockIs DEF Ring
<1>6. ASSUME NEW k \in 2..Len(q)
      PROVE  /\ q[k] \in Records /\ q[1].at # q[k].at /\ q[k].at \notin first
             /\ first \cap Block(q[k].at, q[k].m.len) = {}
  <2>1. k \in 1..Len(q) /\ 1 < k /\ q[k] \in Records BY <1>1, <1>2
  <2> QED BY <1>1, <1>2, <2>1, Disjoint DEF Ring
<1> HIDE DEF first
<1>7. mem[la.head].m = q[1].m BY <1>2, <1>4, <1>5
<1> DEFINE last == la.tail = la.head
           head == IF last THEN la.head ELSE mem[la.head].next
<1>8. /\ q' = Tail(q) /\ la' = [la EXCEPT !.head = head, !.empty = last]
      /\ mem' = [a \in Addrs |-> IF a \in first THEN Free
                   ELSE IF a = la.tail THEN [mem[a] EXCEPT !.next = head] ELSE mem[a]]
      /\ buff' = <<q[1].m>>
  BY <1>2, <1>4, <1>7 DEF log_dequeue, first
<1>9. last <=> Len(q) = 1
  <2>1. CASE Len(q) = 1 BY <1>2, <2>1
  <2>2. CASE Len(q) > 1
    <3>1. Len(q) \in 2..Len(q) BY <1>2, <2>2
    <3> QED BY <1>2, <1>6, <2>2, <3>1
  <2> QED BY <1>3, <2>1, <2>2
<1>10. head \in Addrs /\ (Len(q) > 1 => head = q[2].at)
  <2>1. CASE last
    <3>1. Len(q) = 1 BY <1>9, <2>1
    <3>2. ~(Len(q) > 1) BY <3>1
    <3> QED BY <1>1, <2>1, <3>2
  <2>2. CASE ~last
    <3>1. Len(q) > 1 BY <1>9, <1>3, <2>2
    <3>2. 2 \in 2..Len(q) BY <1>2, <3>1
    <3> QED BY <1>2, <1>4, <1>6, <2>2, <3>1, <3>2, RecordIs
  <2> QED BY <2>1, <2>2
<1> HIDE DEF head
<1>11. /\ la' \in [head : Addrs, tail : Addrs, empty : BOOLEAN]
       /\ la'.head = head /\ la'.tail = la.tail /\ la'.empty = last
  BY <1>1, <1>8, <1>10
<1> HIDE DEF last
<1>12. /\ Len(q') = Len(q) - 1 /\ q' \in Seq(Records)
       /\ \A k \in 1..Len(q') : q'[k] = q[k + 1] /\ k + 1 \in 2..Len(q)
       /\ q' = <<>> <=> Len(q) = 1
  <2>1. q' = Tail(q) BY <1>8
  <2>2. q \in Seq(Records) /\ q # <<>> BY <1>1, <1>2
  <2>3. /\ Len(q') = Len(q) - 1 /\ q' \in Seq(Records)
        /\ \A k \in 1..Len(q') : q'[k] = q[k + 1]
    BY <2>1, <2>2
  <2>4. \A k \in 1..Len(q') : k + 1 \in 2..Len(q) BY <1>2, <2>3
  <2>5. q' = <<>> <=> Len(q') = 0 BY <2>3
  <2> QED BY <1>2, <2>3, <2>4, <2>5
<1>13. LogTypeOK'
  <2>1. head \in 0..AreaSize /\ Null \in 0..AreaSize BY <1>10, LogAssumption DEF Addrs, Null
  <2>2. mem' \in [Addrs -> Cells] BY <1>1, <1>8, <2>1 DEF Cells, Free
  <2> QED BY <1>11, <1>12, <2>2 DEF LogTypeOK
<1>14. Ring(q', la'.head)
  <2>1. CASE Len(q) = 1 BY <1>12, <2>1 DEF Ring
  <2>2. CASE Len(q) > 1 BY <1>1, <1>2, <1>8, <1>10, <1>11, <2>2, RingTail
  <2> QED BY <1>3, <2>1, <2>2
<1>15. Ends(q', la')
  <2>1. CASE Len(q) = 1 BY <1>2, <1>9, <1>10, <1>11, <1>12, <2>1 DEF Ends, head, last
  <2>2. CASE Len(q) > 1
    <3>1. q'[1] = q[2] /\ q'[Len(q')] = q[Len(q)] BY <1>2, <1>12, <2>2
    <3> QED BY <1>2, <1>9, <1>10, <1>11, <1>12, <2>2, <3>1 DEF Ends
  <2> QED BY <1>3, <2>1, <2>2
<1>16. Whole(q', mem')
  <2> SUFFICES ASSUME NEW k \in 1..Len(q')
               PROVE  /\ Block(q'[k].at, q'[k].m.len) \subseteq Addrs
                      /\ \A a \in Block(q'[k].at, q'[k].m.len) : mem'[a].m = q'[k].m
                      /\ k < Len(q') => mem'[q'[k].at].next = q'[k + 1].at
    BY DEF Whole
  <2>1. PICK j \in 2..Len(q) : j = k + 1 BY <1>12
  <2>2. q'[k] = q[j] /\ j \in 1..Len(q) BY <1>2, <1>12, <2>1
  <2>3. /\ Block(q[j].at, q[j].m.len) \subseteq Addrs /\ q[j].at \in Addrs
        /\ \A a \in Block(q[j].at, q[j].m.len) : mem[a].m = q[j].m
        /\ j < Len(q) => mem[q[j].at].next = q[j + 1].at
    BY <1>1, <1>6, <2>2, RecordIs DEF Whole
  <2>4. \A a \in Block(q[j].at, q[j].m.len) : a \in Addrs /\ a \notin first
    BY <1>6, <2>3
  <2>5. \A a \in Addrs : a \notin first => mem'[a].m = mem[a].m
    BY <1>1, <1>8 DEF Cells
  <2>6. \A a \in Block(q[j].at, q[j].m.len) : mem'[a].m = q[j].m
    BY <2>3, <2>4, <2>5
  <2>7. ASSUME j < Len(q) PROVE mem'[q[j].at].next = q[j + 1].at
    <3>1. Before(q[j], q[Len(q)], la.head) BY <1>1, <1>2, <2>2, <2>7 DEF Ring
    <3>2. Fits(q[j], la.head) /\ Fits(q[Len(q)], la.head) BY <1>1, <1>2, <2>2 DEF Ring
    <3>3. q[j].at # la.tail BY <1>2, <1>6, <3>1, <3>2, Disjoint
    <3> QED BY <1>6, <1>8, <2>3, <2>7, <3>3
  <2>8. k < Len(q') => j < Len(q) /\ q'[k + 1] = q[j + 1] BY <1>2, <1>12, <2>1
  <2> QED BY <2>2, <2>3, <2>6, <2>7, <2>8
<1> QED BY <1>2, <1>8, <1>13, <1>14, <1>15, <1>16, ChainIs DEF LogInv, LogChain, Ends, Whole

\* log_enqueue() drops the message or writes it behind the last one.
LEMMA EnqueueStep ==
  ASSUME LogInv, NEW m \in Messages, log_enqueue(m), n' \in 0..MaxMsgs
  PROVE  LogInv' /\ (q' = q \/ \E r \in Records : r.m = m /\ q' = Append(q, r))
<1> DEFINE t1   == IF la.empty THEN la.tail ELSE la.tail + mem[la.tail].m.len
           wrap == la.head <= t1 /\ m.len > AreaSize - t1
           tail == IF wrap THEN 0 ELSE t1
           head == IF wrap /\ la.empty THEN 0 ELSE la.head
           drop == (wrap /\ la.head = 0) \/ (head > tail /\ m.len >= head - tail)
<1>1. /\ la \in [head : Addrs, tail : Addrs, empty : BOOLEAN]
      /\ q \in Seq(Records) /\ mem \in [Addrs -> Cells] /\ Ring(q, la.head)
      /\ Ends(q, la) /\ Whole(q, mem)
  BY ChainIs DEF LogInv, LogTypeOK
<1>2. /\ la.head \in Addrs /\ la.tail \in Addrs /\ la.head \in Nat /\ la.tail \in Nat
      /\ AreaSize \in Nat /\ AreaSize > 0 /\ 0 \in Addrs /\ la.head < AreaSize
      /\ la.tail < AreaSize
  BY <1>1, LogAssumption DEF Addrs
<1>3. m.len \in Nat /\ m.len >= 1 /\ m.len <= AreaSize
  BY LogAssumption DEF Messages
<1>4. IF drop THEN UNCHANGED area_vars
      ELSE /\ la' = [head |-> head, tail |-> tail, empty |-> FALSE]
           /\ mem' = Stage(m, tail, la.tail, head)
           /\ q' = Append(q, [m |-> m, at |-> tail])
  BY DEF log_enqueue
<1>5. q # <<>> => /\ Len(q) \in 1..Len(q) /\ q[Len(q)] \in Records
                  /\ la.tail = q[Len(q)].at /\ t1 = End(q[Len(q)])
  <2> SUFFICES ASSUME q # <<>>
               PROVE  /\ Len(q) \in 1..Len(q) /\ q[Len(q)] \in Records
                      /\ la.tail = q[Len(q)].at /\ t1 = End(q[Len(q)])
    OBVIOUS
  <2>1. Len(q) \in 1..Len(q) /\ q[Len(q)] \in Records BY <1>1
  <2>2. la.tail = q[Len(q)].at /\ ~la.empty BY <1>1 DEF Ends
  <2>3. mem[la.tail].m = q[Len(q)].m
    <3>1. la.tail \in Block(q[Len(q)].at, q[Len(q)].m.len)
      BY <1>1, <1>2, <2>1, <2>2, BlockIs DEF Ring
    <3> QED BY <1>1, <2>1, <3>1 DEF Whole
  <2> QED BY <2>1, <2>2, <2>3 DEF End
<1>6. q = <<>> => la.empty /\ t1 = la.head BY <1>1 DEF Ends
<1>7. t1 \in Nat /\ t1 <= AreaSize
  <2>1. CASE q = <<>> BY <1>2, <1>6, <2>1
  <2>2. CASE q # <<>>
    <3>1. Fits(q[Len(q)], la.head) BY <1>1, <1>5, <2>2 DEF Ring
    <3> QED BY <1>5, <2>2, <3>1, RecordIs DEF Fits
  <2> QED BY <2>1, <2>2
<1> HIDE DEF t1
<1>8. CASE drop
  <2>1. UNCHANGED <<la, mem, q>> BY <1>4, <1>8 DEF area_vars
  <2>2. LogInv' BY <2>1 DEF LogInv, LogTypeOK, LogChain
  <2> QED BY <2>1, <2>2
<1>9. CASE ~drop
  <2> DEFINE r == [m |-> m, at |-> tail]
  <2>1. head \in Addrs /\ head \in Nat BY <1>2
  <2>2. tail \in Addrs /\ tail \in Nat
    <3>1. CASE wrap BY <1>2, <3>1
    <3>2. CASE ~wrap
      <4>1. t1 < AreaSize
        <5>1. CASE t1 < la.head BY <1>2, <1>7, <5>1
        <5>2. CASE ~(t1 < la.head)
          <6>1. ~(m.len > AreaSize - t1) BY <1>2, <1>7, <3>2, <5>2
          <6> QED BY <1>2, <1>3, <1>7, <6>1
        <5> QED BY <5>1, <5>2
      <4> QED BY <1>2, <1>7, <3>2, <4>1 DEF Addrs
    <3> QED BY <3>1, <3>2
  <2>3. r \in Records /\ r.m = m /\ r.at = tail BY <2>2 DEF Records
  <2>4. ~(wrap /\ la.head = 0) /\ ~(head > tail /\ m.len >= head - tail) BY <1>9
  <2>5. /\ la' = [head |-> head, tail |-> tail, empty |-> FALSE]
        /\ mem' = Stage(m, tail, la.tail, head) /\ q' = Append(q, r)
    BY <1>4, <1>9
  <2>6. q # <<>> => head = la.head BY <1>1 DEF Ends
  <2>7. CASE q = <<>>
    <3>1. head = tail BY <1>6, <2>7
    <3>2. head + m.len <= AreaSize
      <4>1. CASE wrap BY <1>3, <1>6, <2>7, <4>1
      <4>2. CASE ~wrap BY <1>2, <1>3, <1>6, <1>7, <2>7, <4>2
      <4> QED BY <4>1, <4>2
    <3>3. Fits(r, head) BY <2>1, <2>3, <3>1, <3>2 DEF Fits, End
    <3>4. \A k \in 1..Len(q) : Before(q[k], r, head) BY <2>7
    <3> HIDE DEF r, head, tail
    <3> QED BY <2>1, <2>3, <2>5, <2>6, <3>1, <3>3, <3>4, EnqueueKeeps
  <2>8. CASE q # <<>>
    <3>1. head = la.head BY <2>6, <2>8
    <3>2. Fits(r, head) /\ \A k \in 1..Len(q) : Before(q[k], r, head)
      <4>1. t1 = End(q[Len(q)]) BY <1>5, <2>8
      <4>2. /\ r.at = IF la.head <= t1 /\ r.m.len > AreaSize - t1 THEN 0 ELSE t1
            /\ ~(la.head <= t1 /\ r.m.len > AreaSize - t1 /\ la.head = 0)
            /\ ~(la.head > r.at /\ r.m.len >= la.head - r.at)
        BY <2>3, <2>4, <3>1
      <4> HIDE DEF r, head, tail
      <4> QED BY <1>1, <1>2, <2>3, <2>8, <3>1, <4>1, <4>2, Place
    <3> HIDE DEF r, head, tail
    <3> QED BY <2>1, <2>3, <2>5, <2>6, <2>8, <3>2, EnqueueKeeps
  <2> QED BY <2>7, <2>8
<1> QED BY <1>8, <1>9

(***************************************************************************)
(* The area is a queue.                                                    *)
(***************************************************************************)
\* The messages of some records.
MsgsOf(s) == [k \in 1..Len(s) |-> s[k].m]

LEMMA MsgsAppend ==
  ASSUME NEW s \in Seq(Records), NEW r \in Records
  PROVE  MsgsOf(Append(s, r)) = Append(MsgsOf(s), r.m)
<1>1. /\ Len(s) \in Nat /\ Len(Append(s, r)) = Len(s) + 1 /\ Append(s, r)[Len(s) + 1] = r
      /\ \A k \in 1..Len(s) : Append(s, r)[k] = s[k]
  OBVIOUS
<1>2. MsgsOf(s) \in Seq(Messages) /\ Len(MsgsOf(s)) = Len(s)
      /\ \A k \in 1..Len(s) : MsgsOf(s)[k] = s[k].m
  BY RecordIs DEF MsgsOf
<1>3. r.m \in Messages BY RecordIs
<1>4. /\ MsgsOf(Append(s, r)) \in Seq(Messages) /\ Len(MsgsOf(Append(s, r))) = Len(s) + 1
      /\ \A k \in 1..(Len(s) + 1) : MsgsOf(Append(s, r))[k] = Append(s, r)[k].m
  BY <1>1, RecordIs DEF MsgsOf
<1>5. /\ Append(MsgsOf(s), r.m) \in Seq(Messages) /\ Len(Append(MsgsOf(s), r.m)) = Len(s) + 1
      /\ Append(MsgsOf(s), r.m)[Len(s) + 1] = r.m
      /\ \A k \in 1..Len(s) : Append(MsgsOf(s), r.m)[k] = MsgsOf(s)[k]
  BY <1>2, <1>3
<1> DEFINE a == MsgsOf(Append(s, r))
           b == Append(MsgsOf(s), r.m)
<1>6. \A k \in 1..Len(a) : a[k] = b[k]
  <2> TAKE k \in 1..Len(a)
  <2>1. k \in 1..Len(s) \/ k = Len(s) + 1 BY <1>1, <1>4
  <2> QED BY <1>1, <1>2, <1>4, <1>5, <2>1
<1> HIDE DEF a, b
<1>7. a \in Seq(Messages) /\ b \in Seq(Messages) /\ Len(a) = Len(b) BY <1>4, <1>5 DEF a, b
<1>8. a = b BY <1>6, <1>7, SeqEqual
<1> QED BY <1>8 DEF a, b

LEMMA MsgsTail ==
  ASSUME NEW s \in Seq(Records), s # <<>>
  PROVE  /\ MsgsOf(s) # <<>> /\ Head(MsgsOf(s)) = s[1].m
         /\ MsgsOf(Tail(s)) = Tail(MsgsOf(s))
<1>1. /\ Len(s) \in Nat \ {0} /\ Tail(s) \in Seq(Records) /\ Len(Tail(s)) = Len(s) - 1
      /\ \A k \in 1..Len(Tail(s)) : Tail(s)[k] = s[k + 1]
  OBVIOUS
<1>2. MsgsOf(s) \in Seq(Messages) /\ Len(MsgsOf(s)) = Len(s)
      /\ \A k \in 1..Len(s) : MsgsOf(s)[k] = s[k].m
  BY RecordIs DEF MsgsOf
<1>3. MsgsOf(s) # <<>> BY <1>1, <1>2
<1>4. Head(MsgsOf(s)) = s[1].m BY <1>1, <1>2, <1>3
<1> DEFINE a == MsgsOf(Tail(s))
           b == Tail(MsgsOf(s))
<1>5. a \in Seq(Messages) /\ Len(a) = Len(Tail(s)) /\ \A k \in 1..Len(a) : a[k] = Tail(s)[k].m
  BY <1>1, RecordIs DEF MsgsOf
<1>6. b \in Seq(Messages) /\ Len(b) = Len(s) - 1 /\ \A k \in 1..Len(b) : b[k] = MsgsOf(s)[k + 1]
  BY <1>1, <1>2, <1>3
<1> HIDE DEF a, b
<1>7. \A k \in 1..Len(a) : a[k] = b[k]
  <2> TAKE k \in 1..Len(a)
  <2>1. k \in 1..Len(Tail(s)) /\ k \in 1..Len(b) /\ k + 1 \in 1..Len(s) BY <1>1, <1>5, <1>6
  <2> QED BY <1>1, <1>2, <1>5, <1>6, <2>1
<1>8. a = b BY <1>1, <1>5, <1>6, <1>7, SeqEqual
<1> QED BY <1>3, <1>4, <1>8 DEF a, b

(***************************************************************************)
(* The whole program                                                       *)
(***************************************************************************)
\* The area is empty at first.
LEMMA LogInitInv == LogInit => LogInv
<1> SUFFICES ASSUME LogInit PROVE LogInv
  OBVIOUS
<1>1. q = <<>> /\ q \in Seq(Records) /\ Len(q) = 0 BY DEF LogInit
<1>2. 0 \in Addrs /\ Free \in Cells /\ 0 \in 0..MaxMsgs
  BY LogAssumption DEF Addrs, Free, Cells, Null
<1>3. LogTypeOK BY <1>1, <1>2 DEF LogInit, LogTypeOK
<1>4. Ring(q, la.head) BY <1>1 DEF Ring
<1>5. LogChain BY <1>1 DEF LogInit, LogChain
<1> QED BY <1>3, <1>4, <1>5 DEF LogInv

\* What a step does to the queue: nothing, or it accepts or takes a message.
QueueStep ==
  \/ q' = q /\ buff' = buff
  \/ \E r \in Records : q' = Append(q, r) /\ buff' = buff
  \/ q # <<>> /\ q' = Tail(q) /\ buff' = <<q[1].m>>

LEMMA StepKeeps == ASSUME LogInv, [LogNext]_log_vars PROVE LogInv' /\ QueueStep
<1>1. n \in 0..MaxMsgs BY DEF LogInv, LogTypeOK
<1>2. ASSUME UNCHANGED <<area_vars, buff, n>> PROVE LogInv' /\ QueueStep
  BY <1>2 DEF area_vars, QueueStep, LogInv, LogTypeOK, LogChain
<1>3. ASSUME ~la.empty, log_dequeue, UNCHANGED n PROVE LogInv' /\ QueueStep
  <2>1. n' \in 0..MaxMsgs BY <1>1, <1>3
  <2> QED BY <1>3, <2>1, DequeueKeeps DEF QueueStep
<1>4. ASSUME NEW l \in Loggers, NEW len \in 1..MaxLen, log_safe(l, len)
      PROVE  LogInv' /\ QueueStep
  <2> DEFINE m == [n |-> n + 1, len |-> len]
  <2>1. n < MaxMsgs /\ n' = n + 1 /\ log_enqueue(m) /\ buff' = buff BY <1>4 DEF log_safe
  <2>2. n + 1 \in 1..MaxMsgs /\ n' \in 0..MaxMsgs BY <1>1, <2>1, LogAssumption
  <2>3. m \in Messages BY <2>2 DEF Messages
  <2> HIDE DEF m
  <2> QED BY <2>1, <2>2, <2>3, EnqueueStep DEF QueueStep
<1>5. ASSUME NEW l \in Loggers, log_signal(l) PROVE LogInv' /\ QueueStep
  BY <1>2, <1>5 DEF log_signal
<1>6. CASE LogThread
  BY <1>2, <1>3, <1>6 DEF LogThread, log_thread
<1>7. CASE SpuriousWakeupLog \/ LogThreadCanceled
  BY <1>2, <1>7 DEF SpuriousWakeupLog, LogThreadCanceled
<1>8. CASE LogStop
  BY <1>2, <1>3, <1>8 DEF LogStop, log_thread_stop
<1>9. CASE UNCHANGED log_vars
  <2>1. UNCHANGED area_vars /\ UNCHANGED buff /\ UNCHANGED n BY <1>9 DEF log_vars, area_vars
  <2> QED BY <1>2, <2>1
<1> QED BY <1>4, <1>5, <1>6, <1>7, <1>8, <1>9 DEF LogNext

\* Every step keeps the invariant.
LEMMA LogInvariant == LogSpec => []LogInv
<1>1. LogInv /\ [LogNext]_log_vars => LogInv' BY StepKeeps
<1> QED BY <1>1, LogInitInv, PTL DEF LogSpec

\* For any area, lengths and threads: the pointers of the area lead through
\* the records in order of arrival, and each record is whole.
THEOREM LogChainTheorem == LogSpec => []LogChain
<1>1. LogInv => LogChain BY DEF LogInv
<1> QED BY <1>1, LogInvariant, PTL

\* The area with its pointers implements the first-in first-out queue:
\* log_enqueue() accepts a message, log_dequeue() takes out the oldest one, and
\* nothing else that the threads do changes the queue.
THEOREM IsFifoTheorem == LogSpec => IsFifo
<1>1. LogInit => Fifo!FifoInit
  <2> SUFFICES ASSUME LogInit PROVE Fifo!FifoInit
    OBVIOUS
  <2>1. q = <<>> /\ buff = <<>> BY DEF LogInit
  <2>2. [k \in 1..Len(q) |-> q[k].m] = <<>> BY <2>1
  <2> QED BY <2>1, <2>2 DEF Fifo!FifoInit
<1>2. LogInv /\ [LogNext]_log_vars
        => [Fifo!Accept \/ Fifo!Take]_<<[k \in 1..Len(q) |-> q[k].m], buff>>
  <2> SUFFICES ASSUME LogInv, [LogNext]_log_vars
               PROVE  [Fifo!Accept \/ Fifo!Take]_<<[k \in 1..Len(q) |-> q[k].m], buff>>
    OBVIOUS
  <2>1. QueueStep BY StepKeeps
  <2>2. q \in Seq(Records) BY DEF LogInv, LogTypeOK
  <2>3. CASE q' = q /\ buff' = buff BY <2>3
  <2>4. ASSUME NEW r \in Records, q' = Append(q, r), buff' = buff PROVE Fifo!Accept
    <3>1. MsgsOf(q') = Append(MsgsOf(q), r.m) /\ r.m \in Messages
      BY <2>2, <2>4, MsgsAppend, RecordIs
    <3> QED BY <2>4, <3>1 DEF Fifo!Accept, MsgsOf
  <2>5. CASE q # <<>> /\ q' = Tail(q) /\ buff' = <<q[1].m>>
    <3>1. /\ MsgsOf(q) # <<>> /\ Head(MsgsOf(q)) = q[1].m
          /\ MsgsOf(q') = Tail(MsgsOf(q))
      BY <2>2, <2>5, MsgsTail
    <3> QED BY <2>5, <3>1 DEF Fifo!Take, MsgsOf
  <2> QED BY <2>1, <2>3, <2>4, <2>5 DEF QueueStep
<1> QED BY <1>1, <1>2, LogInvariant, PTL DEF LogSpec, IsFifo, Fifo!FifoSpec
=============================================================================
