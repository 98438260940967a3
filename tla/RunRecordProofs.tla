-------------------------- MODULE RunRecordProofs --------------------------
(***************************************************************************)
(* Proofs about what a delegated run leaves on disk: its event log, for    *)
(* every budget, every set of sizes and every bound (its records stay in   *)
(* order, whoever follows it sees what RunLogPromise promises, and what is *)
(* kept is the longest end that fits the budget), the leases of its        *)
(* processes, for any number of pids, turns and daemons, and its row, when *)
(* a newer program opens the database that holds it.                       *)
(*                                                                         *)
(* The order of the records does not depend on how bytes are counted:      *)
(* whatever the count is, an eviction leaves an end of the log. That the   *)
(* count is exact is proved after it.                                      *)
(***************************************************************************)
EXTENDS RunEventLog, ProcessLeases, StateMigrations,
        WellFoundedInduction, SequenceTheorems, TLAPS

\* A nonempty set of natural numbers has a least element.
LEMMA LeastNumber ==
    ASSUME NEW S, S \subseteq Nat, S # {}
    PROVE  \E m \in S : \A k \in S : m <= k
<1> DEFINE R == OpToRel(<, Nat)
<1>1. \A x, y \in Nat : <<x, y>> \in R <=> x < y
  BY DEF OpToRel
<1>2. IsWellFoundedOn(R, Nat)
  BY NatLessThanWellFounded
<1> HIDE DEF R
<1>3. PICK x \in S : \A y \in S : <<y, x>> \notin R
  BY <1>2, WFMin
<1>4. ASSUME NEW y \in S PROVE x <= y
  <2>1. x \in Nat /\ y \in Nat /\ ~(y < x)
    BY <1>1, <1>3
  <2> QED BY <2>1
<1> QED BY <1>4

\* Cited where the terms are too large for the arithmetic to be found.
LEMMA LessIsAtMost == \A x, y \in Nat : x < y => x <= y
OBVIOUS

Records == [seq : Nat, bytes : Nat, result : BOOLEAN]
Streams == [open : BOOLEAN, after : Nat, draining : BOOLEAN, wire : Seq(Records)]
Readers == [phase : {"away", "found", "stale", "reading", "returned", "failed"}, cursor : Nat, result : BOOLEAN]

\* Numbered upwards, and only the last can be a result.
InOrder(l) ==
    /\ l \in Seq(Records)
    /\ \A i \in 1..Len(l) : 0 < l[i].seq /\ (l[i].result => i = Len(l))
    /\ \A i, j \in 1..Len(l) : i < j => l[i].seq < l[j].seq

\* The highest number given to a record.
IssuedOf(l, seq) == IF seq = 0 THEN Highest(l) ELSE seq

LogOk(l, seq, st) ==
    /\ InOrder(l) /\ seq \in Nat
    /\ \A i \in 1..Len(l) : /\ seq # 0 => l[i].seq <= seq
                            /\ l[i].result => st = "ended" /\ l[i].seq = IssuedOf(l, seq)

\* What the log still keeps of the stream's part is on its way.
Covers(l, cursor, after, wire) ==
    \A j \in 1..Len(l) : cursor < l[j].seq /\ l[j].seq <= after =>
        \E i \in 1..Len(wire) : wire[i].seq = l[j].seq

FrameFits(l, seq, st, s, rd, i) ==
    IF s.wire[i].seq = 0
    THEN seq = 0 /\ l = <<>> /\ st = "ended" /\ s.wire[i].result /\ Len(s.wire) = 1 /\ ~s.open
    ELSE /\ rd.cursor < s.wire[i].seq /\ s.wire[i].seq <= s.after
         /\ s.wire[i].result => /\ st = "ended" /\ i = Len(s.wire) /\ ~s.open
                                /\ s.wire[i].seq = IssuedOf(l, seq)

\* The response continues what the CLI has rendered.
Fits(l, seq, st, srv, s, rd) ==
    /\ s \in Streams /\ rd \in Readers
    /\ \A i \in 1..Len(s.wire) : FrameFits(l, seq, st, s, rd, i)
    /\ \A i, j \in 1..Len(s.wire) : i < j => s.wire[i].seq < s.wire[j].seq
    /\ rd.cursor <= IssuedOf(l, seq)
    /\ IF rd.phase = "reading"
       THEN rd.cursor <= s.after /\ s.after <= IssuedOf(l, seq) /\ Covers(l, rd.cursor, s.after, s.wire)
       ELSE s = NoStream
    /\ s.open => srv # "down"
    /\ s.draining => s.open
    /\ rd.result => rd.phase = "returned"

LogInv ==
    /\ server \in {"down", "listening", "up"} /\ status \in {"pending", "running", "ended"}
    /\ follow \in BOOLEAN /\ byAgent \in BOOLEAN
    /\ LogOk(log, lastSeq, status)
    /\ server # "down" /\ log # <<>> => lastSeq # 0
    /\ Fits(log, lastSeq, status, server, stream, reader)

-----------------------------------------------------------------------------
(* Parts of a log.                                                         *)

LEMMA IssuedTops ==
    ASSUME NEW l, NEW seq, NEW st, LogOk(l, seq, st)
    PROVE  /\ IssuedOf(l, seq) \in Nat
           /\ \A i \in 1..Len(l) : l[i].seq <= IssuedOf(l, seq)
<1>1. l \in Seq(Records) /\ Len(l) \in Nat /\ seq \in Nat
  BY DEF LogOk, InOrder
<1>2. CASE seq # 0
  BY <1>1, <1>2 DEF LogOk, IssuedOf
<1>3. CASE seq = 0 /\ l = <<>>
  BY <1>1, <1>3 DEF IssuedOf, Highest
<1>4. CASE seq = 0 /\ l # <<>>
  <2>1. Len(l) \in 1..Len(l) /\ IssuedOf(l, seq) = l[Len(l)].seq
    BY <1>1, <1>4, EmptySeq DEF IssuedOf, Highest, Last
  <2>2. \A i \in 1..Len(l) : l[i].seq \in Nat
    <3>1. \A i \in 1..Len(l) : l[i] \in Records
      BY <1>1, ElementOfSeq
    <3> QED BY <3>1 DEF Records
  <2>3. \A i \in 1..Len(l) : i = Len(l) \/ i < Len(l)
    BY <1>1
  <2> QED BY <2>1, <2>2, <2>3 DEF LogOk, InOrder
<1> QED BY <1>2, <1>3, <1>4

\* A consecutive part of a log.
LEMMA PartOfLog ==
    ASSUME NEW l, InOrder(l), NEW from \in 1..(Len(l) + 1), NEW to \in 0..Len(l), from <= to + 1
    PROVE  /\ SubSeq(l, from, to) \in Seq(Records)
           /\ Len(SubSeq(l, from, to)) = to - from + 1
           /\ \A i \in 1..(to - from + 1) : /\ SubSeq(l, from, to)[i] = l[from + i - 1]
                                            /\ from + i - 1 \in 1..Len(l)
           /\ InOrder(SubSeq(l, from, to))
<1>1. l \in Seq(Records) /\ Len(l) \in Nat
  BY DEF InOrder
<1>2. \A i \in from..to : l[i] \in Records
  BY <1>1, ElementOfSeq
<1>3. /\ SubSeq(l, from, to) \in Seq(Records)
      /\ Len(SubSeq(l, from, to)) = IF from <= to THEN to - from + 1 ELSE 0
      /\ \A i \in 1..(to - from + 1) : SubSeq(l, from, to)[i] = l[from + i - 1]
  BY <1>1, <1>2, SubSeqProperties
<1>4. Len(SubSeq(l, from, to)) = to - from + 1
  BY <1>1, <1>3
<1>5. \A i \in 1..(to - from + 1) : from + i - 1 \in 1..Len(l)
  BY <1>1
<1> DEFINE part == SubSeq(l, from, to)
<1>6. \A i \in 1..Len(part) : 0 < part[i].seq /\ (part[i].result => i = Len(part))
  <2> SUFFICES ASSUME NEW i \in 1..Len(part) PROVE 0 < part[i].seq /\ (part[i].result => i = Len(part))
    OBVIOUS
  <2>1. i \in 1..(to - from + 1) /\ part[i] = l[from + i - 1] /\ from + i - 1 \in 1..Len(l)
    BY <1>3, <1>4, <1>5
  <2>2. part[i].result => from + i - 1 = Len(l)
    BY <2>1 DEF InOrder
  <2>3. from + i - 1 = Len(l) => i = to - from + 1
    BY <1>1, <2>1
  <2> QED BY <1>4, <2>1, <2>2, <2>3 DEF InOrder
<1>7. \A i, j \in 1..Len(part) : i < j => part[i].seq < part[j].seq
  <2> SUFFICES ASSUME NEW i \in 1..Len(part), NEW j \in 1..Len(part), i < j
               PROVE  part[i].seq < part[j].seq
    OBVIOUS
  <2>1. /\ part[i] = l[from + i - 1] /\ part[j] = l[from + j - 1]
        /\ from + i - 1 \in 1..Len(l) /\ from + j - 1 \in 1..Len(l)
    BY <1>3, <1>4, <1>5
  <2>2. from + i - 1 < from + j - 1
    BY <1>1, <1>4
  <2> QED BY <2>1, <2>2 DEF InOrder
<1> QED BY <1>3, <1>4, <1>5, <1>6, <1>7 DEF InOrder

\* Whatever the count says, an eviction leaves an end of the log.
LEMMA EvictionLeavesAnEnd ==
    ASSUME NEW l, NEW total, Len(l) \in Nat
    PROVE  \E n \in 0..Len(l) : Evicted(l, total).rows = SubSeq(l, n + 1, Len(l))
<1> DEFINE left(i) == total - Bytes(SubSeq(l, 1, i))
           Enough(i) == left(i) <= Budget
           Ends(i) == (Enough(i) \/ i = Len(l)) /\ \A j \in 0..(i - 1) : ~Enough(j)
           through == CHOOSE i \in 0..Len(l) : Ends(i)
           T == {i \in 0..Len(l) : Enough(i) \/ i = Len(l)}
<1>1. Evicted(l, total).rows = SubSeq(l, through + 1, Len(l))
  BY DEF Evicted
<1> HIDE DEF left, Enough
<1>2. T \subseteq Nat /\ Len(l) \in T
  OBVIOUS
<1>3. PICK m \in T : \A k \in T : m <= k
  BY <1>2, LeastNumber
<1>4. ASSUME NEW j \in 0..(m - 1) PROVE ~Enough(j)
  <2>1. m \in 0..Len(l) /\ j \in 0..Len(l) /\ ~(m <= j)
    BY <1>3
  <2> QED BY <1>3, <2>1
<1>5. m \in 0..Len(l) /\ Ends(m)
  BY <1>3, <1>4
<1> HIDE DEF Ends, T
<1>6. through \in 0..Len(l)
  BY <1>5
<1> HIDE DEF through
<1> QED BY <1>1, <1>6

-----------------------------------------------------------------------------
(* What the gateway's pump puts on the wire.                               *)

\* The rows after the stream's cursor are an end of the log.
LEMMA UnreadIsAnEnd ==
    ASSUME NEW l, InOrder(l), NEW after \in Nat
    PROVE  \E first \in 1..(Len(l) + 1) :
              /\ Unread(l, after) = SubSeq(l, first, Len(l))
              /\ \A j \in 1..Len(l) : l[j].seq > after <=> j >= first
<1>1. l \in Seq(Records) /\ Len(l) \in Nat /\ DOMAIN l = 1..Len(l)
  BY LenProperties DEF InOrder
<1>2. \A j \in 1..Len(l) : l[j].seq \in Nat
  <2>1. \A j \in 1..Len(l) : l[j] \in Records
    BY <1>1, ElementOfSeq
  <2> QED BY <2>1 DEF Records
<1> DEFINE Begins(i) == \A j \in DOMAIN l : l[j].seq > after <=> j >= i
           T == {i \in 1..(Len(l) + 1) : i = Len(l) + 1 \/ l[i].seq > after}
<1>3. T \subseteq Nat /\ Len(l) + 1 \in T
  BY <1>1
<1>4. PICK m \in T : \A k \in T : m <= k
  <2> HIDE DEF T
  <2> QED BY <1>3, LeastNumber
<1>5. Begins(m)
  <2> SUFFICES ASSUME NEW j \in 1..Len(l) PROVE l[j].seq > after <=> j >= m
    BY <1>1
  <2>1. ASSUME l[j].seq > after PROVE j >= m
    BY <1>1, <1>4, <2>1
  <2>2. ASSUME j >= m PROVE l[j].seq > after
    <3>1. m \in 1..Len(l) /\ l[m].seq > after
      BY <1>1, <1>4, <2>2
    <3>2. m = j \/ l[m].seq < l[j].seq
      <4>1. m \in Nat /\ j \in Nat /\ (m = j \/ m < j)
        BY <1>1, <2>2, <3>1
      <4>2. m < j => l[m].seq < l[j].seq
        BY <3>1 DEF InOrder
      <4> QED BY <4>1, <4>2
    <3> QED BY <1>2, <3>1, <3>2
  <2> QED BY <2>1, <2>2
<1> DEFINE first == CHOOSE i \in 1..(Len(l) + 1) : Begins(i)
<1>6. first \in 1..(Len(l) + 1) /\ Begins(first)
  <2>1. m \in 1..(Len(l) + 1)
    BY <1>4
  <2> HIDE DEF Begins
  <2> QED BY <1>5, <2>1
<1>7. Unread(l, after) = SubSeq(l, first, Len(l))
  BY DEF Unread
<1> HIDE DEF first
<1> QED BY <1>1, <1>6, <1>7

Portion(l, after, k) == IF k = 0 THEN Unread(l, after) ELSE SubSeq(Unread(l, after), 1, k)
AfterOf(after, sent) == IF sent = <<>> THEN after ELSE Last(sent).seq

\* Everything of a log from one cursor to another.
Between(l, after, sent, next) ==
    /\ InOrder(sent) /\ next \in Nat /\ after <= next
    /\ \A i \in 1..Len(sent) : /\ after < sent[i].seq /\ sent[i].seq <= next
                               /\ \E j \in 1..Len(l) : sent[i] = l[j]
    /\ \A j \in 1..Len(l) : after < l[j].seq /\ l[j].seq <= next =>
          \E i \in 1..Len(sent) : sent[i] = l[j]
    /\ next = after \/ \E j \in 1..Len(l) : next = l[j].seq
    /\ l = <<>> => sent = <<>>

\* What is sent is the part of the log between two cursors.
LEMMA PortionIsSound ==
    ASSUME NEW l, InOrder(l), NEW after \in Nat, NEW k \in 0..Len(Unread(l, after))
    PROVE  /\ Between(l, after, Portion(l, after, k), AfterOf(after, Portion(l, after, k)))
           /\ k # 0 => Portion(l, after, k) # <<>>
<1> DEFINE sent == Portion(l, after, k)
           next == AfterOf(after, sent)
<1> SUFFICES Between(l, after, sent, next) /\ (k # 0 => sent # <<>>)
  OBVIOUS
<1>1. l \in Seq(Records) /\ Len(l) \in Nat
  BY DEF InOrder
<1>2. PICK first \in 1..(Len(l) + 1) :
         /\ Unread(l, after) = SubSeq(l, first, Len(l))
         /\ \A j \in 1..Len(l) : l[j].seq > after <=> j >= first
  BY UnreadIsAnEnd
<1>3. /\ Unread(l, after) \in Seq(Records) /\ Len(Unread(l, after)) = Len(l) - first + 1
      /\ InOrder(Unread(l, after))
      /\ \A i \in 1..Len(Unread(l, after)) : /\ Unread(l, after)[i] = l[first + i - 1]
                                             /\ first + i - 1 \in 1..Len(l)
  <2>1. /\ first \in 1..(Len(l) + 1) /\ Len(l) \in 0..Len(l) /\ first <= Len(l) + 1
    BY <1>1
  <2>2. /\ SubSeq(l, first, Len(l)) \in Seq(Records)
        /\ Len(SubSeq(l, first, Len(l))) = Len(l) - first + 1
        /\ \A i \in 1..(Len(l) - first + 1) : /\ SubSeq(l, first, Len(l))[i] = l[first + i - 1]
                                             /\ first + i - 1 \in 1..Len(l)
        /\ InOrder(SubSeq(l, first, Len(l)))
    BY <2>1, PartOfLog
  <2> QED BY <1>2, <2>2
<1> DEFINE n == IF k = 0 THEN Len(l) - first + 1 ELSE k
<1>4. n \in 0..(Len(l) - first + 1) /\ (k # 0 => n > 0)
  BY <1>1, <1>3
<1>5. /\ sent \in Seq(Records) /\ Len(sent) = n /\ InOrder(sent)
      /\ \A i \in 1..n : sent[i] = l[first + i - 1] /\ first + i - 1 \in 1..Len(l)
  <2>1. CASE k = 0
    BY <1>3, <2>1 DEF Portion
  <2>2. CASE k # 0
    <3>1. sent = SubSeq(Unread(l, after), 1, k)
      BY <2>2 DEF Portion
    <3> DEFINE unread == Unread(l, after)
    <3> HIDE DEF unread
    <3>2. /\ SubSeq(unread, 1, k) \in Seq(Records)
          /\ Len(SubSeq(unread, 1, k)) = k - 1 + 1
          /\ \A i \in 1..(k - 1 + 1) : SubSeq(unread, 1, k)[i] = unread[1 + i - 1]
          /\ InOrder(SubSeq(unread, 1, k))
      <4>1. /\ InOrder(unread) /\ Len(unread) \in Nat /\ k \in 0..Len(unread)
        BY <1>3, <1>4, <1>1 DEF unread
      <4>2. 1 \in 1..(Len(unread) + 1) /\ 1 <= k + 1
        BY <4>1
      <4> QED BY <4>1, <4>2, PartOfLog
    <3>3. k - 1 + 1 = k /\ k \in 1..n /\ n = k /\ \A i \in 1..k : 1 + i - 1 = i /\ i \in 1..Len(unread)
      BY <1>1, <1>3, <1>4, <2>2 DEF unread
    <3>4. \A i \in 1..k : sent[i] = unread[i]
      BY <3>1, <3>2, <3>3 DEF unread
    <3> QED BY <1>3, <3>1, <3>2, <3>3, <3>4 DEF unread
  <2> QED BY <2>1, <2>2
<1> HIDE DEF sent, n
<1>6. \A j \in 1..Len(l) : l[j].seq \in Nat
  <2>1. \A j \in 1..Len(l) : l[j] \in Records
    BY <1>1, ElementOfSeq
  <2> QED BY <2>1 DEF Records
<1>7. CASE n = 0
  <2>1. sent = <<>> /\ next = after /\ k = 0 /\ first = Len(l) + 1
    BY <1>1, <1>4, <1>5, <1>7, EmptySeq DEF AfterOf, n
  <2> HIDE DEF next
  <2>2. \A j \in 1..Len(l) : l[j].seq \in Nat /\ ~(after < l[j].seq)
    BY <1>1, <1>2, <1>6, <2>1
  <2>3. 1..Len(sent) = {} /\ after <= next /\ next \in Nat
    BY <1>5, <1>7, <2>1
  <2> QED BY <1>5, <2>1, <2>2, <2>3 DEF Between
<1>8. CASE n # 0
  <2>1. /\ sent # <<>> /\ next = sent[n].seq /\ n \in 1..n
    BY <1>4, <1>5, <1>8, EmptySeq DEF AfterOf, Last
  <2> DEFINE last == first + n - 1
  <2>2. last \in 1..Len(l) /\ last >= first /\ next = l[last].seq
    BY <1>1, <1>4, <1>5, <1>8, <2>1
  <2> HIDE DEF next, last
  <2>3. next \in Nat /\ after < next
    BY <1>2, <1>6, <2>2
  <2>4. ASSUME NEW i \in 1..Len(sent)
        PROVE  after < sent[i].seq /\ sent[i].seq <= next /\ \E j \in 1..Len(l) : sent[i] = l[j]
    <3>1. first + i - 1 \in 1..Len(l) /\ sent[i] = l[first + i - 1] /\ first + i - 1 >= first
          /\ first + i - 1 <= last
      BY <1>1, <1>4, <1>5 DEF last
    <3>2. l[first + i - 1].seq > after
      BY <1>2, <3>1
    <3>3. first + i - 1 = last \/ l[first + i - 1].seq < l[last].seq
      BY <2>2, <3>1 DEF InOrder
    <3> QED BY <1>6, <2>2, <3>1, <3>2, <3>3
  <2>5. ASSUME NEW j \in 1..Len(l), after < l[j].seq, l[j].seq <= next
        PROVE  \E i \in 1..Len(sent) : sent[i] = l[j]
    <3>1. j >= first
      BY <1>2, <1>6, <2>5
    <3>2. j <= last
      <4>1. ASSUME last < j PROVE FALSE
        <5>1. l[last].seq < l[j].seq
          BY <2>2, <2>5, <4>1 DEF InOrder
        <5> QED BY <1>6, <2>2, <2>5, <5>1
      <4> QED BY <1>1, <2>2, <4>1
    <3>3. j - first + 1 \in 1..n /\ first + (j - first + 1) - 1 = j
      BY <1>1, <1>4, <3>1, <3>2 DEF last
    <3> QED BY <1>5, <3>3
  <2>6. after <= next
    BY <2>3
  <2>7. \A i \in 1..Len(sent) : /\ after < sent[i].seq /\ sent[i].seq <= next
                                /\ \E j \in 1..Len(l) : sent[i] = l[j]
    BY <2>4
  <2>8. \A j \in 1..Len(l) : after < l[j].seq /\ l[j].seq <= next =>
           \E i \in 1..Len(sent) : sent[i] = l[j]
    BY <2>5
  <2>9. l # <<>>
    BY <1>1, <2>2, EmptySeq
  <2> QED BY <1>5, <2>1, <2>2, <2>3, <2>6, <2>7, <2>8, <2>9 DEF Between
<1> QED BY <1>7, <1>8
-----------------------------------------------------------------------------
(* The pump keeps the response a continuation of what the CLI has rendered. *)

\* Frames that follow one another.
Rising(w) == \A i, j \in 1..Len(w) : i < j => w[i].seq < w[j].seq

LEMMA JoinedFrames ==
    ASSUME NEW v \in Seq(Records), NEW w \in Seq(Records)
    PROVE  /\ v \o w \in Seq(Records) /\ Len(v \o w) = Len(v) + Len(w)
           /\ Len(v) \in Nat /\ Len(w) \in Nat
           /\ \A i \in 1..Len(v \o w) :
                 \/ i \in 1..Len(v) /\ (v \o w)[i] = v[i]
                 \/ ~(i \in 1..Len(v)) /\ i - Len(v) \in 1..Len(w) /\ (v \o w)[i] = w[i - Len(v)]
           /\ \A i \in 1..Len(v) : i \in 1..Len(v \o w) /\ (v \o w)[i] = v[i]
           /\ \A i \in 1..Len(w) : i + Len(v) \in 1..Len(v \o w) /\ (v \o w)[i + Len(v)] = w[i]
<1>1. /\ v \o w \in Seq(Records) /\ Len(v \o w) = Len(v) + Len(w)
      /\ Len(v) \in Nat /\ Len(w) \in Nat
      /\ \A i \in 1..(Len(v) + Len(w)) :
            (v \o w)[i] = IF i <= Len(v) THEN v[i] ELSE w[i - Len(v)]
  BY ConcatProperties, LenProperties
<1>2. ASSUME NEW i \in 1..Len(v \o w)
      PROVE  \/ i \in 1..Len(v) /\ (v \o w)[i] = v[i]
             \/ ~(i \in 1..Len(v)) /\ i - Len(v) \in 1..Len(w) /\ (v \o w)[i] = w[i - Len(v)]
  BY <1>1
<1>3. ASSUME NEW i \in 1..Len(v)
      PROVE  i \in 1..Len(v \o w) /\ (v \o w)[i] = v[i]
  BY <1>1
<1>4. ASSUME NEW i \in 1..Len(w)
      PROVE  i + Len(v) \in 1..Len(v \o w) /\ (v \o w)[i + Len(v)] = w[i]
  <2>1. i + Len(v) \in 1..Len(v \o w) /\ ~(i + Len(v) <= Len(v)) /\ i + Len(v) - Len(v) = i
    BY <1>1
  <2> QED BY <1>1, <2>1
<1> QED BY <1>1, <1>2, <1>3, <1>4

LEMMA RisingJoin ==
    ASSUME NEW v \in Seq(Records), NEW w \in Seq(Records), Rising(v), Rising(w), NEW mid \in Nat,
           \A i \in 1..Len(v) : v[i].seq <= mid,
           \A i \in 1..Len(w) : mid < w[i].seq
    PROVE  Rising(v \o w)
<1> DEFINE u == v \o w
<1>1. SUFFICES ASSUME NEW i \in 1..Len(u), NEW j \in 1..Len(u), i < j PROVE u[i].seq < u[j].seq
  BY DEF Rising
<1>2. /\ Len(u) = Len(v) + Len(w) /\ Len(v) \in Nat /\ Len(w) \in Nat
      /\ \/ i \in 1..Len(v) /\ u[i] = v[i]
         \/ ~(i \in 1..Len(v)) /\ i - Len(v) \in 1..Len(w) /\ u[i] = w[i - Len(v)]
      /\ \/ j \in 1..Len(v) /\ u[j] = v[j]
         \/ ~(j \in 1..Len(v)) /\ j - Len(v) \in 1..Len(w) /\ u[j] = w[j - Len(v)]
  BY JoinedFrames
<1> HIDE DEF u
<1>3. /\ \A x \in 1..Len(v) : v[x] \in Records
      /\ \A x \in 1..Len(w) : w[x] \in Records
  BY ElementOfSeq
<1>4. (\A x \in 1..Len(v) : v[x].seq \in Nat) /\ (\A x \in 1..Len(w) : w[x].seq \in Nat)
  BY <1>3 DEF Records
<1>5. CASE i \in 1..Len(v) /\ j \in 1..Len(v)
  BY <1>1, <1>2, <1>5 DEF Rising
<1>6. CASE i \in 1..Len(v) /\ ~(j \in 1..Len(v))
  BY <1>2, <1>4, <1>6
<1>7. CASE ~(i \in 1..Len(v)) /\ j \in 1..Len(v)
  BY <1>1, <1>2, <1>7
<1>8. CASE ~(i \in 1..Len(v)) /\ ~(j \in 1..Len(v))
  <2>1. i - Len(v) < j - Len(v)
    BY <1>1, <1>2
  <2> QED BY <1>2, <1>8, <2>1 DEF Rising
<1> QED BY <1>5, <1>6, <1>7, <1>8

\* What the pump does to the response, whichever way the run stands.
Pumped(s, k, l, seq, st, new) ==
    \/ st = "ended" /\ new = Sent(s, k, l, seq, TRUE)
    \/ st # "ended" /\ new = Sent(s, k, l, seq, FALSE)

\* The response after a pump, field by field.
LEMMA PumpedFields ==
    ASSUME NEW s \in Streams, NEW l, NEW k \in 0..Len(Unread(l, s.after)), NEW seq, NEW st, NEW new,
           Pumped(s, k, l, seq, st, new), follow \in BOOLEAN,
           InOrder(l), seq = 0 => l = <<>> /\ s.wire = <<>>
    PROVE  LET sent == Portion(l, s.after, k)
           IN /\ new.after = AfterOf(s.after, sent)
              /\ new.open \in BOOLEAN /\ new.draining \in BOOLEAN
              /\ new.draining => new.open
              /\ new.open => ~(sent # <<>> /\ Last(sent).result)
              /\ \/ new.wire = s.wire \o sent
                 \/ /\ l = <<>> /\ seq = 0 /\ st = "ended" /\ ~new.open
                    /\ new.wire = <<Record(0, ResultSize, TRUE)>>
              /\ new = [open |-> new.open, after |-> new.after, draining |-> new.draining, wire |-> new.wire]
<1> DEFINE sent == Portion(l, s.after, k)
<1>1. sent = IF k = 0 THEN Unread(l, s.after) ELSE SubSeq(Unread(l, s.after), 1, k)
  BY DEF Portion
<1>2. Between(l, s.after, sent, AfterOf(s.after, sent)) /\ s.after \in Nat
  BY PortionIsSound DEF Streams
<1>3. sent \in Seq(Records) /\ s.wire \in Seq(Records) /\ (l = <<>> => sent = <<>>)
  BY <1>2 DEF Between, InOrder, Streams
<1>4. s.wire \o sent \o <<>> = s.wire \o sent
  <2>1. s.wire \o sent \in Seq(Records)
    BY <1>3, ConcatProperties
  <2> QED BY <2>1, ConcatEmptySeq
<1> DEFINE final == sent # <<>> /\ Last(sent).result
           Resp(ended) ==
              [open     |-> ~(final \/ (k = 0 /\ (ended \/ ~follow))),
               after    |-> AfterOf(s.after, sent),
               draining |-> k # 0 /\ ~final,
               wire     |-> s.wire \o sent \o
                            (IF (k = 0 /\ (ended \/ ~follow)) /\ ~final /\ ended /\ seq = 0
                             THEN <<Record(0, ResultSize, TRUE)>> ELSE <<>>)]
<1>5. \/ st = "ended" /\ new = Resp(TRUE)
      \/ st # "ended" /\ new = Resp(FALSE)
  BY DEF Pumped, Sent, Portion, AfterOf
<1>6. final \in BOOLEAN
  OBVIOUS
<1> HIDE DEF final
<1>7. CASE st # "ended" /\ new = Resp(FALSE)
  <2>1. new.wire = s.wire \o sent \o <<>>
    BY <1>7
  <2>2. /\ new.after = AfterOf(s.after, sent)
        /\ new.open = ~(final \/ (k = 0 /\ (FALSE \/ ~follow)))
        /\ new.draining = (k # 0 /\ ~final)
        /\ new = [open |-> new.open, after |-> new.after, draining |-> new.draining, wire |-> new.wire]
    BY <1>7
  <2> QED BY <1>4, <1>6, <2>1, <2>2 DEF final
<1>8. CASE st = "ended" /\ new = Resp(TRUE)
  <2>1. /\ new.after = AfterOf(s.after, sent)
        /\ new.open = ~(final \/ (k = 0 /\ (TRUE \/ ~follow)))
        /\ new.draining = (k # 0 /\ ~final)
        /\ new = [open |-> new.open, after |-> new.after, draining |-> new.draining, wire |-> new.wire]
    BY <1>8
  <2>2. CASE k = 0 /\ ~final /\ seq = 0
    <3>1. new.wire = s.wire \o sent \o <<Record(0, ResultSize, TRUE)>>
      BY <1>8, <2>2
    <3>2. l = <<>> /\ s.wire = <<>> /\ sent = <<>>
      BY <1>3, <2>2
    <3>3. <<Record(0, ResultSize, TRUE)>> \in Seq(Records)
      BY SizesAssumption DEF Record, Records
    <3>4. <<>> \o <<>> = <<>> /\ <<>> \o <<Record(0, ResultSize, TRUE)>> = <<Record(0, ResultSize, TRUE)>>
      BY <1>3, <3>2, <3>3, ConcatEmptySeq
    <3>5. new.wire = <<Record(0, ResultSize, TRUE)>>
      BY <3>1, <3>2, <3>4
    <3> QED BY <1>6, <1>8, <2>1, <2>2, <3>2, <3>5 DEF final
  <2>3. CASE ~(k = 0 /\ ~final /\ seq = 0)
    <3>1. new.wire = s.wire \o sent \o <<>>
      BY <1>8, <2>3
    <3> QED BY <1>4, <1>6, <2>1, <3>1 DEF final
  <2> QED BY <2>2, <2>3
<1> QED BY <1>5, <1>7, <1>8

\* A pump keeps the response in step with the log and the CLI.
LEMMA PumpFits ==
    ASSUME NEW s, NEW l, NEW k \in 0..Len(Unread(l, s.after)), NEW seq, NEW st, NEW srv, NEW rd, NEW new,
           Pumped(s, k, l, seq, st, new), follow \in BOOLEAN,
           LogOk(l, seq, st), Fits(l, seq, st, srv, s, rd),
           rd.phase = "reading", srv # "down", l # <<>> => seq # 0,
           \A i \in 1..Len(s.wire) : ~s.wire[i].result
    PROVE  Fits(l, seq, st, srv, new, rd)
<1> DEFINE sent == Portion(l, s.after, k)
           next == AfterOf(s.after, sent)
           issued == IssuedOf(l, seq)
<1>1. /\ s \in Streams /\ rd \in Readers /\ InOrder(l) /\ l \in Seq(Records)
      /\ s.wire \in Seq(Records) /\ s.after \in Nat /\ rd.cursor \in Nat /\ Len(s.wire) \in Nat
  <2>1. s \in Streams /\ rd \in Readers /\ InOrder(l) /\ l \in Seq(Records)
    BY DEF Fits, LogOk, InOrder
  <2>2. s.wire \in Seq(Records) /\ s.after \in Nat /\ rd.cursor \in Nat
    BY <2>1 DEF Streams, Readers
  <2> QED BY <2>1, <2>2, LenProperties
<1>2. /\ issued \in Nat
      /\ \A i \in 1..Len(l) : l[i].seq <= issued
  BY IssuedTops
<1>3. /\ Between(l, s.after, sent, next)
      /\ sent \in Seq(Records) /\ InOrder(sent) /\ next \in Nat /\ s.after <= next
  <2>1. Between(l, s.after, sent, next)
    BY <1>1, PortionIsSound
  <2> HIDE DEF sent, next
  <2> QED BY <2>1 DEF Between, InOrder
<1>4. /\ \A i \in 1..Len(s.wire) : s.wire[i] \in Records /\ s.wire[i].seq \in Nat
      /\ \A i \in 1..Len(sent) : sent[i] \in Records /\ sent[i].seq \in Nat
      /\ \A i \in 1..Len(l) : l[i] \in Records /\ l[i].seq \in Nat
  <2>1. /\ \A i \in 1..Len(s.wire) : s.wire[i] \in Records
        /\ \A i \in 1..Len(sent) : sent[i] \in Records
        /\ \A i \in 1..Len(l) : l[i] \in Records
    BY <1>1, <1>3, ElementOfSeq
  <2> QED BY <2>1 DEF Records
<1> HIDE DEF sent, next, issued
<1>5. \A i \in 1..Len(s.wire) : rd.cursor < s.wire[i].seq /\ s.wire[i].seq <= s.after
  BY DEF Fits, FrameFits
<1>6. rd.cursor <= s.after /\ s.after <= issued /\ Covers(l, rd.cursor, s.after, s.wire)
  BY DEF Fits, issued
<1>7. seq = 0 => l = <<>> /\ s.wire = <<>>
  <2>1. SUFFICES ASSUME seq = 0, l = <<>>, s.wire # <<>> PROVE FALSE
    OBVIOUS
  <2>2. issued = 0
    BY <2>1 DEF issued, IssuedOf, Highest
  <2>3. 1 \in 1..Len(s.wire)
    BY <1>1, <2>1, EmptySeq
  <2> QED BY <1>1, <1>4, <1>5, <1>6, <2>2, <2>3
<1>8. /\ new.after = next
      /\ new.open \in BOOLEAN /\ new.draining \in BOOLEAN
      /\ new.draining => new.open
      /\ new.open => ~(sent # <<>> /\ Last(sent).result)
      /\ \/ new.wire = s.wire \o sent
         \/ /\ l = <<>> /\ seq = 0 /\ st = "ended" /\ ~new.open
            /\ new.wire = <<Record(0, ResultSize, TRUE)>>
      /\ new = [open |-> new.open, after |-> new.after, draining |-> new.draining, wire |-> new.wire]
  BY <1>1, <1>7, PumpedFields DEF sent, next
<1>9. next <= issued
  BY <1>2, <1>3, <1>6 DEF Between
<1>10. CASE new.wire = s.wire \o sent
  <2> DEFINE w == s.wire \o sent
  <2>1. /\ w \in Seq(Records) /\ Len(w) = Len(s.wire) + Len(sent) /\ Len(sent) \in Nat
        /\ \A i \in 1..Len(w) :
              \/ i \in 1..Len(s.wire) /\ w[i] = s.wire[i]
              \/ ~(i \in 1..Len(s.wire)) /\ i - Len(s.wire) \in 1..Len(sent) /\ w[i] = sent[i - Len(s.wire)]
        /\ \A i \in 1..Len(s.wire) : i \in 1..Len(w) /\ w[i] = s.wire[i]
        /\ \A i \in 1..Len(sent) : i + Len(s.wire) \in 1..Len(w) /\ w[i + Len(s.wire)] = sent[i]
    BY <1>1, <1>3, JoinedFrames
  <2>2. Rising(w)
    <3>1. Rising(s.wire) /\ Rising(sent)
      BY <1>3 DEF Fits, InOrder, Rising
    <3>2. \A i \in 1..Len(sent) : s.after < sent[i].seq
      BY <1>3 DEF Between
    <3> QED BY <1>1, <1>3, <1>5, <3>1, <3>2, RisingJoin
  <2> HIDE DEF w
  <2>3. new \in Streams
    BY <1>3, <1>8, <1>10, <2>1 DEF Streams, w
  <2>4. ASSUME NEW i \in 1..Len(w) PROVE FrameFits(l, seq, st, new, rd, i)
    <3>1. new.wire = w
      BY <1>10 DEF w
    <3>2. CASE i \in 1..Len(s.wire)
      <4>1. w[i] = s.wire[i] /\ ~w[i].result /\ rd.cursor < w[i].seq /\ w[i].seq <= s.after
        BY <1>5, <2>1, <3>2
      <4>2. w[i].seq \in Nat /\ w[i].seq # 0 /\ w[i].seq <= new.after
        BY <1>1, <1>3, <1>4, <1>8, <3>2, <4>1
      <4> QED BY <3>1, <4>1, <4>2 DEF FrameFits
    <3>3. CASE ~(i \in 1..Len(s.wire))
      <4> DEFINE x == i - Len(s.wire)
      <4>1. x \in 1..Len(sent) /\ w[i] = sent[x] /\ i = x + Len(s.wire) /\ x \in Nat
        BY <1>1, <2>1, <3>3
      <4> HIDE DEF x
      <4>2. /\ s.after < sent[x].seq /\ sent[x].seq <= next /\ 0 < sent[x].seq
            /\ sent[x].result => x = Len(sent)
        BY <1>3, <4>1 DEF Between, InOrder
      <4>3. PICK j \in 1..Len(l) : sent[x] = l[j]
        BY <1>3, <4>1 DEF Between
      <4>4. sent[x].result => st = "ended" /\ sent[x].seq = IssuedOf(l, seq)
        BY <4>3 DEF LogOk
      <4>5. sent[x].result => i = Len(w) /\ ~new.open
        <5>1. SUFFICES ASSUME sent[x].result PROVE i = Len(w) /\ ~new.open
          OBVIOUS
        <5>2. x = Len(sent) /\ sent # <<>> /\ Last(sent) = sent[x]
          BY <1>3, <2>1, <4>1, <4>2, <5>1, EmptySeq DEF Last
        <5> QED BY <1>1, <1>8, <2>1, <4>1, <5>1, <5>2
      <4>6. sent[x].seq \in Nat /\ rd.cursor < sent[x].seq /\ sent[x].seq <= new.after /\ sent[x].seq # 0
        <5>1. /\ sent[x].seq \in Nat /\ s.after \in Nat /\ rd.cursor \in Nat
              /\ rd.cursor <= s.after /\ new.after = next
          BY <1>1, <1>4, <1>6, <1>8, <4>1
        <5>2. s.after < sent[x].seq /\ sent[x].seq <= next /\ 0 < sent[x].seq
          BY <4>2
        <5> QED BY <5>1, <5>2
      <4> QED BY <3>1, <4>1, <4>4, <4>5, <4>6 DEF FrameFits
    <3> QED BY <3>2, <3>3
  <2>5. Covers(l, rd.cursor, next, w)
    <3>1. SUFFICES ASSUME NEW j \in 1..Len(l), rd.cursor < l[j].seq, l[j].seq <= next
                   PROVE  \E i \in 1..Len(w) : w[i].seq = l[j].seq
      BY DEF Covers
    <3>2. CASE l[j].seq <= s.after
      <4>1. PICK i \in 1..Len(s.wire) : s.wire[i].seq = l[j].seq
        BY <1>6, <3>1, <3>2 DEF Covers
      <4> QED BY <2>1, <4>1
    <3>3. CASE s.after < l[j].seq
      <4>1. PICK i \in 1..Len(sent) : sent[i] = l[j]
        BY <1>3, <3>1, <3>3 DEF Between
      <4> QED BY <2>1, <4>1
    <3> QED BY <1>1, <1>4, <3>2, <3>3
  <2>6. rd.cursor <= next /\ rd.cursor <= issued
    BY <1>1, <1>2, <1>3, <1>6, <1>9
  <2>7. rd.result => rd.phase = "returned"
    BY DEF Fits
  <2> QED BY <1>1, <1>8, <1>9, <1>10, <2>2, <2>3, <2>4, <2>5, <2>6, <2>7 DEF Fits, issued, w, Rising
<1>11. CASE /\ l = <<>> /\ seq = 0 /\ st = "ended" /\ ~new.open
            /\ new.wire = <<Record(0, ResultSize, TRUE)>>
  <2>1. /\ new.wire \in Seq(Records) /\ Len(new.wire) = 1
        /\ new.wire[1].seq = 0 /\ new.wire[1].result
    BY <1>11, SizesAssumption DEF Record, Records
  <2>2. new \in Streams
    BY <1>3, <1>8, <2>1 DEF Streams
  <2>3. \A i \in 1..Len(new.wire) : FrameFits(l, seq, st, new, rd, i)
    <3>1. SUFFICES ASSUME NEW i \in 1..Len(new.wire) PROVE FrameFits(l, seq, st, new, rd, i)
      OBVIOUS
    <3>2. i = 1
      BY <2>1
    <3> QED BY <1>11, <2>1, <3>2 DEF FrameFits
  <2>4. Covers(l, rd.cursor, next, new.wire)
    <3>1. Len(l) = 0
      BY <1>1, <1>11, EmptySeq
    <3> QED BY <3>1 DEF Covers
  <2>5. rd.cursor <= next /\ rd.cursor <= issued
    BY <1>1, <1>2, <1>3, <1>6, <1>9
  <2>6. \A i, j \in 1..Len(new.wire) : ~(i < j)
    BY <2>1
  <2>7. rd.result => rd.phase = "returned"
    BY DEF Fits
  <2> QED BY <1>1, <1>8, <1>9, <1>11, <2>2, <2>3, <2>4, <2>5, <2>6, <2>7 DEF Fits, issued
<1> QED BY <1>8, <1>10, <1>11

-----------------------------------------------------------------------------
(* Writing a record.                                                       *)

\* The numbers a log keeps.
Kept(l) == {l[i].seq : i \in DOMAIN l}

\* What RunLogPromise!Write says of the log before and after.
Writes(l, seq, l2, seq2) ==
    /\ IssuedOf(l2, seq2) \in Nat /\ IssuedOf(l2, seq2) > IssuedOf(l, seq)
    /\ Kept(l2) \subseteq Kept(l) \cup {IssuedOf(l2, seq2)}
    /\ \A old \in (Kept(l) \cup {IssuedOf(l2, seq2)}) \ Kept(l2) : \A k \in Kept(l2) : old < k

\* A record with the next number goes to the end of a log that has no result.
LEMMA AppendedInOrder ==
    ASSUME NEW l, NEW seq, NEW st, NEW r \in Records, LogOk(l, seq, st), st # "ended",
           r.seq = NextSeq(l, seq)
    PROVE  /\ InOrder(Append(l, r)) /\ Len(Append(l, r)) = Len(l) + 1 /\ Len(l) \in Nat
           /\ \A i \in 1..Len(l) : Append(l, r)[i] = l[i] /\ ~l[i].result /\ l[i].seq < r.seq
           /\ Append(l, r)[Len(l) + 1] = r
           /\ r.seq = IssuedOf(l, seq) + 1 /\ IssuedOf(l, seq) \in Nat
<1> DEFINE added == Append(l, r)
<1>1. l \in Seq(Records) /\ Len(l) \in Nat /\ InOrder(l) /\ seq \in Nat
  BY DEF LogOk, InOrder
<1>2. /\ added \in Seq(Records) /\ Len(added) = Len(l) + 1
      /\ \A i \in 1..Len(l) : added[i] = l[i]
      /\ added[Len(l) + 1] = r
  BY <1>1, AppendProperties
<1>3. IssuedOf(l, seq) \in Nat /\ \A i \in 1..Len(l) : l[i].seq <= IssuedOf(l, seq)
  BY IssuedTops
<1>4. r.seq = IssuedOf(l, seq) + 1
  BY DEF NextSeq, IssuedOf
<1>5. \A i \in 1..Len(l) : l[i] \in Records /\ l[i].seq \in Nat
  <2>1. \A i \in 1..Len(l) : l[i] \in Records
    BY <1>1, ElementOfSeq
  <2> QED BY <2>1 DEF Records
<1>6. \A i \in 1..Len(l) : ~l[i].result /\ l[i].seq < r.seq /\ 0 < l[i].seq
  <2>1. \A i \in 1..Len(l) : ~l[i].result /\ 0 < l[i].seq
    BY <1>1 DEF LogOk, InOrder
  <2> QED BY <1>3, <1>4, <1>5, <2>1
<1> HIDE DEF added
<1>7. \A i \in 1..Len(added) : i \in 1..Len(l) \/ i = Len(l) + 1
  BY <1>1, <1>2
<1>8. \A i \in 1..Len(added) : 0 < added[i].seq /\ (added[i].result => i = Len(added))
  <2> SUFFICES ASSUME NEW i \in 1..Len(added) PROVE 0 < added[i].seq /\ (added[i].result => i = Len(added))
    OBVIOUS
  <2>1. CASE i \in 1..Len(l)
    BY <1>2, <1>6, <2>1
  <2>2. CASE i = Len(l) + 1
    BY <1>2, <1>3, <1>4, <2>2
  <2> QED BY <1>7, <2>1, <2>2
<1>9. \A i, j \in 1..Len(added) : i < j => added[i].seq < added[j].seq
  <2> SUFFICES ASSUME NEW i \in 1..Len(added), NEW j \in 1..Len(added), i < j
               PROVE  added[i].seq < added[j].seq
    OBVIOUS
  <2>1. i \in 1..Len(l)
    BY <1>1, <1>2
  <2>2. CASE j \in 1..Len(l)
    BY <1>1, <1>2, <2>1, <2>2 DEF InOrder
  <2>3. CASE j = Len(l) + 1
    BY <1>2, <1>6, <2>1, <2>3
  <2> QED BY <1>7, <2>2, <2>3
<1> QED BY <1>1, <1>2, <1>3, <1>4, <1>6, <1>8, <1>9 DEF InOrder, added

\* The log after a record, when what is kept of it is an end.
LEMMA Written ==
    ASSUME NEW l, NEW seq, NEW st, NEW st2, NEW srv, NEW s, NEW rd, NEW r \in Records,
           LogOk(l, seq, st), st # "ended", Fits(l, seq, st, srv, s, rd),
           r.seq = NextSeq(l, seq), r.result => st2 = "ended",
           NEW n \in 0..Len(Append(l, r)), NEW l2, l2 = SubSeq(Append(l, r), n + 1, Len(Append(l, r)))
    PROVE  /\ LogOk(l2, r.seq, st2) /\ Fits(l2, r.seq, st2, srv, s, rd)
           /\ Writes(l, seq, l2, r.seq)
           /\ r.seq # 0
           /\ \A i \in 1..Len(s.wire) : ~s.wire[i].result
<1> DEFINE added == Append(l, r)
<1>1. /\ InOrder(added) /\ Len(added) = Len(l) + 1 /\ Len(l) \in Nat
      /\ \A i \in 1..Len(l) : added[i] = l[i] /\ ~l[i].result /\ l[i].seq < r.seq
      /\ added[Len(l) + 1] = r
      /\ r.seq = IssuedOf(l, seq) + 1 /\ IssuedOf(l, seq) \in Nat
  BY AppendedInOrder
<1>2. r.seq \in Nat /\ r.seq # 0 /\ IssuedOf(l2, r.seq) = r.seq /\ IssuedOf(l, seq) < r.seq
  BY <1>1 DEF Records, IssuedOf
<1> HIDE DEF added
<1> DEFINE top == Len(added)
<1>3. /\ l2 \in Seq(Records) /\ Len(l2) = top - n /\ InOrder(l2) /\ n \in Nat /\ top \in Nat /\ n <= top
      /\ \A i \in 1..(top - n) : l2[i] = added[n + i] /\ n + i \in 1..top
  <2>1. n + 1 \in 1..(Len(added) + 1) /\ Len(added) \in 0..Len(added) /\ n + 1 <= Len(added) + 1
        /\ n \in Nat /\ top \in Nat /\ n <= top
    BY <1>1 DEF added
  <2>2. /\ SubSeq(added, n + 1, Len(added)) \in Seq(Records)
        /\ Len(SubSeq(added, n + 1, Len(added))) = Len(added) - (n + 1) + 1
        /\ \A i \in 1..(Len(added) - (n + 1) + 1) :
              /\ SubSeq(added, n + 1, Len(added))[i] = added[n + 1 + i - 1]
              /\ n + 1 + i - 1 \in 1..Len(added)
        /\ InOrder(SubSeq(added, n + 1, Len(added)))
    BY <1>1, <2>1, PartOfLog
  <2>3. l2 = SubSeq(added, n + 1, Len(added))
    BY DEF added
  <2>4. Len(added) - (n + 1) + 1 = top - n /\ \A i \in 1..(top - n) : n + 1 + i - 1 = n + i
    BY <2>1
  <2>5. \A i \in 1..(top - n) : l2[i] = added[n + 1 + i - 1] /\ n + 1 + i - 1 \in 1..Len(added)
    BY <2>2, <2>3, <2>4
  <2>6. \A i \in 1..(top - n) : l2[i] = added[n + i] /\ n + i \in 1..top
    BY <2>4, <2>5
  <2>7. l2 \in Seq(Records) /\ Len(l2) = top - n /\ InOrder(l2)
    BY <2>2, <2>3, <2>4
  <2> HIDE DEF top
  <2> QED BY <2>1, <2>6, <2>7
<1>4. \A i \in 1..Len(added) : \/ i \in 1..Len(l) /\ added[i] = l[i] /\ ~added[i].result /\ added[i].seq < r.seq
                               \/ i = Len(l) + 1 /\ added[i] = r
  <2>1. \A i \in 1..Len(added) : i \in 1..Len(l) \/ i = Len(l) + 1
    BY <1>1
  <2> QED BY <1>1, <2>1
<1>5. LogOk(l2, r.seq, st2)
  <2>1. SUFFICES ASSUME NEW i \in 1..Len(l2)
                 PROVE  l2[i].seq <= r.seq /\ (l2[i].result => st2 = "ended" /\ l2[i].seq = r.seq)
    BY <1>2, <1>3 DEF LogOk
  <2>2. n + i \in 1..Len(added) /\ l2[i] = added[n + i]
    BY <1>3
  <2>3. CASE added[n + i] = r
    <3>1. l2[i] = r /\ r.seq \in Nat
      BY <1>2, <2>2, <2>3
    <3>2. r.seq <= r.seq
      BY <3>1
    <3> QED BY <3>1, <3>2
  <2>4. CASE ~added[n + i].result /\ added[n + i].seq < r.seq
    <3>1. l2[i].seq \in Nat
      <4>1. l2[i] \in Records
        BY <1>3, ElementOfSeq
      <4> QED BY <4>1 DEF Records
    <3>2. l2[i].seq < r.seq /\ ~l2[i].result
      <4> HIDE DEF added
      <4> QED BY <2>2, <2>4
    <3>3. r.seq \in Nat
      BY DEF Records
    <3>4. l2[i].seq <= r.seq
      BY <3>1, <3>2, <3>3, LessIsAtMost, Zenon
    <3> QED BY <3>2, <3>4
  <2> QED BY <1>4, <2>2, <2>3, <2>4
<1>6. \A i \in 1..Len(s.wire) : s.wire[i].seq # 0 /\ ~s.wire[i].result
  BY DEF Fits, FrameFits
<1>7. rd.phase = "reading" => Covers(l2, rd.cursor, s.after, s.wire)
  <2>1. SUFFICES ASSUME rd.phase = "reading", NEW j \in 1..Len(l2), rd.cursor < l2[j].seq, l2[j].seq <= s.after
                 PROVE  \E i \in 1..Len(s.wire) : s.wire[i].seq = l2[j].seq
    BY DEF Covers
  <2>2. s.after <= IssuedOf(l, seq) /\ Covers(l, rd.cursor, s.after, s.wire) /\ s.after \in Nat
    BY <2>1 DEF Fits, Streams
  <2>3. n + j \in 1..Len(added) /\ l2[j] = added[n + j]
    BY <1>3
  <2>4. added[n + j] # r
    <3>1. r.seq \in Nat /\ ~(r.seq <= s.after)
      BY <1>1, <1>2, <2>2
    <3> QED BY <2>1, <2>3, <3>1
  <2>5. n + j \in 1..Len(l) /\ l2[j] = l[n + j]
    BY <1>4, <2>3, <2>4
  <2> QED BY <2>1, <2>2, <2>5 DEF Covers
<1>8. Fits(l2, r.seq, st2, srv, s, rd)
  <2>1. /\ s \in Streams /\ rd \in Readers
        /\ \A i, j \in 1..Len(s.wire) : i < j => s.wire[i].seq < s.wire[j].seq
        /\ rd.cursor <= IssuedOf(l, seq)
        /\ IF rd.phase = "reading"
           THEN rd.cursor <= s.after /\ s.after <= IssuedOf(l, seq)
           ELSE s = NoStream
        /\ s.open => srv # "down"
        /\ s.draining => s.open
        /\ rd.result => rd.phase = "returned"
    BY DEF Fits
  <2>2. rd.cursor \in Nat /\ s.after \in Nat
    BY <2>1 DEF Streams, Readers
  <2>3. rd.cursor <= r.seq /\ (rd.phase = "reading" => s.after <= r.seq)
    BY <1>1, <2>1, <2>2
  <2>4. \A i \in 1..Len(s.wire) : FrameFits(l2, r.seq, st2, s, rd, i)
    BY <1>6 DEF Fits, FrameFits
  <2> QED BY <1>2, <1>7, <2>1, <2>3, <2>4 DEF Fits
<1>9. Writes(l, seq, l2, r.seq)
  <2>1. DOMAIN l = 1..Len(l) /\ DOMAIN l2 = 1..Len(l2)
    BY <1>3, LenProperties DEF LogOk, InOrder
  <2>2. Kept(l2) \subseteq Kept(l) \cup {r.seq}
    <3> SUFFICES ASSUME NEW i \in 1..Len(l2) PROVE l2[i].seq \in Kept(l) \cup {r.seq}
      BY <2>1 DEF Kept
    <3>1. n + i \in 1..Len(added) /\ l2[i] = added[n + i]
      BY <1>3
    <3> QED BY <1>4, <2>1, <3>1 DEF Kept
  <2>3. ASSUME NEW old \in Kept(l) \cup {r.seq}, old \notin Kept(l2), NEW k \in Kept(l2)
        PROVE  old < k
    <3>1. PICK x \in 1..Len(added) : added[x].seq = old
      <4>1. CASE old = r.seq
        <5>1. Len(l) + 1 \in 1..Len(added)
          BY <1>1
        <5> QED BY <1>1, <4>1, <5>1 DEF added
      <4>2. CASE old \in Kept(l)
        <5>1. PICK i \in 1..Len(l) : l[i].seq = old
          BY <2>1, <4>2 DEF Kept
        <5>2. i \in 1..Len(added) /\ added[i] = l[i]
          BY <1>1 DEF added
        <5> QED BY <5>1, <5>2
      <4> QED BY <2>3, <4>1, <4>2
    <3>2. PICK y \in 1..Len(l2) : l2[y].seq = k
      BY <2>1, <2>3 DEF Kept
    <3>3. n + y \in 1..Len(added) /\ l2[y] = added[n + y]
      BY <1>3
    <3>4. ~(n < x)
      <4>1. SUFFICES ASSUME n < x PROVE FALSE
        OBVIOUS
      <4>2. x - n \in 1..(top - n) /\ n + (x - n) = x
        BY <1>3, <4>1
      <4>3. l2[x - n] = added[x] /\ x - n \in DOMAIN l2
        BY <1>3, <2>1, <4>2
      <4> QED BY <2>3, <3>1, <4>3 DEF Kept
    <3>5. x < n + y
      BY <1>3, <3>4
    <3> QED BY <1>1, <3>1, <3>2, <3>3, <3>5 DEF InOrder
  <2> QED BY <1>2, <2>2, <2>3 DEF Writes
<1> QED BY <1>2, <1>5, <1>6, <1>8, <1>9
-----------------------------------------------------------------------------
(* The steps.                                                              *)

LEMMA WokenFits ==
    ASSUME NEW l, NEW seq, NEW st, NEW srv, srv # "down", follow \in BOOLEAN,
           LogOk(l, seq, st), Fits(l, seq, st, srv, stream, reader), seq # 0,
           \A i \in 1..Len(stream.wire) : ~stream.wire[i].result,
           \/ st = "ended" /\ Woken(l, seq, TRUE)
           \/ st # "ended" /\ Woken(l, seq, FALSE)
    PROVE  Fits(l, seq, st, srv, stream', reader)
<1>1. CASE stream.open /\ ~stream.draining
  <2>1. \E k \in Pushback(stream, l) : Pumped(stream, k, l, seq, st, stream')
    BY <1>1 DEF Woken, Pumped
  <2>2. PICK k \in 0..Len(Unread(l, stream.after)) : Pumped(stream, k, l, seq, st, stream')
    BY <2>1 DEF Pushback
  <2>3. reader.phase = "reading"
    BY <1>1 DEF Fits, NoStream
  <2> QED BY <2>2, <2>3, PumpFits
<1>2. CASE ~(stream.open /\ ~stream.draining)
  <2>1. stream' = stream
    BY <1>2 DEF Woken
  <2> QED BY <2>1
<1> QED BY <1>1, <1>2

\* What the promise sees of the state.
Seen == <<IssuedOf(log, lastSeq), Kept(log), reader.cursor, reader.result>>

PromiseStep == Promise!Next \/ UNCHANGED Seen

LEMMA WriteIsPromised ==
    ASSUME Writes(log, lastSeq, log', lastSeq'), UNCHANGED reader
    PROVE  PromiseStep
<1>1. Promise!Write
  BY DEF Writes, Promise!Write, IssuedOf, Kept
<1> QED BY <1>1 DEF PromiseStep, Promise!Next

LEMMA AppendEventStep ==
    ASSUME LogInv, NEW b \in Size, AppendEvent(b)
    PROVE  LogInv' /\ PromiseStep
<1> DEFINE r == Record(NextSeq(log, lastSeq), b, FALSE)
           added == Append(log, r)
           total == IF cache = Unknown THEN Bytes(added) ELSE Counted(b)
<1>1. /\ server = "up" /\ status = "running" /\ lastSeq' = r.seq
      /\ log' = Evicted(added, total).rows
      /\ Woken(log', lastSeq', FALSE)
      /\ server' = server /\ status' = status /\ reader' = reader /\ UNCHANGED caller
  BY DEF AppendEvent, Record
<1>2. /\ LogOk(log, lastSeq, status) /\ Fits(log, lastSeq, status, server, stream, reader)
      /\ follow \in BOOLEAN
  BY DEF LogInv
<1>3. r \in Records /\ r.seq = NextSeq(log, lastSeq) /\ r.result = FALSE
  <2>1. NextSeq(log, lastSeq) \in Nat
    <3>1. IssuedOf(log, lastSeq) \in Nat /\ lastSeq \in Nat
      BY <1>2, IssuedTops DEF LogOk
    <3> QED BY <3>1 DEF IssuedOf, NextSeq
  <2> QED BY <2>1, SizesAssumption DEF Record, Records
<1>4. Len(added) \in Nat
  <2>1. r.seq = NextSeq(log, lastSeq) /\ status # "ended"
    BY <1>1, <1>3
  <2> HIDE DEF r
  <2> QED BY <1>2, <1>3, <2>1, AppendedInOrder
<1> HIDE DEF r, total
<1>5. PICK n \in 0..Len(added) : log' = SubSeq(added, n + 1, Len(added))
  <2> HIDE DEF added
  <2>1. \E n \in 0..Len(added) : Evicted(added, total).rows = SubSeq(added, n + 1, Len(added))
    BY <1>4, EvictionLeavesAnEnd
  <2> QED BY <1>1, <2>1
<1>6. /\ LogOk(log', lastSeq', status) /\ Fits(log', lastSeq', status, server, stream, reader)
      /\ Writes(log, lastSeq, log', lastSeq') /\ lastSeq' # 0
      /\ \A i \in 1..Len(stream.wire) : ~stream.wire[i].result
  BY <1>1, <1>2, <1>3, <1>5, Written
<1>7. Fits(log', lastSeq', status, server, stream', reader)
  BY <1>1, <1>2, <1>6, WokenFits
<1>8. LogInv'
  BY <1>1, <1>2, <1>6, <1>7 DEF LogInv, caller
<1> QED BY <1>1, <1>6, <1>8, WriteIsPromised

LEMMA ResultStep ==
    ASSUME LogInv, status # "ended", server # "down", server' # "down", server' \in {"listening", "up"},
           Result, UNCHANGED <<reader, caller>>
    PROVE  LogInv' /\ PromiseStep
<1> DEFINE r == Record(NextSeq(log, lastSeq), ResultSize, TRUE)
           added == Append(log, r)
<1>1. /\ lastSeq' = r.seq /\ status' = "ended" /\ log' = added
      /\ Woken(log', lastSeq', TRUE)
      /\ reader' = reader /\ UNCHANGED caller
  BY DEF Result, Record
<1>2. /\ LogOk(log, lastSeq, status) /\ Fits(log, lastSeq, status, server, stream, reader)
      /\ follow \in BOOLEAN
  BY DEF LogInv
<1>3. r \in Records /\ r.seq = NextSeq(log, lastSeq)
  <2>1. NextSeq(log, lastSeq) \in Nat
    <3>1. IssuedOf(log, lastSeq) \in Nat /\ lastSeq \in Nat
      BY <1>2, IssuedTops DEF LogOk
    <3> QED BY <3>1 DEF IssuedOf, NextSeq
  <2> QED BY <2>1, SizesAssumption DEF Record, Records
<1> HIDE DEF r
<1>4. Len(added) \in Nat /\ added \in Seq(Records)
  <2>1. InOrder(added) /\ Len(added) = Len(log) + 1 /\ Len(log) \in Nat
    BY <1>2, <1>3, AppendedInOrder
  <2> QED BY <2>1 DEF InOrder
<1>5. 0 \in 0..Len(added) /\ log' = SubSeq(added, 0 + 1, Len(added))
  <2>1. SubSeq(added, 1, Len(added)) = added
    BY <1>4, SubSeqFull
  <2> QED BY <1>1, <1>4, <2>1
<1>6. /\ LogOk(log', lastSeq', "ended") /\ Fits(log', lastSeq', "ended", server, stream, reader)
      /\ Writes(log, lastSeq, log', lastSeq') /\ lastSeq' # 0
      /\ \A i \in 1..Len(stream.wire) : ~stream.wire[i].result
  BY <1>1, <1>2, <1>3, <1>5, Written
<1>7. Fits(log', lastSeq', "ended", server', stream, reader)
  BY <1>6 DEF Fits
<1>8. Fits(log', lastSeq', "ended", server', stream', reader)
  BY <1>1, <1>2, <1>6, <1>7, WokenFits
<1>9. LogInv'
  BY <1>1, <1>2, <1>6, <1>8 DEF LogInv, caller
<1> QED BY <1>1, <1>6, <1>9, WriteIsPromised

LEMMA FinishRunStep ==
    ASSUME LogInv, FinishRun
    PROVE  LogInv' /\ PromiseStep
<1>1. /\ status # "ended" /\ server = "up" /\ server' = server
      /\ Result /\ UNCHANGED <<reader, caller>>
  BY DEF FinishRun, Ended
<1> QED BY <1>1, ResultStep

LEMMA RecoverStep ==
    ASSUME LogInv, Recover
    PROVE  LogInv' /\ PromiseStep
<1>1. server = "listening" /\ server' = "up" /\ UNCHANGED <<reader, caller>>
  BY DEF Recover
<1>2. CASE status = "running"
  <2>1. Result
    BY <1>2 DEF Recover
  <2> QED BY <1>1, <1>2, <2>1, ResultStep
<1>3. CASE status # "running"
  <2>1. status' = status /\ log' = log /\ lastSeq' = lastSeq /\ stream' = stream
    BY <1>3 DEF Recover, store
  <2>2. Fits(log, lastSeq, status, server', stream, reader)
    BY <1>1 DEF LogInv, Fits
  <2>3. LogInv'
    BY <1>1, <2>1, <2>2 DEF LogInv, caller
  <2> QED BY <1>1, <2>1, <2>3 DEF PromiseStep, Seen
<1> QED BY <1>2, <1>3
LEMMA ClaimRunStep ==
    ASSUME LogInv, ClaimRun
    PROVE  LogInv' /\ PromiseStep
<1>1. /\ status = "pending" /\ status' = "running"
      /\ UNCHANGED <<server, log, lastSeq, stream, reader, caller>>
  BY DEF ClaimRun
<1>2. LogOk(log, lastSeq, status') /\ Fits(log, lastSeq, status', server, stream, reader)
  BY <1>1 DEF LogInv, LogOk, Fits, FrameFits
<1>3. LogInv'
  BY <1>1, <1>2 DEF LogInv, caller
<1> QED BY <1>1, <1>3 DEF PromiseStep, Seen

LEMMA StartDaemonStep ==
    ASSUME LogInv, StartDaemon
    PROVE  LogInv' /\ PromiseStep
<1>1. /\ server = "down" /\ server' = "listening"
      /\ lastSeq' = IssuedOf(log, lastSeq)
      /\ reader' = IF reader.phase = "found" THEN [reader EXCEPT !.phase = "stale"] ELSE reader
      /\ UNCHANGED <<status, log, stream, caller>>
  BY DEF StartDaemon, IssuedOf
<1>2. LogOk(log, lastSeq, status) /\ Fits(log, lastSeq, status, server, stream, reader)
  BY DEF LogInv
<1>3. /\ IssuedOf(log, lastSeq) \in Nat /\ InOrder(log)
      /\ \A i \in 1..Len(log) : log[i].seq <= IssuedOf(log, lastSeq)
  BY <1>2, IssuedTops DEF LogOk
<1>4. IssuedOf(log, lastSeq') = IssuedOf(log, lastSeq)
  BY <1>1 DEF IssuedOf
<1>5. LogOk(log, lastSeq', status)
  BY <1>1, <1>2, <1>3, <1>4 DEF LogOk
<1>6. log # <<>> => lastSeq' # 0
  <2>1. SUFFICES ASSUME log # <<>> PROVE lastSeq' # 0
    OBVIOUS
  <2>2. log \in Seq(Records) /\ Len(log) \in Nat
    BY <1>3 DEF InOrder
  <2>3. 1 \in 1..Len(log)
    BY <2>1, <2>2, EmptySeq
  <2>4. log[1] \in Records
    BY <2>2, <2>3, ElementOfSeq
  <2>5. log[1].seq \in Nat /\ 0 < log[1].seq /\ log[1].seq <= lastSeq'
    BY <1>1, <1>3, <2>3, <2>4 DEF InOrder, Records
  <2> QED BY <1>1, <1>3, <2>5
<1>9. /\ reader' \in Readers /\ reader'.cursor = reader.cursor /\ reader'.result = reader.result
      /\ reader.phase = "reading" <=> reader'.phase = "reading"
      /\ reader.phase = "returned" => reader'.phase = "returned"
  <2>1. reader \in Readers
    BY <1>2 DEF Fits
  <2>2. CASE reader.phase = "found"
    BY <1>1, <2>1, <2>2 DEF Readers
  <2>3. CASE reader.phase # "found"
    BY <1>1, <2>1, <2>3
  <2> QED BY <2>2, <2>3
<1>7. Fits(log, lastSeq', status, server', stream, reader')
  <2>1. lastSeq = 0 /\ log = <<>> => lastSeq' = 0
    BY <1>1 DEF IssuedOf, Highest
  <2>2. \A i \in 1..Len(stream.wire) : FrameFits(log, lastSeq', status, stream, reader', i)
    BY <1>2, <1>4, <1>9, <2>1 DEF Fits, FrameFits
  <2> QED BY <1>1, <1>2, <1>4, <1>9, <2>2 DEF Fits, Covers
<1>8. LogInv'
  BY <1>1, <1>5, <1>6, <1>7 DEF LogInv, caller
<1> QED BY <1>1, <1>4, <1>8, <1>9 DEF PromiseStep, Seen

LEMMA CloseDaemonStep ==
    ASSUME LogInv, CloseDaemon
    PROVE  LogInv' /\ PromiseStep
<1>1. /\ server = "up" /\ server' = "down"
      /\ stream' = [stream EXCEPT !.open = FALSE, !.draining = FALSE]
      /\ UNCHANGED <<status, log, lastSeq, reader, caller>>
  BY DEF CloseDaemon, store
<1>2. LogOk(log, lastSeq, status) /\ Fits(log, lastSeq, status, server, stream, reader)
  BY DEF LogInv
<1>3. stream \in Streams
  BY <1>2 DEF Fits
<1>4. /\ stream' \in Streams /\ stream'.open = FALSE /\ stream'.draining = FALSE
      /\ stream'.after = stream.after /\ stream'.wire = stream.wire
      /\ stream = NoStream => stream' = NoStream
  <2>1. PICK halfway : halfway = [stream EXCEPT !.open = FALSE]
    OBVIOUS
  <2>2. /\ halfway \in Streams /\ halfway.open = FALSE
        /\ halfway.after = stream.after /\ halfway.wire = stream.wire /\ halfway.draining = stream.draining
    BY <1>3, <2>1 DEF Streams
  <2>3. stream' = [halfway EXCEPT !.draining = FALSE]
    BY <1>1, <2>1
  <2>4. /\ stream' \in Streams /\ stream'.open = FALSE /\ stream'.draining = FALSE
        /\ stream'.after = stream.after /\ stream'.wire = stream.wire
    BY <2>2, <2>3 DEF Streams
  <2>5. stream' = [open |-> stream'.open, after |-> stream'.after, draining |-> stream'.draining, wire |-> stream'.wire]
    BY <2>4 DEF Streams
  <2> QED BY <2>4, <2>5 DEF NoStream
<1>5. \A i \in 1..Len(stream'.wire) : FrameFits(log, lastSeq, status, stream', reader, i)
  BY <1>2, <1>4 DEF Fits, FrameFits
<1>6. Fits(log, lastSeq, status, server', stream', reader)
  BY <1>2, <1>4, <1>5 DEF Fits
<1>7. LogInv'
  BY <1>1, <1>2, <1>6 DEF LogInv, caller
<1> QED BY <1>1, <1>7 DEF PromiseStep, Seen

\* A response gone leaves the CLI where its last record put it.
LEMMA FitsWithoutStream ==
    ASSUME NEW l, NEW seq, NEW st, NEW srv, NEW rd,
           rd \in Readers, rd.cursor <= IssuedOf(l, seq),
           rd.phase # "reading", rd.result => rd.phase = "returned"
    PROVE  Fits(l, seq, st, srv, NoStream, rd)
<1>1. NoStream \in Streams /\ Len(NoStream.wire) = 0 /\ NoStream.open = FALSE /\ NoStream.draining = FALSE
  BY DEF NoStream, Streams
<1>2. 1..Len(NoStream.wire) = {}
  BY <1>1
<1> QED BY <1>1, <1>2 DEF Fits

LEMMA ReadEndStep ==
    ASSUME LogInv, ReadEnd \/ Break
    PROVE  LogInv' /\ PromiseStep
<1>1. /\ reader.phase = "reading" /\ stream' = NoStream
      /\ \E last \in {"away", "returned", "failed"} : reader' = [reader EXCEPT !.phase = last]
      /\ server' \in {server, "down"}
      /\ UNCHANGED <<status, log, lastSeq, caller>>
  BY DEF ReadEnd, Break, AfterDrop, store
<1>2. LogOk(log, lastSeq, status) /\ reader \in Readers /\ reader.cursor <= IssuedOf(log, lastSeq)
      /\ ~reader.result
  BY <1>1 DEF LogInv, Fits
<1>3. /\ reader' \in Readers /\ reader'.cursor = reader.cursor /\ reader'.result = reader.result
      /\ reader'.phase # "reading"
  BY <1>1, <1>2 DEF Readers
<1>4. Fits(log, lastSeq, status, server', NoStream, reader')
  BY <1>2, <1>3, FitsWithoutStream
<1>5. LogInv'
  BY <1>1, <1>2, <1>4 DEF LogInv, caller
<1> QED BY <1>1, <1>3, <1>5 DEF PromiseStep, Seen

\* A CLI that looks for a daemon, or fails to reach one, has no stream.
LEMMA LookingStep ==
    ASSUME LogInv, Discover \/ GiveUp \/ ConnectFails \/ Unauthorized
    PROVE  LogInv' /\ PromiseStep
<1>1. /\ reader.phase \in {"away", "found", "stale"}
      /\ \E next \in {"away", "found", "failed"} : reader' = [reader EXCEPT !.phase = next]
      /\ UNCHANGED <<server, status, log, lastSeq, stream, caller>>
  BY DEF Discover, GiveUp, ConnectFails, Unauthorized, AfterDrop, store
<1>2. LogOk(log, lastSeq, status) /\ reader \in Readers /\ reader.cursor <= IssuedOf(log, lastSeq)
      /\ ~reader.result /\ stream = NoStream
  BY <1>1 DEF LogInv, Fits
<1>3. /\ reader' \in Readers /\ reader'.cursor = reader.cursor /\ reader'.result = reader.result
      /\ reader'.phase # "reading"
  BY <1>1, <1>2 DEF Readers
<1>4. Fits(log, lastSeq, status, server', NoStream, reader')
  BY <1>2, <1>3, FitsWithoutStream
<1>5. LogInv'
  BY <1>1, <1>2, <1>4 DEF LogInv, caller
<1> QED BY <1>1, <1>3, <1>5 DEF PromiseStep, Seen

LEMMA DrainStep ==
    ASSUME LogInv, Drain
    PROVE  LogInv' /\ PromiseStep
<1> DEFINE s == [stream EXCEPT !.draining = FALSE]
<1>1. /\ stream.open
      /\ UNCHANGED <<server, status, log, lastSeq, reader, caller>>
  BY DEF Drain, store
<1>2. PICK k \in 0..Len(Unread(log, s.after)) : stream' = Sent(s, k, log, lastSeq, Ended)
  BY DEF Drain, Pushback
<1>3. /\ LogOk(log, lastSeq, status) /\ Fits(log, lastSeq, status, server, stream, reader)
      /\ follow \in BOOLEAN /\ server # "down" /\ reader.phase = "reading"
      /\ log # <<>> => lastSeq # 0
  BY <1>1 DEF LogInv, Fits, NoStream
<1>4. /\ s \in Streams /\ s.open = stream.open /\ s.draining = FALSE /\ s.after = stream.after
      /\ s.wire = stream.wire
  <2>1. stream \in Streams
    BY <1>3 DEF Fits
  <2> QED BY <2>1 DEF Streams
<1>5. Pumped(s, k, log, lastSeq, status, stream')
  <2>1. CASE status = "ended"
    <3>1. Ended = TRUE
      BY <2>1 DEF Ended
    <3> QED BY <1>2, <2>1, <3>1 DEF Pumped
  <2>2. CASE status # "ended"
    <3>1. Ended = FALSE
      BY <2>2 DEF Ended
    <3> QED BY <1>2, <2>2, <3>1 DEF Pumped
  <2> QED BY <2>1, <2>2
<1> HIDE DEF s
<1>6. \A i \in 1..Len(s.wire) : FrameFits(log, lastSeq, status, s, reader, i) /\ ~s.wire[i].result
  BY <1>1, <1>3, <1>4 DEF Fits, FrameFits
<1>7. Fits(log, lastSeq, status, server, s, reader)
  BY <1>3, <1>4, <1>6 DEF Fits
<1>8. Fits(log, lastSeq, status, server, stream', reader)
  BY <1>3, <1>5, <1>6, <1>7, PumpFits
<1>9. LogInv'
  BY <1>1, <1>3, <1>8 DEF LogInv, caller
<1> QED BY <1>1, <1>9 DEF PromiseStep, Seen

LEMMA ConnectStep ==
    ASSUME LogInv, Connect
    PROVE  LogInv' /\ PromiseStep
<1> DEFINE s == [NoStream EXCEPT !.after = reader.cursor]
<1>1. /\ reader.phase = "found" /\ server # "down"
      /\ reader' = [reader EXCEPT !.phase = "reading"]
      /\ UNCHANGED <<server, status, log, lastSeq, caller>>
  BY DEF Connect, store
<1>2. PICK k \in 0..Len(Unread(log, s.after)) : stream' = Sent(s, k, log, lastSeq, Ended)
  BY DEF Connect, Pushback
<1>3. /\ LogOk(log, lastSeq, status) /\ reader \in Readers /\ reader.cursor <= IssuedOf(log, lastSeq)
      /\ ~reader.result /\ follow \in BOOLEAN
      /\ log # <<>> => lastSeq # 0
  BY <1>1 DEF LogInv, Fits
<1>4. /\ reader' \in Readers /\ reader'.phase = "reading" /\ reader'.cursor = reader.cursor
      /\ reader'.result = reader.result /\ reader.cursor \in Nat
  BY <1>1, <1>3 DEF Readers
<1>5. /\ s \in Streams /\ s.open = FALSE /\ s.draining = FALSE /\ s.after = reader.cursor
      /\ s.wire = <<>> /\ Len(s.wire) = 0
  <2>1. /\ NoStream \in Streams
        /\ NoStream.open = FALSE /\ NoStream.draining = FALSE /\ NoStream.wire = <<>>
    BY EmptySeq DEF NoStream, Streams
  <2>2. Len(<<>>) = 0
    BY EmptySeq
  <2>3. /\ s.open = FALSE /\ s.draining = FALSE /\ s.after = reader.cursor /\ s.wire = <<>>
        /\ s \in Streams
    BY <1>4, <2>1 DEF Streams
  <2> QED BY <2>2, <2>3
<1>6. Pumped(s, k, log, lastSeq, status, stream')
  <2>1. CASE status = "ended"
    <3>1. Ended = TRUE
      BY <2>1 DEF Ended
    <3> QED BY <1>2, <2>1, <3>1 DEF Pumped
  <2>2. CASE status # "ended"
    <3>1. Ended = FALSE
      BY <2>2 DEF Ended
    <3> QED BY <1>2, <2>2, <3>1 DEF Pumped
  <2> QED BY <2>1, <2>2
<1> HIDE DEF s
<1>7. Fits(log, lastSeq, status, server, s, reader')
  <2>1. 1..Len(s.wire) = {}
    BY <1>5
  <2>2. Covers(log, reader'.cursor, s.after, s.wire)
    <3>1. \A j \in 1..Len(log) : log[j].seq \in Nat
      <4>1. \A j \in 1..Len(log) : log[j] \in Records
        BY <1>3, ElementOfSeq DEF LogOk, InOrder
      <4> QED BY <4>1 DEF Records
    <3> QED BY <1>4, <1>5, <3>1 DEF Covers
  <2>3. reader'.cursor <= s.after
    BY <1>4, <1>5
  <2> QED BY <1>3, <1>4, <1>5, <2>1, <2>2, <2>3 DEF Fits
<1>8. \A i \in 1..Len(s.wire) : ~s.wire[i].result
  BY <1>5
<1>9. Fits(log, lastSeq, status, server, stream', reader')
  BY <1>1, <1>2, <1>3, <1>4, <1>6, <1>7, <1>8, PumpFits
<1>10. LogInv'
  BY <1>1, <1>3, <1>9 DEF LogInv, caller
<1> QED BY <1>1, <1>4, <1>10 DEF PromiseStep, Seen
LEMMA ReadFrameStep ==
    ASSUME LogInv, ReadFrame
    PROVE  LogInv' /\ PromiseStep
<1> DEFINE wire == stream.wire
           e == wire[1]
<1>1. /\ reader.phase = "reading" /\ wire # <<>>
      /\ UNCHANGED <<server, status, log, lastSeq, caller>>
  BY DEF ReadFrame, store
<1>2. /\ LogOk(log, lastSeq, status) /\ Fits(log, lastSeq, status, server, stream, reader)
      /\ stream \in Streams /\ reader \in Readers /\ ~reader.result
  BY <1>1 DEF LogInv, Fits
<1>3. wire \in Seq(Records) /\ Len(wire) \in Nat /\ reader.cursor \in Nat /\ stream.after \in Nat
  <2>1. wire \in Seq(Records) /\ reader.cursor \in Nat /\ stream.after \in Nat
    BY <1>2 DEF Streams, Readers
  <2> QED BY <2>1, LenProperties
<1>4. 1 \in 1..Len(wire) /\ Head(wire) = e
  BY <1>1, <1>3, EmptySeq
<1>5. \A i \in 1..Len(wire) : wire[i] \in Records /\ wire[i].seq \in Nat
  <2>1. \A i \in 1..Len(wire) : wire[i] \in Records
    BY <1>3, ElementOfSeq
  <2> QED BY <2>1 DEF Records
<1>6. /\ reader' = [phase  |-> IF e.result THEN "returned" ELSE "reading",
                    cursor |-> IF e.seq = 0 THEN reader.cursor ELSE e.seq,
                    result |-> e.result]
      /\ stream' = IF e.result THEN NoStream ELSE [stream EXCEPT !.wire = Tail(@)]
  BY <1>4 DEF ReadFrame
<1>7. FrameFits(log, lastSeq, status, stream, reader, 1)
  BY <1>2, <1>4 DEF Fits
<1>8. /\ IssuedOf(log, lastSeq) \in Nat
      /\ \A i \in 1..Len(log) : log[i].seq <= IssuedOf(log, lastSeq)
  BY <1>2, IssuedTops
<1>9. /\ reader.cursor <= stream.after /\ stream.after <= IssuedOf(log, lastSeq)
      /\ Covers(log, reader.cursor, stream.after, wire)
      /\ \A i \in 1..Len(wire) : 1 < i => e.seq < wire[i].seq
  BY <1>1, <1>2, <1>4 DEF Fits
<1>10. \A i \in 1..Len(log) : log[i] \in Records /\ log[i].seq \in Nat
  <2>1. \A i \in 1..Len(log) : log[i] \in Records
    BY <1>2, ElementOfSeq DEF LogOk, InOrder
  <2> QED BY <2>1 DEF Records
<1>11. DOMAIN log = 1..Len(log)
  BY <1>2, LenProperties DEF LogOk, InOrder
<1>12. e \in Records /\ e.seq \in Nat /\ e.result \in BOOLEAN
  BY <1>4, <1>5 DEF Records
<1> HIDE DEF e, wire
<1>13. CASE e.seq = 0
  <2>1. lastSeq = 0 /\ log = <<>> /\ status = "ended" /\ e.result
    BY <1>7, <1>13 DEF FrameFits, e, wire
  <2>2. reader' = [phase |-> "returned", cursor |-> reader.cursor, result |-> e.result] /\ stream' = NoStream
    BY <1>6, <1>13, <2>1
  <2>3. reader' \in Readers /\ reader'.cursor = reader.cursor /\ reader'.phase = "returned" /\ reader'.result = e.result
    BY <1>3, <1>12, <2>2 DEF Readers
  <2>4. Fits(log, lastSeq, status, server, NoStream, reader')
    BY <1>3, <1>8, <1>9, <2>3, FitsWithoutStream
  <2>5. LogInv'
    BY <1>1, <2>2, <2>4 DEF LogInv, caller
  <2>6. Promise!TellUnlogged
    BY <1>1, <1>2, <2>1, <2>3 DEF Promise!TellUnlogged, Highest
  <2> QED BY <2>5, <2>6 DEF PromiseStep, Promise!Next
<1>14. CASE e.seq # 0
  <2>1. /\ reader.cursor < e.seq /\ e.seq <= stream.after
        /\ e.result => /\ status = "ended" /\ ~stream.open
                       /\ e.seq = IssuedOf(log, lastSeq)
    BY <1>7, <1>14 DEF FrameFits, e, wire
  <2>2. reader'.cursor = e.seq /\ reader'.result = e.result
    BY <1>6, <1>14
  <2>3. ASSUME NEW j \in 1..Len(log), reader.cursor < log[j].seq, log[j].seq < e.seq PROVE FALSE
    <3>1. log[j].seq <= stream.after
      BY <1>3, <1>10, <1>12, <2>1, <2>3
    <3>2. PICK i \in 1..Len(wire) : wire[i].seq = log[j].seq
      BY <1>9, <2>3, <3>1 DEF Covers
    <3>3. i = 1 \/ 1 < i
      OBVIOUS
    <3>4. e.seq <= wire[i].seq
      <4>1. CASE i = 1
        BY <1>12, <4>1 DEF e
      <4>2. CASE 1 < i
        BY <1>5, <1>9, <1>12, <4>2
      <4> QED BY <3>3, <4>1, <4>2
    <3> QED BY <1>10, <1>12, <2>3, <3>2, <3>4
  <2>4. Promise!Tell
    <3>1. e.seq <= IssuedOf(log, lastSeq)
      BY <1>3, <1>8, <1>9, <1>12, <2>1
    <3>2. Promise!NoneSkipped
      BY <1>11, <2>2, <2>3 DEF Promise!NoneSkipped
    <3>3. e.result => \A i \in DOMAIN log : log[i].seq <= e.seq
      BY <1>8, <1>11, <2>1
    <3>4. log' = log /\ lastSeq' = lastSeq
      BY <1>1
    <3> QED BY <1>2, <1>12, <2>1, <2>2, <3>1, <3>2, <3>3, <3>4 DEF Promise!Tell, IssuedOf
  <2>5. CASE e.result
    <3>1. reader' = [phase |-> "returned", cursor |-> e.seq, result |-> TRUE] /\ stream' = NoStream
      BY <1>6, <1>12, <1>14, <2>5
    <3>2. reader' \in Readers /\ reader'.cursor = e.seq /\ reader'.phase = "returned"
      BY <1>12, <3>1 DEF Readers
    <3>3. e.seq <= IssuedOf(log, lastSeq)
      BY <1>8, <2>1, <2>5
    <3>4. Fits(log, lastSeq, status, server, NoStream, reader')
      BY <3>2, <3>3, FitsWithoutStream
    <3>5. LogInv'
      BY <1>1, <3>1, <3>4 DEF LogInv, caller
    <3> QED BY <2>4, <3>5 DEF PromiseStep, Promise!Next
  <2>6. CASE ~e.result
    <3>1. reader' = [phase |-> "reading", cursor |-> e.seq, result |-> FALSE]
          /\ stream' = [stream EXCEPT !.wire = Tail(@)]
      BY <1>6, <1>12, <1>14, <2>6
    <3>2. reader' \in Readers /\ reader'.cursor = e.seq /\ reader'.phase = "reading" /\ reader'.result = FALSE
      BY <1>12, <3>1 DEF Readers
    <3> DEFINE rest == Tail(wire)
    <3>3. /\ rest \in Seq(Records) /\ Len(rest) = Len(wire) - 1
          /\ \A i \in 1..Len(rest) : rest[i] = wire[i + 1] /\ i + 1 \in 1..Len(wire) /\ 1 < i + 1
          /\ \A i \in 1..Len(wire) : 1 < i => i - 1 \in 1..Len(rest) /\ rest[i - 1] = wire[i]
      <4>1. /\ rest \in Seq(Records) /\ Len(rest) = Len(wire) - 1
            /\ \A i \in 1..Len(rest) : rest[i] = wire[i + 1]
        BY <1>1, <1>3, HeadTailProperties DEF wire
      <4>2. \A i \in 1..Len(rest) : i + 1 \in 1..Len(wire) /\ 1 < i + 1
        BY <1>3, <4>1 DEF wire
      <4>3. \A i \in 1..Len(wire) : 1 < i => i - 1 \in 1..Len(rest) /\ i - 1 + 1 = i
        BY <1>3, <4>1 DEF wire
      <4> QED BY <4>1, <4>2, <4>3
    <3> HIDE DEF rest
    <3>4. /\ stream' \in Streams /\ stream'.wire = rest /\ stream'.open = stream.open
          /\ stream'.after = stream.after /\ stream'.draining = stream.draining
      BY <1>2, <3>1, <3>3 DEF Streams, rest, wire
    <3>5. ASSUME NEW i \in 1..Len(rest) PROVE FrameFits(log, lastSeq, status, stream', reader', i)
      <4>1. FrameFits(log, lastSeq, status, stream, reader, i + 1) /\ rest[i] = wire[i + 1]
        BY <1>2, <3>3 DEF Fits, wire
      <4>2. e.seq < rest[i].seq /\ rest[i].seq \in Nat /\ rest[i].seq # 0
        <5>1. e.seq < wire[i + 1].seq /\ wire[i + 1].seq \in Nat
          BY <1>5, <1>9, <3>3
        <5> QED BY <1>12, <4>1, <5>1
      <4>3. i + 1 = Len(wire) => i = Len(rest)
        BY <1>3, <3>3 DEF wire
      <4>4. /\ rest[i].seq <= stream.after
            /\ rest[i].result => /\ status = "ended" /\ i + 1 = Len(wire) /\ ~stream.open
                                 /\ rest[i].seq = IssuedOf(log, lastSeq)
        BY <4>1, <4>2 DEF FrameFits, wire
      <4> QED BY <3>2, <3>4, <4>2, <4>3, <4>4 DEF FrameFits
    <3>6. \A i, j \in 1..Len(rest) : i < j => rest[i].seq < rest[j].seq
      <4> SUFFICES ASSUME NEW i \in 1..Len(rest), NEW j \in 1..Len(rest), i < j
                   PROVE  rest[i].seq < rest[j].seq
        OBVIOUS
      <4>1. /\ i + 1 \in 1..Len(wire) /\ j + 1 \in 1..Len(wire) /\ i + 1 < j + 1
            /\ rest[i] = wire[i + 1] /\ rest[j] = wire[j + 1]
        BY <3>3
      <4>2. wire[i + 1].seq < wire[j + 1].seq
        BY <1>2, <4>1 DEF Fits, wire
      <4> QED BY <4>1, <4>2
    <3>7. Covers(log, e.seq, stream.after, rest)
      <4>1. SUFFICES ASSUME NEW j \in 1..Len(log), e.seq < log[j].seq, log[j].seq <= stream.after
                     PROVE  \E i \in 1..Len(rest) : rest[i].seq = log[j].seq
        BY DEF Covers
      <4>2. reader.cursor < log[j].seq
        BY <1>3, <1>10, <1>12, <2>1, <4>1
      <4>3. PICK i \in 1..Len(wire) : wire[i].seq = log[j].seq
        BY <1>9, <4>1, <4>2 DEF Covers
      <4>4. i # 1
        BY <1>12, <4>1, <4>3 DEF e
      <4>5. i - 1 \in 1..Len(rest) /\ rest[i - 1] = wire[i]
        BY <3>3, <4>4
      <4> QED BY <4>3, <4>5
    <3>8. e.seq <= stream.after /\ e.seq <= IssuedOf(log, lastSeq)
      BY <1>3, <1>8, <1>9, <1>12, <2>1
    <3>9. Fits(log, lastSeq, status, server, stream', reader')
      <4>1. (stream.open => server # "down") /\ (stream.draining => stream.open)
            /\ stream.after <= IssuedOf(log, lastSeq)
        BY <1>2, <1>9 DEF Fits
      <4> QED BY <3>2, <3>4, <3>5, <3>6, <3>7, <3>8, <4>1 DEF Fits
    <3>10. LogInv'
      BY <1>1, <3>9 DEF LogInv, caller
    <3> QED BY <2>4, <3>10 DEF PromiseStep, Promise!Next
  <2> QED BY <1>12, <2>5, <2>6
<1> QED BY <1>13, <1>14
LEMMA LogInvInductive == LogInv /\ [LogNext]_logVars => LogInv' /\ PromiseStep
<1> SUFFICES ASSUME LogInv, [LogNext]_logVars PROVE LogInv' /\ PromiseStep
  OBVIOUS
<1>1. ASSUME NEW b \in Size, AppendEvent(b) PROVE LogInv' /\ PromiseStep
  BY <1>1, AppendEventStep
<1>2. ASSUME NEW b \in Size, WriteFails(b) PROVE LogInv' /\ PromiseStep
  BY <1>2 DEF WriteFails, LogInv, caller, PromiseStep, Seen
<1>3. CASE ClaimRun
  BY <1>3, ClaimRunStep
<1>4. CASE FinishRun
  BY <1>4, FinishRunStep
<1>5. CASE StartDaemon
  BY <1>5, StartDaemonStep
<1>6. CASE Recover
  BY <1>6, RecoverStep
<1>7. CASE CloseDaemon
  BY <1>7, CloseDaemonStep
<1>8. CASE Connect
  BY <1>8, ConnectStep
<1>9. CASE Drain
  BY <1>9, DrainStep
<1>10. CASE ReadFrame
  BY <1>10, ReadFrameStep
<1>11. CASE ReadEnd \/ Break
  BY <1>11, ReadEndStep
<1>12. CASE Discover \/ GiveUp \/ ConnectFails \/ Unauthorized
  BY <1>12, LookingStep
<1>13. CASE UNCHANGED logVars
  BY <1>13 DEF logVars, LogInv, PromiseStep, Seen
<1> QED BY <1>1, <1>2, <1>3, <1>4, <1>5, <1>6, <1>7, <1>8, <1>9, <1>10, <1>11, <1>12, <1>13 DEF LogNext

LEMMA LogInvInit == LogInit => LogInv /\ Promise!Init
<1> SUFFICES ASSUME LogInit PROVE LogInv /\ Promise!Init
  OBVIOUS
<1>1. /\ server = "down" /\ lastSeq = 0 /\ stream = NoStream
      /\ follow \in BOOLEAN /\ byAgent \in BOOLEAN
      /\ reader = [phase |-> "away", cursor |-> 0, result |-> FALSE]
      /\ status \in {"pending", "running", "ended"}
  BY DEF LogInit
<1>2. /\ InOrder(log) /\ DOMAIN log = 1..Len(log)
      /\ IssuedOf(log, 0) \in Nat
      /\ \A i \in 1..Len(log) : log[i].seq \in Nat /\ ~log[i].result
  <2>1. CASE log = <<>>
    <3>1. Len(log) = 0 /\ log \in Seq(Records) /\ DOMAIN log = 1..Len(log)
      BY <2>1, EmptySeq, LenProperties
    <3> QED BY <2>1, <3>1 DEF InOrder, IssuedOf, Highest
  <2>2. ASSUME NEW b \in Size, log = <<Record(2, b, FALSE)>>
        PROVE  /\ InOrder(log) /\ DOMAIN log = 1..Len(log)
               /\ IssuedOf(log, 0) \in Nat
               /\ \A i \in 1..Len(log) : log[i].seq \in Nat /\ ~log[i].result
    <3>1. Record(2, b, FALSE) \in Records /\ Record(2, b, FALSE).seq = 2 /\ ~Record(2, b, FALSE).result
      BY SizesAssumption DEF Record, Records
    <3> DEFINE only == Record(2, b, FALSE)
    <3> HIDE DEF only
    <3>2. log = <<only>>
      BY <2>2 DEF only
    <3>3. /\ log \in Seq(Records) /\ Len(log) = 1 /\ DOMAIN log = 1..Len(log)
          /\ \A i \in 1..Len(log) : log[i] = only /\ i = 1
      <4>1. only \in Records
        BY <3>1 DEF only
      <4>2. log \in Seq(Records)
        BY <3>2, <4>1
      <4>3. Len(log) = 1 /\ log[1] = only
        BY <3>2
      <4> QED BY <4>2, <4>3, LenProperties
    <3>4. only.seq = 2 /\ ~only.result
      BY <3>1 DEF only
    <3>5. InOrder(log)
      BY <3>3, <3>4 DEF InOrder
    <3>6. IssuedOf(log, 0) = 2
      <4>1. log # <<>> /\ Last(log) = only
        BY <3>3, EmptySeq DEF Last
      <4> QED BY <3>4, <4>1 DEF IssuedOf, Highest
    <3> QED BY <3>3, <3>4, <3>5, <3>6
  <2> QED BY <2>1, <2>2 DEF LogInit
<1>3. LogOk(log, lastSeq, status)
  BY <1>1, <1>2 DEF LogOk
<1>4. Fits(log, lastSeq, status, server, stream, reader)
  <2>1. reader \in Readers /\ reader.cursor = 0 /\ reader.phase = "away" /\ ~reader.result
    BY <1>1 DEF Readers
  <2>2. reader.cursor <= IssuedOf(log, lastSeq)
    BY <1>1, <1>2, <2>1
  <2> QED BY <1>1, <2>1, <2>2, FitsWithoutStream
<1>5. LogInv
  BY <1>1, <1>3, <1>4 DEF LogInv
<1>6. Promise!Init
  <2>1. Kept(log) \subseteq 1..IssuedOf(log, lastSeq)
    <3> SUFFICES ASSUME NEW i \in 1..Len(log) PROVE log[i].seq \in 1..IssuedOf(log, lastSeq)
      BY <1>2 DEF Kept
    <3>1. log[i].seq <= IssuedOf(log, lastSeq) /\ 0 < log[i].seq
      BY <1>2, <1>3, IssuedTops DEF InOrder
    <3> QED BY <1>1, <1>2, <3>1
  <2>2. reader.cursor = 0 /\ reader.result = FALSE
    BY <1>1
  <2> QED BY <1>1, <1>2, <2>1, <2>2 DEF Promise!Init, Kept, IssuedOf
<1> QED BY <1>5, <1>6

\* The records stay in order and the result last, in the log and on the wire.
LogInOrder == Numbered /\ ResultIsLast /\ FramesInOrder

LEMMA LogInvShows == LogInv => LogInOrder
<1> SUFFICES ASSUME LogInv PROVE LogInOrder
  OBVIOUS
<1>1. /\ LogOk(log, lastSeq, status) /\ Fits(log, lastSeq, status, server, stream, reader)
      /\ server # "down" /\ log # <<>> => lastSeq # 0
  BY DEF LogInv
<1>2. DOMAIN log = 1..Len(log) /\ DOMAIN stream.wire = 1..Len(stream.wire)
  <2>1. log \in Seq(Records) /\ stream.wire \in Seq(Records)
    BY <1>1 DEF LogOk, InOrder, Fits, Streams
  <2> QED BY <2>1, LenProperties
<1>3. Numbered
  BY <1>1, <1>2 DEF Numbered, LogOk, InOrder
<1>4. ResultIsLast
  BY <1>1, <1>2 DEF ResultIsLast, LogOk, InOrder, Ended
<1>5. FramesInOrder
  <2>1. ASSUME NEW i \in 1..Len(stream.wire)
        PROVE  IF stream.wire[i].seq = 0
               THEN lastSeq = 0 /\ Ended /\ stream.wire[i].result /\ i = 1 /\ Len(stream.wire) = 1
               ELSE /\ reader.cursor < stream.wire[i].seq /\ stream.wire[i].seq <= stream.after
                    /\ stream.wire[i].result => Ended /\ i = Len(stream.wire)
    <3>1. FrameFits(log, lastSeq, status, stream, reader, i)
      BY <1>1 DEF Fits
    <3> QED BY <3>1 DEF FrameFits, Ended
  <2>2. \A i, j \in 1..Len(stream.wire) : i < j => stream.wire[i].seq < stream.wire[j].seq
    BY <1>1 DEF Fits
  <2> QED BY <1>2, <2>1, <2>2 DEF FramesInOrder
<1> QED BY <1>3, <1>4, <1>5 DEF LogInOrder

-----------------------------------------------------------------------------

\* Whatever is rolled back, evicted, restarted or reconnected, the log's numbers
\* rise, nothing follows a result, and the socket holds the records that come
\* next for the CLI (insertEvent, enforceEventLogBudget, streamAgentRunEvents).
THEOREM LogStaysInOrder == LogSpec => []LogInOrder
<1>1. LogInv /\ [LogNext]_logVars => LogInv'
  BY LogInvInductive
<1> QED BY <1>1, LogInvInit, LogInvShows, PTL DEF LogSpec

\* The CLI sees what RunLogPromise promises: no record twice, none out of order,
\* none skipped that the log still keeps, nothing after the result (agentRunLog,
\* iterateAgentRunEvents), for every budget and any number of failures.
THEOREM FollowersSeeTheLog == LogSpec => FollowerSeesTheLog
<1>1. LogInv /\ [LogNext]_logVars => LogInv'
  BY LogInvInductive
<1>2. PromiseStep =>
        [Promise!Next]_<<IF lastSeq = 0 THEN Highest(log) ELSE lastSeq,
                         {log[i].seq : i \in DOMAIN log}, reader.cursor, reader.result>>
  BY DEF PromiseStep, Seen, IssuedOf, Kept
<1>3. LogInv /\ [LogNext]_logVars =>
        [Promise!Next]_<<IF lastSeq = 0 THEN Highest(log) ELSE lastSeq,
                         {log[i].seq : i \in DOMAIN log}, reader.cursor, reader.result>>
  BY <1>2, LogInvInductive
<1>4. LogInit => Promise!Init
  BY LogInvInit
<1>5. LogInit => LogInv
  BY LogInvInit
<1> QED BY <1>1, <1>3, <1>4, <1>5, PTL DEF LogSpec, FollowerSeesTheLog, Promise!Spec

-----------------------------------------------------------------------------
(* The bytes of a log, and what an eviction leaves of them.                *)

\* f counts the bytes of the first i records, for every i.
Tally(l, f) ==
    /\ f \in [0..Len(l) -> Nat]
    /\ f[0] = 0
    /\ \A i \in 1..Len(l) : f[i] = f[i - 1] + l[i].bytes

LEMMA RecordBytes ==
    ASSUME NEW l \in Seq(Records)
    PROVE  Len(l) \in Nat /\ \A i \in 1..Len(l) : l[i].bytes \in Nat
<1>1. \A i \in 1..Len(l) : l[i] \in Records
  BY ElementOfSeq
<1> QED BY <1>1 DEF Records

\* There is a tally of any log: otherwise one of a shortest beginning that has none.
LEMMA TallyExists ==
    ASSUME NEW l \in Seq(Records)
    PROVE  \E f : Tally(l, f)
<1> DEFINE Counts(n, f) == /\ f \in [0..n -> Nat] /\ f[0] = 0
                           /\ \A i \in 1..n : f[i] = f[i - 1] + l[i].bytes
           Uncounted == {n \in 0..Len(l) : ~\E f : Counts(n, f)}
<1>1. Len(l) \in Nat /\ \A i \in 1..Len(l) : l[i].bytes \in Nat
  BY RecordBytes
<1>2. SUFFICES ASSUME Uncounted # {} PROVE FALSE
  <2>1. ASSUME Uncounted = {} PROVE \E f : Counts(Len(l), f)
    <3> HIDE DEF Counts
    <3> QED BY <1>1, <2>1
  <2> QED BY <2>1 DEF Tally
<1>3. PICK m \in Uncounted : \A k \in Uncounted : m <= k
  <2>1. Uncounted \subseteq Nat
    BY <1>1
  <2> HIDE DEF Uncounted
  <2> QED BY <1>2, <2>1, LeastNumber
<1>4. m \in 0..Len(l) /\ m \in Nat
  BY <1>1, <1>3
<1>5. m # 0
  <2>1. Counts(0, [i \in 0..0 |-> 0])
    OBVIOUS
  <2> HIDE DEF Counts
  <2> QED BY <1>3, <2>1
<1>6. PICK f : Counts(m - 1, f)
  <2>1. m - 1 \in 0..Len(l) /\ ~(m <= m - 1)
    BY <1>1, <1>4, <1>5
  <2> HIDE DEF Counts
  <2> QED BY <1>3, <2>1
<1> DEFINE g == [i \in 0..m |-> IF i = m THEN f[m - 1] + l[m].bytes ELSE f[i]]
<1>7. f[m - 1] \in Nat /\ l[m].bytes \in Nat
  BY <1>1, <1>4, <1>5, <1>6
<1>8. g \in [0..m -> Nat] /\ g[0] = 0
  <2>1. \A i \in 0..m : i # m => f[i] \in Nat
    BY <1>4, <1>5, <1>6
  <2>2. 0 \in 0..m /\ f[0] = 0
    BY <1>4, <1>6
  <2> QED BY <1>5, <1>7, <2>1, <2>2
<1>9. ASSUME NEW i \in 1..m PROVE g[i] = g[i - 1] + l[i].bytes
  <2>1. i \in 0..m /\ i - 1 \in 0..m /\ i - 1 # m
    BY <1>4
  <2>2. CASE i = m
    BY <2>1, <2>2
  <2>3. CASE i # m
    <3>1. i \in 1..(m - 1)
      BY <1>4, <2>3
    <3>2. f[i] = f[i - 1] + l[i].bytes
      BY <1>6, <3>1
    <3> QED BY <2>1, <2>3, <3>2
  <2> QED BY <2>2, <2>3
<1>10. Counts(m, g)
  <2> HIDE DEF g
  <2> QED BY <1>8, <1>9
<1> HIDE DEF Counts
<1> QED BY <1>3, <1>10

\* What Bytes computes is the end of the log's tally.
LEMMA BytesAreTallied ==
    ASSUME NEW l \in Seq(Records), NEW f, Tally(l, f)
    PROVE  Bytes(l) = f[Len(l)]
<1> DEFINE Rule(h) == [i \in 0..Len(l) |-> IF i = 0 THEN 0 ELSE h[i - 1] + l[i].bytes]
           upTo == CHOOSE h : h = Rule(h)
<1>1. Len(l) \in Nat /\ \A i \in 1..Len(l) : l[i].bytes \in Nat
  BY RecordBytes
<1>2. f = Rule(f)
  <2>1. \A i \in 0..Len(l) : f[i] = IF i = 0 THEN 0 ELSE f[i - 1] + l[i].bytes
    BY <1>1 DEF Tally
  <2>2. f = [i \in 0..Len(l) |-> f[i]]
    BY DEF Tally
  <2> QED BY <2>1, <2>2
<1>3. upTo = Rule(upTo)
  <2> HIDE DEF Rule
  <2> QED BY <1>2
<1>4. Bytes(l) = upTo[Len(l)]
  BY DEF Bytes
<1> HIDE DEF upTo
<1>5. \A i \in 0..Len(l) : upTo[i] = IF i = 0 THEN 0 ELSE upTo[i - 1] + l[i].bytes
  BY <1>3
<1>6. DOMAIN upTo = 0..Len(l) /\ upTo = [i \in 0..Len(l) |-> upTo[i]]
  BY <1>3
<1> HIDE DEF Rule
<1> DEFINE Apart == {n \in 0..Len(l) : upTo[n] # f[n]}
<1>7. Apart = {}
  <2> SUFFICES ASSUME Apart # {} PROVE FALSE
    OBVIOUS
  <2>1. PICK m \in Apart : \A k \in Apart : m <= k
    <3>1. Apart \subseteq Nat
      BY <1>1
    <3> HIDE DEF Apart
    <3> QED BY <3>1, LeastNumber
  <2>2. m \in 0..Len(l) /\ m # 0 /\ upTo[m] # f[m]
    BY <1>1, <1>5, <2>1 DEF Tally
  <2>3. m - 1 \in 0..Len(l) /\ ~(m <= m - 1) /\ m \in 1..Len(l)
    BY <1>1, <2>2
  <2>4. upTo[m - 1] = f[m - 1]
    BY <2>1, <2>3
  <2> QED BY <1>5, <2>2, <2>3, <2>4 DEF Tally
<1> QED BY <1>1, <1>4, <1>7

LEMMA TallyGrows ==
    ASSUME NEW l \in Seq(Records), NEW f, Tally(l, f), NEW n \in 0..Len(l)
    PROVE  \A i \in 0..Len(l) : n <= i => f[n] <= f[i]
<1> DEFINE Below == {i \in 0..Len(l) : n <= i /\ ~(f[n] <= f[i])}
<1>1. Len(l) \in Nat /\ \A i \in 1..Len(l) : l[i].bytes \in Nat
  BY RecordBytes
<1>2. \A i \in 0..Len(l) : f[i] \in Nat
  BY DEF Tally
<1>3. SUFFICES ASSUME Below # {} PROVE FALSE
  OBVIOUS
<1>4. PICK m \in Below : \A k \in Below : m <= k
  <2>1. Below \subseteq Nat
    BY <1>1
  <2> HIDE DEF Below
  <2> QED BY <1>3, <2>1, LeastNumber
<1>5. m \in 0..Len(l) /\ n < m /\ ~(f[n] <= f[m])
  <2>1. m \in 0..Len(l) /\ n <= m /\ ~(f[n] <= f[m])
    BY <1>4
  <2>2. n # m
    BY <1>2, <2>1
  <2> QED BY <1>1, <2>1, <2>2
<1>6. m \in 1..Len(l) /\ m - 1 \in 0..Len(l) /\ n <= m - 1 /\ ~(m <= m - 1)
  BY <1>1, <1>5
<1>7. f[n] <= f[m - 1]
  BY <1>4, <1>6
<1>8. f[m] = f[m - 1] + l[m].bytes
  BY <1>6 DEF Tally
<1> QED BY <1>1, <1>2, <1>5, <1>6, <1>7, <1>8

\* The bytes of a beginning and of an end of a log.
LEMMA BytesOfParts ==
    ASSUME NEW l \in Seq(Records), NEW f, Tally(l, f), NEW n \in 0..Len(l)
    PROVE  /\ Bytes(SubSeq(l, 1, n)) = f[n]
           /\ Bytes(SubSeq(l, n + 1, Len(l))) = f[Len(l)] - f[n]
<1>1. Len(l) \in Nat /\ n \in Nat /\ \A i \in 1..Len(l) : l[i].bytes \in Nat /\ l[i] \in Records
  BY RecordBytes, ElementOfSeq
<1>2. \A i \in 0..Len(l) : f[i] \in Nat
  BY DEF Tally
<1>3. Bytes(SubSeq(l, 1, n)) = f[n]
  <2> DEFINE part == SubSeq(l, 1, n)
             g == [i \in 0..n |-> f[i]]
  <2>1. part \in Seq(Records) /\ Len(part) = n /\ \A i \in 1..n : part[i] = l[i]
    <3>1. \A i \in 1..n : l[i] \in Records
      BY <1>1
    <3>2. /\ SubSeq(l, 1, n) \in Seq(Records)
          /\ Len(SubSeq(l, 1, n)) = IF 1 <= n THEN n - 1 + 1 ELSE 0
          /\ \A i \in 1..(n - 1 + 1) : SubSeq(l, 1, n)[i] = l[1 + i - 1]
      BY <1>1, <3>1, SubSeqProperties
    <3> HIDE DEF part
    <3>3. n - 1 + 1 = n /\ \A i \in 1..n : 1 + i - 1 = i
      BY <1>1
    <3> QED BY <1>1, <3>2, <3>3 DEF part
  <2> HIDE DEF part
  <2>2. \A i \in 1..n : i \in 1..Len(l) /\ i \in 0..n /\ i - 1 \in 0..n
    BY <1>1
  <2>3. g \in [0..Len(part) -> Nat] /\ g[0] = 0
    BY <1>1, <1>2, <2>1 DEF Tally
  <2>4. ASSUME NEW i \in 1..Len(part) PROVE g[i] = g[i - 1] + part[i].bytes
    <3>1. f[i] = f[i - 1] + l[i].bytes
      BY <2>1, <2>2 DEF Tally
    <3> QED BY <2>1, <2>2, <3>1
  <2>5. Tally(part, g) /\ g[n] = f[n]
    <3>1. g[n] = f[n]
      BY <1>1
    <3> HIDE DEF g
    <3> QED BY <2>3, <2>4, <3>1 DEF Tally
  <2>6. Bytes(part) = g[Len(part)]
    <3> HIDE DEF g
    <3> QED BY <2>1, <2>5, BytesAreTallied
  <2> HIDE DEF g
  <2> QED BY <2>1, <2>5, <2>6 DEF part
<1>4. Bytes(SubSeq(l, n + 1, Len(l))) = f[Len(l)] - f[n]
  <2> DEFINE part == SubSeq(l, n + 1, Len(l))
             g == [k \in 0..(Len(l) - n) |-> f[n + k] - f[n]]
  <2>1. /\ part \in Seq(Records) /\ Len(part) = Len(l) - n
        /\ \A k \in 1..(Len(l) - n) : part[k] = l[n + k]
    <3>1. \A i \in (n + 1)..Len(l) : l[i] \in Records
      BY <1>1
    <3>2. /\ part \in Seq(Records)
          /\ Len(part) = IF n + 1 <= Len(l) THEN Len(l) - (n + 1) + 1 ELSE 0
          /\ \A k \in 1..(Len(l) - (n + 1) + 1) : part[k] = l[(n + 1) + k - 1]
      BY <1>1, <3>1, SubSeqProperties
    <3> HIDE DEF part
    <3>3. Len(l) - (n + 1) + 1 = Len(l) - n /\ \A k \in 1..(Len(l) - n) : (n + 1) + k - 1 = n + k
      BY <1>1
    <3>4. Len(part) = Len(l) - n
      <4>1. CASE n + 1 <= Len(l)
        BY <3>2, <3>3, <4>1
      <4>2. CASE ~(n + 1 <= Len(l))
        <5>1. Len(l) - n = 0
          BY <1>1, <4>2
        <5> QED BY <3>2, <4>2, <5>1
      <4> QED BY <4>1, <4>2
    <3>5. ASSUME NEW k \in 1..(Len(l) - n) PROVE part[k] = l[n + k]
      <4>1. k \in 1..(Len(l) - (n + 1) + 1) /\ (n + 1) + k - 1 = n + k
        BY <3>3
      <4>2. part[k] = l[(n + 1) + k - 1]
        BY <3>2, <4>1
      <4> QED BY <4>1, <4>2
    <3> QED BY <3>2, <3>4, <3>5
  <2> HIDE DEF part
  <2>2. \A k \in 1..(Len(l) - n) : /\ n + k \in 1..Len(l) /\ k \in 0..(Len(l) - n)
                                   /\ k - 1 \in 0..(Len(l) - n) /\ n + (k - 1) = n + k - 1
    BY <1>1
  <2>3. g \in [0..Len(part) -> Nat] /\ g[0] = 0
    <3>1. ASSUME NEW k \in 0..(Len(l) - n) PROVE f[n + k] - f[n] \in Nat
      <4>1. n + k \in 0..Len(l) /\ n <= n + k
        BY <1>1
      <4>2. f[n] <= f[n + k]
        BY <4>1, TallyGrows
      <4> QED BY <1>2, <4>1, <4>2
    <3>2. 0 \in 0..(Len(l) - n) /\ n + 0 = n /\ f[n] - f[n] = 0
      BY <1>1, <1>2
    <3> QED BY <2>1, <3>1, <3>2
  <2>4. ASSUME NEW k \in 1..Len(part) PROVE g[k] = g[k - 1] + part[k].bytes
    <3>1. f[n + k] = f[n + k - 1] + l[n + k].bytes
      BY <2>1, <2>2 DEF Tally
    <3>2. n + k \in 0..Len(l) /\ n + k - 1 \in 0..Len(l) /\ n + k \in 1..Len(l)
      BY <1>1, <2>1, <2>2
    <3>3. f[n + k] \in Nat /\ f[n + k - 1] \in Nat /\ f[n] \in Nat /\ l[n + k].bytes \in Nat
      BY <1>1, <1>2, <3>2
    <3>4. \A a, b, c, d \in Nat : a = b + d => a - c = b - c + d
      OBVIOUS
    <3>5. f[n + k] - f[n] = f[n + k - 1] - f[n] + l[n + k].bytes
      BY <3>1, <3>3, <3>4
    <3> QED BY <2>1, <2>2, <3>5
  <2>5. g[Len(l) - n] = f[Len(l)] - f[n]
    <3>1. Len(l) - n \in 0..(Len(l) - n) /\ n + (Len(l) - n) = Len(l)
      BY <1>1
    <3> QED BY <3>1
  <2> HIDE DEF g
  <2>6. Tally(part, g)
    BY <2>3, <2>4 DEF Tally
  <2>7. Bytes(part) = g[Len(part)]
    BY <2>1, <2>6, BytesAreTallied
  <2> QED BY <2>1, <2>5, <2>7 DEF part
<1> QED BY <1>3, <1>4

\* The tally of a longer log counts the log it continues.
LEMMA TallyBeforeAppend ==
    ASSUME NEW l \in Seq(Records), NEW r \in Records, NEW f, Tally(Append(l, r), f)
    PROVE  /\ Tally(l, [i \in 0..Len(l) |-> f[i]])
           /\ Len(Append(l, r)) = Len(l) + 1 /\ Append(l, r) \in Seq(Records)
           /\ f[Len(l) + 1] = f[Len(l)] + r.bytes
<1> DEFINE added == Append(l, r)
           g == [i \in 0..Len(l) |-> f[i]]
<1>1. Len(l) \in Nat
  BY RecordBytes
<1>2. /\ added \in Seq(Records) /\ Len(added) = Len(l) + 1
      /\ \A i \in 1..Len(l) : added[i] = l[i]
      /\ added[Len(l) + 1] = r
  BY AppendProperties
<1>3. Tally(added, f)
  OBVIOUS
<1> HIDE DEF added
<1>4. /\ \A i \in 0..Len(l) : f[i] \in Nat
      /\ f[0] = 0
      /\ \A i \in 1..Len(l) : f[i] = f[i - 1] + l[i].bytes /\ i - 1 \in 0..Len(l) /\ i \in 0..Len(l)
  <2>1. Len(added) = Len(l) + 1 /\ 0..Len(l) \subseteq 0..Len(added) /\ 1..Len(l) \subseteq 1..Len(added)
    BY <1>1, <1>2
  <2>2. \A i \in 1..Len(l) : i - 1 \in 0..Len(l) /\ i \in 0..Len(l)
    BY <1>1
  <2>3. \A i \in 1..Len(l) : f[i] = f[i - 1] + l[i].bytes
    <3>1. \A i \in 1..Len(added) : f[i] = f[i - 1] + added[i].bytes
      BY <1>3 DEF Tally
    <3> QED BY <1>2, <2>1, <3>1
  <2>4. f \in [0..Len(added) -> Nat] /\ f[0] = 0
    BY <1>3 DEF Tally
  <2> QED BY <2>1, <2>2, <2>3, <2>4
<1>5. g \in [0..Len(l) -> Nat] /\ g[0] = 0
  BY <1>1, <1>4
<1>6. \A i \in 1..Len(l) : g[i] = g[i - 1] + l[i].bytes
  BY <1>4
<1>7. Tally(l, g)
  <2> HIDE DEF g
  <2> QED BY <1>5, <1>6 DEF Tally
<1>8. f[Len(l) + 1] = f[Len(l)] + r.bytes
  <2>1. Len(l) + 1 \in 1..Len(added) /\ Len(l) + 1 - 1 = Len(l)
    BY <1>1, <1>2
  <2>2. f[Len(l) + 1] = f[Len(l) + 1 - 1] + added[Len(l) + 1].bytes
    BY <1>3, <2>1 DEF Tally
  <2> QED BY <1>2, <2>1, <2>2
<1> QED BY <1>2, <1>7, <1>8 DEF added

\* A record adds its bytes to the log's, and to those of each of its ends.
LEMMA AppendedBytes ==
    ASSUME NEW l \in Seq(Records), NEW r \in Records
    PROVE  /\ Bytes(l) \in Nat
           /\ Bytes(Append(l, r)) = Bytes(l) + r.bytes
           /\ \A i \in 1..Len(l) : Bytes(SubSeq(Append(l, r), i, Len(l) + 1))
                                     = Bytes(SubSeq(l, i, Len(l))) + r.bytes
<1> DEFINE added == Append(l, r)
<1>1. Len(l) \in Nat /\ added \in Seq(Records) /\ r.bytes \in Nat
  <2>1. Len(l) \in Nat
    BY RecordBytes
  <2>2. added \in Seq(Records)
    BY AppendProperties
  <2> QED BY <2>1, <2>2 DEF Records
<1>2. PICK f : Tally(added, f)
  <2> HIDE DEF added
  <2> QED BY <1>1, TallyExists
<1> DEFINE g == [i \in 0..Len(l) |-> f[i]]
<1>3. /\ Tally(l, g) /\ Len(added) = Len(l) + 1
      /\ f[Len(l) + 1] = f[Len(l)] + r.bytes
  BY <1>2, TallyBeforeAppend
<1>4. \A i \in 0..Len(l) : g[i] = f[i]
  OBVIOUS
<1> HIDE DEF added, g
<1>5. \A i \in 0..Len(l) : f[i] \in Nat /\ i \in 0..Len(added)
  <2>1. \A i \in 0..Len(l) : g[i] \in Nat
    BY <1>3 DEF Tally
  <2> QED BY <1>1, <1>3, <1>4, <2>1
<1>6. Bytes(l) = f[Len(l)] /\ Bytes(added) = f[Len(l) + 1]
  <2>1. Bytes(l) = g[Len(l)]
    BY <1>3, BytesAreTallied
  <2>2. Bytes(added) = f[Len(added)]
    BY <1>1, <1>2, BytesAreTallied
  <2>3. Len(l) \in 0..Len(l)
    BY <1>1
  <2> QED BY <1>3, <1>4, <2>1, <2>2, <2>3
<1>7. ASSUME NEW i \in 1..Len(l)
      PROVE  Bytes(SubSeq(added, i, Len(l) + 1)) = Bytes(SubSeq(l, i, Len(l))) + r.bytes
  <2>1. i - 1 \in 0..Len(l) /\ i - 1 + 1 = i /\ Len(l) \in 0..Len(l)
    BY <1>1
  <2>2. Bytes(SubSeq(added, i - 1 + 1, Len(added))) = f[Len(added)] - f[i - 1]
    BY <1>1, <1>2, <1>5, <2>1, BytesOfParts
  <2>3. Bytes(SubSeq(l, i - 1 + 1, Len(l))) = g[Len(l)] - g[i - 1]
    BY <1>3, <2>1, BytesOfParts
  <2>4. g[Len(l)] = f[Len(l)] /\ g[i - 1] = f[i - 1] /\ f[Len(l)] \in Nat /\ f[i - 1] \in Nat
    BY <1>4, <1>5, <2>1
  <2>5. (f[Len(l)] + r.bytes) - f[i - 1] = (f[Len(l)] - f[i - 1]) + r.bytes
    BY <1>1, <2>4
  <2> QED BY <1>3, <2>1, <2>2, <2>3, <2>4, <2>5
<1>8. Bytes(l) \in Nat /\ Bytes(added) = Bytes(l) + r.bytes
  <2>1. Len(l) \in 0..Len(l)
    BY <1>1
  <2> QED BY <1>3, <1>5, <1>6, <2>1
<1> QED BY <1>7, <1>8 DEF added

\* From an exact count, an eviction leaves the longest end that fits the budget,
\* and its bytes exactly.
LEMMA EvictionFitsTheBudget ==
    ASSUME NEW l \in Seq(Records)
    PROVE  \E n \in 0..Len(l) :
             /\ Evicted(l, Bytes(l)).rows = SubSeq(l, n + 1, Len(l))
             /\ Evicted(l, Bytes(l)).total = Bytes(SubSeq(l, n + 1, Len(l)))
             /\ Bytes(SubSeq(l, n + 1, Len(l))) <= Budget
             /\ \A i \in 1..n : Bytes(SubSeq(l, i, Len(l))) > Budget
<1> DEFINE left(i) == Bytes(l) - Bytes(SubSeq(l, 1, i))
           Enough(i) == left(i) <= Budget
           Ends(i) == (Enough(i) \/ i = Len(l)) /\ \A j \in 0..(i - 1) : ~Enough(j)
           through == CHOOSE i \in 0..Len(l) : Ends(i)
           T == {i \in 0..Len(l) : Enough(i) \/ i = Len(l)}
<1>1. /\ Evicted(l, Bytes(l)).rows = SubSeq(l, through + 1, Len(l))
      /\ Evicted(l, Bytes(l)).total = left(through)
  BY DEF Evicted
<1>2. PICK f : Tally(l, f)
  BY TallyExists
<1>3. Len(l) \in Nat /\ \A i \in 0..Len(l) : f[i] \in Nat
  BY <1>2, RecordBytes DEF Tally
<1>4. \A i \in 0..Len(l) : left(i) = f[Len(l)] - f[i] /\ left(i) = Bytes(SubSeq(l, i + 1, Len(l)))
  BY <1>2, BytesOfParts, BytesAreTallied
<1> HIDE DEF left
<1>5. left(Len(l)) = 0 /\ Enough(Len(l)) /\ \A i \in 0..Len(l) : left(i) \in Int
  <2>1. Len(l) \in 0..Len(l) /\ f[Len(l)] - f[Len(l)] = 0
    BY <1>3
  <2> QED BY <1>3, <1>4, <2>1, SizesAssumption
<1> HIDE DEF Enough
<1>6. T \subseteq Nat /\ Len(l) \in T
  BY <1>3
<1>7. PICK m \in T : \A k \in T : m <= k
  BY <1>6, LeastNumber
<1>8. ASSUME NEW j \in 0..(m - 1) PROVE ~Enough(j)
  <2>1. m \in 0..Len(l) /\ j \in 0..Len(l) /\ ~(m <= j)
    BY <1>3, <1>7
  <2> QED BY <1>7, <2>1
<1>9. m \in 0..Len(l) /\ Ends(m)
  BY <1>7, <1>8
<1>10. through \in 0..Len(l) /\ Ends(through)
  <2> HIDE DEF Ends
  <2> QED BY <1>9
<1> HIDE DEF through, T
<1>11. left(through) <= Budget
  BY <1>5, <1>10 DEF Enough
<1>12. ASSUME NEW i \in 1..through PROVE Bytes(SubSeq(l, i, Len(l))) > Budget
  <2>1. i - 1 \in 0..(through - 1) /\ i - 1 \in 0..Len(l) /\ i - 1 + 1 = i
    BY <1>3, <1>10
  <2>2. ~(left(i - 1) <= Budget) /\ left(i - 1) \in Int /\ left(i - 1) = Bytes(SubSeq(l, i, Len(l)))
    BY <1>4, <1>5, <1>10, <2>1 DEF Enough
  <2> QED BY <2>2, SizesAssumption
<1> QED BY <1>1, <1>4, <1>10, <1>11, <1>12

-----------------------------------------------------------------------------
(* The count of a log, its budget and the types of its daemon.             *)

\* The daemon's count is exact as soon as it has one; faults stay within bounds.
CountIsExact ==
    /\ cache # Unknown => cache = Bytes(log)
    /\ failures \in 0..MaxFailures

CountedLogInv == LogInv /\ CountIsExact

\* A step of KeepsTheBudget.
BudgetStep ==
    (status' = "running" /\ lastSeq' > lastSeq /\ server = "up") =>
       /\ Bytes(log') <= Budget
       /\ log' # <<>> =>
             \A i \in DOMAIN log : log[i].seq < Head(log').seq =>
                Bytes(SubSeq(log, i, Len(log))) + Last(log').bytes > Budget

LEMMA AppendEventKeepsTheBudget ==
    ASSUME CountedLogInv, NEW b \in Size, AppendEvent(b)
    PROVE  CountIsExact' /\ BudgetStep
<1> DEFINE r == Record(NextSeq(log, lastSeq), b, FALSE)
           added == Append(log, r)
           total == IF cache = Unknown THEN Bytes(added) ELSE Counted(b)
<1>1. /\ status = "running" /\ LogOk(log, lastSeq, status)
      /\ log' = Evicted(added, total).rows /\ cache' = Evicted(added, total).total
      /\ failures' = failures
  BY DEF AppendEvent, CountedLogInv, LogInv
<1>2. r \in Records /\ r.seq = NextSeq(log, lastSeq) /\ r.bytes = b /\ b \in Nat
  <2>1. NextSeq(log, lastSeq) \in Nat
    <3>1. IssuedOf(log, lastSeq) \in Nat /\ lastSeq \in Nat
      BY <1>1, IssuedTops DEF LogOk
    <3> QED BY <3>1 DEF IssuedOf, NextSeq
  <2> QED BY <2>1, SizesAssumption DEF Record, Records
<1> HIDE DEF r
<1>3. log \in Seq(Records) /\ Len(log) \in Nat /\ DOMAIN log = 1..Len(log)
  BY <1>1, LenProperties DEF LogOk, InOrder
<1>4. /\ InOrder(added) /\ Len(added) = Len(log) + 1
      /\ \A i \in 1..Len(log) : added[i] = log[i]
      /\ added[Len(log) + 1] = r
  <2>1. status # "ended"
    BY <1>1
  <2> QED BY <1>1, <1>2, <2>1, AppendedInOrder
<1>5. /\ Bytes(added) = Bytes(log) + r.bytes
      /\ \A i \in 1..Len(log) : Bytes(SubSeq(added, i, Len(added)))
                                  = Bytes(SubSeq(log, i, Len(log))) + r.bytes
  BY <1>2, <1>3, <1>4, AppendedBytes
<1> HIDE DEF added
<1>6. total = Bytes(added)
  BY <1>2, <1>5 DEF CountedLogInv, CountIsExact, Counted
<1> HIDE DEF total
<1>7. added \in Seq(Records)
  BY <1>4 DEF InOrder
<1>8. PICK n \in 0..Len(added) :
        /\ Evicted(added, Bytes(added)).rows = SubSeq(added, n + 1, Len(added))
        /\ Evicted(added, Bytes(added)).total = Bytes(SubSeq(added, n + 1, Len(added)))
        /\ Bytes(SubSeq(added, n + 1, Len(added))) <= Budget
        /\ \A i \in 1..n : Bytes(SubSeq(added, i, Len(added))) > Budget
  BY <1>7, EvictionFitsTheBudget
<1>9. /\ log' = SubSeq(added, n + 1, Len(added)) /\ cache' = Bytes(log')
      /\ Bytes(log') <= Budget
  BY <1>1, <1>6, <1>8
<1>10. CountIsExact'
  BY <1>1, <1>9 DEF CountedLogInv, CountIsExact
<1>11. ASSUME log' # <<>>, NEW i \in 1..Len(log), log[i].seq < Head(log').seq
       PROVE  Bytes(SubSeq(log, i, Len(log))) + Last(log').bytes > Budget
  <2>1. /\ log' \in Seq(Records) /\ Len(log') = Len(added) - n
        /\ \A j \in 1..(Len(added) - n) : log'[j] = added[n + j] /\ n + j \in 1..Len(added)
    <3>1. n + 1 \in 1..(Len(added) + 1) /\ Len(added) \in 0..Len(added) /\ n + 1 <= Len(added) + 1
      BY <1>3, <1>4
    <3>2. /\ SubSeq(added, n + 1, Len(added)) \in Seq(Records)
          /\ Len(SubSeq(added, n + 1, Len(added))) = Len(added) - (n + 1) + 1
          /\ \A j \in 1..(Len(added) - (n + 1) + 1) :
                /\ SubSeq(added, n + 1, Len(added))[j] = added[n + 1 + j - 1]
                /\ n + 1 + j - 1 \in 1..Len(added)
      BY <1>4, <3>1, PartOfLog
    <3>3. Len(added) - (n + 1) + 1 = Len(added) - n
      BY <1>3, <1>4
    <3>4. \A j \in 1..(Len(added) - n) : n + 1 + j - 1 = n + j
      BY <1>3, <1>4
    <3>5. ASSUME NEW j \in 1..(Len(added) - n) PROVE log'[j] = added[n + j] /\ n + j \in 1..Len(added)
      <4>1. j \in 1..(Len(added) - (n + 1) + 1) /\ n + 1 + j - 1 = n + j
        BY <3>3, <3>4
      <4>2. log'[j] = added[n + 1 + j - 1] /\ n + 1 + j - 1 \in 1..Len(added)
        BY <1>9, <3>2, <4>1
      <4> QED BY <4>1, <4>2
    <3>6. Len(log') = Len(added) - n /\ log' \in Seq(Records)
      <4>1. log' = SubSeq(added, n + 1, Len(added))
        BY <1>9
      <4>2. /\ SubSeq(added, n + 1, Len(added)) \in Seq(Records)
            /\ Len(SubSeq(added, n + 1, Len(added))) = Len(added) - n
        <5>1. /\ SubSeq(added, n + 1, Len(added)) \in Seq(Records)
              /\ Len(SubSeq(added, n + 1, Len(added))) = Len(added) - (n + 1) + 1
          BY <3>2
        <5>2. Len(added) \in Nat /\ n \in Nat
          BY <1>3, <1>4
        <5> QED BY <5>1, <5>2
      <4> QED BY <4>1, <4>2
    <3> QED BY <3>5, <3>6
  <2>2. Len(added) - n \in Nat /\ Len(added) - n # 0
    <3>1. Len(log') # 0
      BY <1>11, <2>1, EmptySeq
    <3> QED BY <1>3, <1>4, <2>1, <3>1
  <2>3. Head(log') = added[n + 1] /\ n + 1 \in 1..Len(added)
    <3>1. 1 \in 1..(Len(added) - n)
      BY <2>2
    <3>2. Head(log') = log'[1]
      BY <1>11, <2>1, HeadTailProperties
    <3> QED BY <2>1, <3>1, <3>2
  <2>4. Last(log') = r
    <3>1. Len(added) - n \in 1..(Len(added) - n) /\ n + (Len(added) - n) = Len(log) + 1
      BY <1>3, <1>4, <2>2
    <3>2. Last(log') = log'[Len(log')]
      BY DEF Last
    <3> QED BY <1>4, <2>1, <3>1, <3>2
  <2>5. i \in 1..n
    <3>1. i \in 1..Len(added) /\ added[i] = log[i]
      BY <1>3, <1>4, <1>11
    <3>2. added[i].seq \in Nat /\ added[n + 1].seq \in Nat
      <4>1. \A j \in 1..Len(added) : added[j] \in Records
        BY <1>7, ElementOfSeq
      <4> QED BY <2>3, <3>1, <4>1 DEF Records
    <3>3. added[i].seq < added[n + 1].seq
      BY <1>11, <2>3, <3>1
    <3>4. CASE n + 1 < i
      <4>1. added[n + 1].seq < added[i].seq
        BY <1>4, <2>3, <3>1, <3>4 DEF InOrder
      <4> QED BY <3>2, <3>3, <4>1
    <3>5. CASE n + 1 = i
      BY <3>2, <3>3, <3>5
    <3> QED BY <1>3, <1>4, <3>4, <3>5
  <2>6. Bytes(SubSeq(added, i, Len(added))) > Budget
    BY <1>8, <2>5
  <2> QED BY <1>5, <2>4, <2>6
<1>12. BudgetStep
  BY <1>3, <1>9, <1>11 DEF BudgetStep
<1> QED BY <1>10, <1>12

LEMMA ResultIsCounted ==
    ASSUME CountedLogInv, status # "ended", Result
    PROVE  (cache' # Unknown => cache' = Bytes(log')) /\ status' = "ended"
<1> DEFINE r == Record(NextSeq(log, lastSeq), ResultSize, TRUE)
<1>1. log' = Append(log, r) /\ cache' = Counted(ResultSize) /\ status' = "ended"
  BY DEF Result
<1>2. LogOk(log, lastSeq, status)
  BY DEF CountedLogInv, LogInv
<1>3. r \in Records /\ r.bytes = ResultSize
  <2>1. NextSeq(log, lastSeq) \in Nat
    <3>1. IssuedOf(log, lastSeq) \in Nat /\ lastSeq \in Nat
      BY <1>2, IssuedTops DEF LogOk
    <3> QED BY <3>1 DEF IssuedOf, NextSeq
  <2> QED BY <2>1, SizesAssumption DEF Record, Records
<1> HIDE DEF r
<1>4. Bytes(log') = Bytes(log) + ResultSize
  BY <1>1, <1>2, <1>3, AppendedBytes DEF LogOk, InOrder
<1> QED BY <1>1, <1>4 DEF Counted, CountedLogInv, CountIsExact

\* The count stays exact whatever is rolled back or whoever counts, so that every
\* event leaves the longest end of the log that fits.
LEMMA CountStaysExact ==
    CountedLogInv /\ [LogNext]_logVars => CountedLogInv' /\ (BudgetStep \/ UNCHANGED logVars)
<1> SUFFICES ASSUME CountedLogInv, [LogNext]_logVars
             PROVE  CountedLogInv' /\ (BudgetStep \/ UNCHANGED logVars)
  OBVIOUS
<1>1. LogInv'
  BY LogInvInductive DEF CountedLogInv
<1>2. lastSeq \in Nat
  BY DEF CountedLogInv, LogInv, LogOk
<1>3. ASSUME NEW b \in Size, AppendEvent(b) PROVE CountIsExact' /\ BudgetStep
  BY <1>3, AppendEventKeepsTheBudget
<1>4. ASSUME NEW b \in Size, WriteFails(b) PROVE CountIsExact' /\ BudgetStep
  <2>1. lastSeq' = lastSeq /\ cache' = Unknown /\ failures' = failures + 1 /\ failures < MaxFailures
    BY <1>4 DEF WriteFails, RolledBack
  <2> QED BY <1>2, <2>1, SizesAssumption DEF CountedLogInv, CountIsExact, BudgetStep
<1>5. CASE FinishRun \/ (Recover /\ status = "running")
  <2>1. Result /\ status # "ended" /\ failures' = failures
    BY <1>5 DEF FinishRun, Recover, Ended
  <2>2. (cache' # Unknown => cache' = Bytes(log')) /\ status' = "ended"
    BY <2>1, ResultIsCounted
  <2> QED BY <1>1, <2>1, <2>2 DEF CountedLogInv, CountIsExact, BudgetStep
<1>6. CASE StartDaemon
  BY <1>1, <1>6 DEF StartDaemon, CountedLogInv, CountIsExact, BudgetStep
<1>7. /\ log' = log /\ lastSeq' = lastSeq /\ cache' = cache
      /\ failures' = failures \/ (failures < MaxFailures /\ failures' = failures + 1)
      => CountIsExact' /\ BudgetStep
  BY <1>2, SizesAssumption DEF CountedLogInv, CountIsExact, BudgetStep
<1>8. CASE (Recover /\ status # "running") \/ ClaimRun \/ CloseDaemon \/ Drain
           \/ Discover \/ GiveUp \/ Connect \/ ConnectFails \/ Unauthorized
           \/ ReadFrame \/ ReadEnd \/ Break
  <2>1. /\ log' = log /\ lastSeq' = lastSeq /\ cache' = cache
        /\ failures' = failures \/ (failures < MaxFailures /\ failures' = failures + 1)
    BY <1>8 DEF Recover, ClaimRun, CloseDaemon, Drain, Discover, GiveUp, Connect, ConnectFails,
                Unauthorized, ReadFrame, ReadEnd, Break, store
  <2> QED BY <1>1, <1>7, <2>1 DEF CountedLogInv
<1>9. CASE UNCHANGED logVars
  BY <1>1, <1>9 DEF logVars, CountedLogInv, CountIsExact
<1> QED BY <1>1, <1>3, <1>4, <1>5, <1>6, <1>8, <1>9 DEF LogNext, CountedLogInv

LEMMA CountedLogInvInit == LogInit => CountedLogInv
<1> SUFFICES ASSUME LogInit PROVE CountedLogInv
  OBVIOUS
<1>1. cache = Unknown /\ failures = 0
  BY DEF LogInit
<1>2. failures \in 0..MaxFailures
  BY <1>1, SizesAssumption
<1> QED BY <1>1, <1>2, LogInvInit DEF CountedLogInv, CountIsExact

\* Everything LogIsSound says follows.
LEMMA CountedLogInvShows == CountedLogInv => LogIsSound
<1> SUFFICES ASSUME CountedLogInv PROVE LogIsSound
  OBVIOUS
<1>1. /\ LogOk(log, lastSeq, status) /\ Fits(log, lastSeq, status, server, stream, reader)
      /\ server \in {"down", "listening", "up"} /\ status \in {"pending", "running", "ended"}
      /\ follow \in BOOLEAN /\ byAgent \in BOOLEAN
      /\ failures \in 0..MaxFailures /\ (cache # Unknown => cache = Bytes(log))
  BY DEF CountedLogInv, LogInv, CountIsExact
<1>2. log \in Seq(Records) /\ DOMAIN log = 1..Len(log) /\ lastSeq \in Nat
  BY <1>1, LenProperties DEF LogOk, InOrder
<1>3. \A i \in DOMAIN log : log[i] \in [seq : Nat, bytes : Nat, result : BOOLEAN]
  BY <1>2, ElementOfSeq DEF Records
<1>4. Bytes(log) \in Nat
  <2>1. PICK f : Tally(log, f)
    BY <1>2, TallyExists
  <2>2. Bytes(log) = f[Len(log)] /\ Len(log) \in 0..Len(log)
    BY <1>2, <2>1, BytesAreTallied, RecordBytes
  <2> QED BY <2>1, <2>2 DEF Tally
<1>5. cache \in Nat \cup {Unknown}
  BY <1>1, <1>4
<1>6. /\ stream.open \in BOOLEAN /\ stream.draining \in BOOLEAN /\ stream.after \in Nat
      /\ reader.phase \in {"away", "found", "stale", "reading", "returned", "failed"}
      /\ reader.cursor \in Nat /\ reader.result \in BOOLEAN
  BY <1>1 DEF Fits, Streams, Readers
<1>7. LogTypeOK
  BY <1>1, <1>2, <1>3, <1>5, <1>6 DEF LogTypeOK
<1>8. Numbered /\ ResultIsLast /\ FramesInOrder
  BY LogInvShows DEF CountedLogInv, LogInOrder
<1> QED BY <1>1, <1>7, <1>8 DEF LogIsSound

\* Whatever is rolled back, evicted, restarted or reconnected, a log's count is
\* exact whenever a daemon has one, and each event leaves the longest end of the
\* log that fits the budget (insertEvent, enforceEventLogBudget, the savepoint's
\* catch), for every budget and every set of sizes.
THEOREM LogsAreKept == LogSpec => LogIsKept
<1>1. CountedLogInv /\ [LogNext]_logVars => CountedLogInv'
  BY CountStaysExact
<1>2. CountedLogInv /\ [LogNext]_logVars =>
        [(status' = "running" /\ lastSeq' > lastSeq /\ server = "up") =>
           /\ Bytes(log') <= Budget
           /\ log' # <<>> =>
                 \A i \in DOMAIN log : log[i].seq < Head(log').seq =>
                    Bytes(SubSeq(log, i, Len(log))) + Last(log').bytes > Budget]_logVars
  BY CountStaysExact DEF BudgetStep
<1> QED BY <1>1, <1>2, CountedLogInvInit, CountedLogInvShows, PTL DEF LogSpec, LogIsKept, KeepsTheBudget

-----------------------------------------------------------------------------
(* The leases of the runs' processes. Two facts about the operating system *)
(* carry everything: what hangs under a wrapper runs under its lease, and  *)
(* a wrapper hangs under its daemon until that daemon is dead.             *)

Process   == [runs : {"nothing", "other", "wrapper", "parent", "agent"},
              lease : Lease \cup {Elsewhere}, parent : Pid \cup Daemon \cup {Launchd}]
JobRecord == [at : {"unused", "leased", "opening", "open", "closing", "ending", "killing",
                    "verifying", "done", "lost"},
              by : Daemon \cup {Nobody}, probe : BOOLEAN, tracked : SUBSET Pid, aim : SUBSET Pid]
DaemonRecord == [at : {"none", "killing", "confirming", "listening", "running", "dead"},
                 aim : [Lease -> SUBSET Pid]]

\* A pid nobody uses has no lease, and a process's parent, when it is one of the
\* processes, lives and runs under the same lease.
ProcessesOk ==
    /\ os \in [Pid -> Process]
    /\ \A p \in Pid : ~Live(p) => os[p] = Idle
    /\ \A p \in Pid : os[p].parent \in Pid =>
          Live(os[p].parent) /\ os[os[p].parent].lease = os[p].lease

\* A wrapper hangs under the daemon of its turn, or that daemon is dead.
WrapperHangs(l, p) ==
    /\ job[l].by \in Daemon
    /\ \/ os[p].parent = job[l].by
       \/ os[p].parent = Launchd /\ daemon[job[l].by].at = "dead"

Finished == {"unused", "lost", "done"}

\* A turn at work is its daemon's; before its wrapper there is nothing of it.
TurnOk(l) ==
    /\ job[l].at \notin Finished => job[l].by \in Daemon /\ daemon[job[l].by].at = "running"
    /\ job[l].at = "unused" => job[l].by = Nobody
    /\ job[l].at \in {"unused", "leased"} => \A p \in Pid : os[p].lease # l
    /\ job[l].at = "leased" => file[l] # Absent
    /\ \A p \in Wrappers(l) : WrapperHangs(l, p)

\* What a starting daemon aims at is a dead daemon's.
AimOk(d, l) ==
    daemon[d].aim[l] # {} => job[l].by \in Daemon /\ daemon[job[l].by].at = "dead"

LeaseTypes ==
    /\ file \in [Lease -> {Absent, Unset} \cup Pid]
    /\ job \in [Lease -> JobRecord]
    /\ daemon \in [Daemon -> DaemonRecord]

LeaseInv ==
    /\ LeaseTypes /\ ProcessesOk
    /\ \A l \in Lease : TurnOk(l)
    /\ \A d \in Daemon, l \in Lease : AimOk(d, l)
    /\ OnlyItsOwnAreKilled /\ WrappersAreLeased

\* What a step may do to a lease on disk.
ReleaseStep ==
    \A l \in Lease :
       /\ file[l] # Absent /\ file'[l] = Absent
       => \A p \in (IF job[l].at = "verifying" THEN job[l].tracked
                    ELSE UNION {daemon[d].aim[l] : d \in {e \in Daemon :
                               daemon[e].at = "confirming" /\ daemon'[e].at # "confirming"}}) :
             os[p].lease # l

LEMMA LeaseInvInit == Init => LeaseInv
<1> SUFFICES ASSUME Init PROVE LeaseInv
  OBVIOUS
<1>1. /\ os = [p \in Pid |-> Idle] /\ file = [l \in Lease |-> Absent]
      /\ job = [l \in Lease |-> Unused] /\ daemon = [d \in Daemon |-> [at |-> "none", aim |-> NoAim]]
  BY DEF Init
<1>2. Launchd \notin Pid /\ Elsewhere \notin Lease
  BY LeasesAssumption
<1>3. LeaseTypes
  BY <1>1 DEF LeaseTypes, JobRecord, DaemonRecord, Unused, NoAim
<1>4. ProcessesOk
  BY <1>1, <1>2 DEF ProcessesOk, Process, Idle, Live
<1>5. \A l \in Lease : Wrappers(l) = {}
  BY <1>1 DEF Wrappers, Wrapper, Idle
<1>6. \A l \in Lease : TurnOk(l)
  BY <1>1, <1>2, <1>5 DEF TurnOk, Unused, Finished, Idle
<1>7. \A d \in Daemon, l \in Lease : AimOk(d, l)
  BY <1>1 DEF AimOk, NoAim
<1>8. OnlyItsOwnAreKilled
  BY <1>1 DEF OnlyItsOwnAreKilled, Unused
<1>9. WrappersAreLeased
  BY <1>5 DEF WrappersAreLeased
<1> QED BY <1>3, <1>4, <1>6, <1>7, <1>8, <1>9 DEF LeaseInv

-----------------------------------------------------------------------------
(* Trees, and what dies.                                                   *)

\* What hangs under a live process runs under its lease.
LEMMA TreesShareTheLease ==
    ASSUME ProcessesOk, NEW root \in Pid, Live(root), NEW p \in Tree(root)
    PROVE  p \in Pid /\ os[p].lease = os[root].lease
<1> DEFINE S == {q \in Pid : Live(q) /\ os[q].lease = os[root].lease}
<1>1. S \in SUBSET Pid /\ root \in S
  OBVIOUS
<1>2. Closed(S)
  BY DEF Closed, ProcessesOk
<1>3. p \in Pid /\ p \in S
  BY <1>1, <1>2 DEF Tree
<1> QED BY <1>3

LEMMA TreesOfALease ==
    ASSUME ProcessesOk, NEW l \in Lease, NEW roots \in SUBSET Wrappers(l)
    PROVE  UNION {Tree(p) : p \in roots} \subseteq {p \in Pid : os[p].lease = l}
<1>1. ASSUME NEW root \in roots, NEW p \in Tree(root)
      PROVE  p \in Pid /\ os[p].lease = l
  <2>1. root \in Pid /\ os[root].lease = l /\ Live(root)
    BY DEF Wrappers, Wrapper, Live
  <2> QED BY <1>1, <2>1, TreesShareTheLease
<1> QED BY <1>1

\* What the dying leave behind.
LEMMA DyingFades ==
    ASSUME ProcessesOk, NEW dead, os' = Dying(dead)
    PROVE  /\ ProcessesOk'
           /\ \A p \in Pid : \/ os'[p] = Idle
                             \/ /\ os'[p].runs = os[p].runs /\ os'[p].lease = os[p].lease
                                /\ os'[p].parent = IF os[p].parent \in dead THEN Launchd
                                                   ELSE os[p].parent
<1>1. os' = [p \in Pid |-> IF p \in dead THEN Idle
                           ELSE IF os[p].parent \in dead THEN [os[p] EXCEPT !.parent = Launchd]
                           ELSE os[p]]
  BY DEF Dying
<1>2. Launchd \notin Pid
  BY LeasesAssumption
<1>3. Idle \in Process
  BY DEF Idle, Process
<1>4. ASSUME NEW p \in Pid
      PROVE  /\ os'[p] \in Process
             /\ p \in dead => os'[p] = Idle
             /\ p \notin dead => /\ os'[p].runs = os[p].runs /\ os'[p].lease = os[p].lease
                                 /\ os'[p].parent = IF os[p].parent \in dead THEN Launchd
                                                    ELSE os[p].parent
             /\ os'[p].runs = "nothing" => os'[p] = Idle
  <2>1. os[p] \in Process /\ (os[p].runs = "nothing" => os[p] = Idle)
    BY DEF ProcessesOk, Live
  <2>2. CASE p \in dead
    BY <1>1, <1>3, <2>2
  <2>3. CASE p \notin dead /\ os[p].parent \in dead
    <3>1. os'[p] = [os[p] EXCEPT !.parent = Launchd]
      BY <1>1, <2>3
    <3>2. os[p] = Idle => os'[p] = Idle
      BY <3>1 DEF Idle
    <3> QED BY <2>1, <2>3, <3>1, <3>2 DEF Process
  <2>4. CASE p \notin dead /\ os[p].parent \notin dead
    BY <1>1, <2>1, <2>4
  <2> QED BY <2>2, <2>3, <2>4
<1>5. os' \in [Pid -> Process]
  BY <1>1, <1>4
<1>6. ASSUME NEW p \in Pid, os'[p].parent \in Pid
      PROVE  os'[os'[p].parent].runs # "nothing" /\ os'[os'[p].parent].lease = os'[p].lease
  <2>1. p \notin dead /\ os[p].parent \notin dead /\ os'[p].parent = os[p].parent
    BY <1>2, <1>4, <1>6 DEF Idle
  <2>2. /\ os[os[p].parent].runs # "nothing" /\ os[os[p].parent].lease = os[p].lease
    BY <1>6, <2>1 DEF ProcessesOk, Live
  <2> QED BY <1>4, <1>6, <2>1, <2>2
<1>7. ProcessesOk'
  BY <1>4, <1>5, <1>6 DEF ProcessesOk, Live
<1> QED BY <1>4, <1>7

\* When nothing comes to life, what was aimed at stays what may be aimed at.
Fades == \A p \in Pid : os'[p] = Idle \/ (os'[p].runs = os[p].runs /\ os'[p].lease = os[p].lease)

\* Daemons that at most go on from their last signal, turns that at most drop an aim.
Onward ==
    /\ \A d \in Daemon : /\ daemon'[d].aim = daemon[d].aim
                         /\ daemon'[d].at = "killing" => daemon[d].at = "killing"
                         /\ daemon[d].at = "dead" <=> daemon'[d].at = "dead"
                         /\ daemon[d].at = "running" => daemon'[d].at = "running"
    /\ \A l \in Lease : /\ job'[l].aim \subseteq job[l].aim /\ job'[l].by = job[l].by
                        /\ job'[l].at \in Finished \/ job[l].at \notin Finished
                        /\ job'[l].at \in {"unused", "leased"} => job'[l].at = job[l].at

LEMMA FadingKeepsAims ==
    ASSUME LeaseInv, Fades, Onward
    PROVE  OnlyItsOwnAreKilled'
<1>1. \A p \in Pid : Live(p)' => Live(p) /\ os'[p].lease = os[p].lease
  BY DEF Fades, Live, Idle
<1>2. /\ \A l \in Lease : job[l].aim \subseteq Pid
      /\ \A d \in Daemon, l \in Lease : daemon[d].aim[l] \subseteq Pid
  BY DEF LeaseInv, LeaseTypes, JobRecord, DaemonRecord
<1>3. \A l \in Lease : \A p \in job'[l].aim : Live(p)' => os'[p].lease = l
  BY <1>1, <1>2 DEF LeaseInv, OnlyItsOwnAreKilled, Onward
<1>4. ASSUME NEW d \in Daemon, daemon'[d].at = "killing", NEW l \in Lease,
             NEW p \in daemon'[d].aim[l], Live(p)'
      PROVE  /\ os'[p].lease = l
             /\ job'[l].by \in Daemon /\ daemon'[job'[l].by].at = "dead"
  <2>1. p \in Pid /\ p \in daemon[d].aim[l] /\ daemon[d].at = "killing" /\ Live(p)
    BY <1>1, <1>2, <1>4 DEF Onward
  <2>2. os[p].lease = l /\ job[l].by \in Daemon /\ daemon[job[l].by].at = "dead"
    BY <2>1 DEF LeaseInv, OnlyItsOwnAreKilled
  <2> QED BY <1>1, <1>4, <2>1, <2>2 DEF Onward
<1> QED BY <1>3, <1>4 DEF OnlyItsOwnAreKilled

LEMMA FadingKeepsWrappers ==
    ASSUME LeaseInv, Fades
    PROVE  \A l \in Lease : Wrappers(l)' \subseteq Wrappers(l)
BY LeasesAssumption DEF Fades, Wrappers, Wrapper, Idle

\* Processes die, while their daemons and turns go on.
LEMMA DyingStep ==
    ASSUME LeaseInv, NEW dead \in SUBSET Pid, os' = Dying(dead), UNCHANGED file,
           LeaseTypes', Onward
    PROVE  LeaseInv'
<1>1. /\ ProcessesOk'
      /\ \A p \in Pid : \/ os'[p] = Idle
                        \/ /\ os'[p].runs = os[p].runs /\ os'[p].lease = os[p].lease
                           /\ os'[p].parent = IF os[p].parent \in dead THEN Launchd
                                              ELSE os[p].parent
  BY DyingFades DEF LeaseInv
<1>2. Fades
  BY <1>1 DEF Fades
<1>3. \A l \in Lease : Wrappers(l)' \subseteq Wrappers(l)
  BY <1>2, FadingKeepsWrappers
<1>4. ASSUME NEW l \in Lease PROVE TurnOk(l)'
  <2>1. ASSUME NEW p \in Wrappers(l)' PROVE WrapperHangs(l, p)'
    <3>1. p \in Wrappers(l) /\ WrapperHangs(l, p) /\ p \in Pid
      BY <1>3, <2>1 DEF LeaseInv, TurnOk, Wrappers
    <3>2. os'[p] # Idle
      BY <2>1, LeasesAssumption DEF Wrappers, Wrapper, Idle
    <3>3. os[p].parent \notin dead
      BY <3>1, LeasesAssumption DEF WrapperHangs
    <3>4. os'[p].parent = os[p].parent
      BY <1>1, <3>1, <3>2, <3>3
    <3> QED BY <3>1, <3>4 DEF WrapperHangs, Onward
  <2>2. \A p \in Pid : os[p].lease # l => os'[p].lease # l
    BY <1>1, LeasesAssumption DEF Idle
  <2>3. TurnOk(l)
    BY DEF LeaseInv
  <2>4. /\ job'[l].by = job[l].by /\ (job'[l].at \in Finished \/ job[l].at \notin Finished)
        /\ job'[l].at \in {"unused", "leased"} => job'[l].at = job[l].at
        /\ job[l].by \in Daemon /\ daemon[job[l].by].at = "running" =>
              daemon'[job[l].by].at = "running"
    BY DEF Onward
  <2> QED BY <2>1, <2>2, <2>3, <2>4 DEF TurnOk
<1>5. OnlyItsOwnAreKilled'
  BY <1>2, FadingKeepsAims
<1>6. WrappersAreLeased'
  BY <1>3 DEF LeaseInv, WrappersAreLeased
<1>7. \A d \in Daemon, l \in Lease : AimOk(d, l)'
  BY DEF LeaseInv, AimOk, Onward
<1> QED BY <1>1, <1>4, <1>5, <1>6, <1>7 DEF LeaseInv

\* A step that changes no file releases no lease.
LEMMA NothingReleased ==
    ASSUME UNCHANGED file PROVE ReleaseStep
BY DEF ReleaseStep

-----------------------------------------------------------------------------
(* The operating system.                                                   *)

\* A pid that nobody uses and nobody aims at is taken.
LEMMA PidTaken ==
    ASSUME LeaseInv, NEW q \in Free, os' \in [Pid -> Process], UNCHANGED daemon,
           \A p \in Pid \ {q} :
              /\ os'[p].lease = os[p].lease /\ os'[p].parent = os[p].parent
              /\ os'[p].runs = "nothing" <=> os[p].runs = "nothing"
              /\ os'[p] # os[p] => os[p].runs # "nothing"
              /\ os'[p].runs \in Wrapper <=> os[p].runs \in Wrapper,
           os'[q].runs # "nothing",
           os'[q].parent \in Pid =>
              /\ os'[q].parent # q /\ Live(os'[q].parent)
              /\ os[os'[q].parent].lease = os'[q].lease,
           \A l \in Lease : job'[l].aim = job[l].aim /\ job'[l].by = job[l].by
    PROVE  /\ ProcessesOk' /\ OnlyItsOwnAreKilled'
           /\ \A l \in Lease : Wrappers(l)' =
                 IF os'[q].runs \in Wrapper /\ os'[q].lease = l
                 THEN Wrappers(l) \cup {q} ELSE Wrappers(l)
<1>1. q \in Pid /\ os[q] = Idle /\ ~Live(q) /\ q \notin Aimed
  BY DEF Free, LeaseInv, ProcessesOk
<1>2. ProcessesOk'
  <2>1. ASSUME NEW p \in Pid, os'[p].runs = "nothing" PROVE os'[p] = Idle
    <3>1. p # q /\ os[p].runs = "nothing" /\ os'[p] = os[p]
      BY <2>1
    <3> QED BY <3>1 DEF LeaseInv, ProcessesOk, Live
  <2>2. ASSUME NEW p \in Pid, os'[p].parent \in Pid
        PROVE  os'[os'[p].parent].runs # "nothing" /\ os'[os'[p].parent].lease = os'[p].lease
    <3>1. CASE p = q
      BY <2>2, <3>1 DEF Live
    <3>2. CASE p # q
      <4>1. /\ os'[p].parent = os[p].parent /\ os'[p].lease = os[p].lease
            /\ os[os[p].parent].runs # "nothing" /\ os[os[p].parent].lease = os[p].lease
        BY <2>2, <3>2 DEF LeaseInv, ProcessesOk, Live
      <4>2. os[p].parent # q
        BY <1>1, <4>1 DEF Live
      <4> QED BY <2>2, <4>1, <4>2
    <3> QED BY <3>1, <3>2
  <2> QED BY <2>1, <2>2 DEF ProcessesOk, Live
<1>3. OnlyItsOwnAreKilled'
  <2>1. ASSUME NEW l \in Lease, NEW p \in job'[l].aim, Live(p)' PROVE os'[p].lease = l
    <3>1. p \in job[l].aim /\ p \in Pid /\ p # q
      <4>1. p \in job[l].aim /\ p \in Aimed
        BY <2>1 DEF Aimed
      <4> QED BY <1>1, <4>1 DEF LeaseInv, LeaseTypes, JobRecord
    <3>2. Live(p)
      BY <2>1, <3>1 DEF Live
    <3> QED BY <3>1, <3>2 DEF LeaseInv, OnlyItsOwnAreKilled
  <2>2. ASSUME NEW d \in Daemon, daemon'[d].at = "killing", NEW l \in Lease,
               NEW p \in daemon'[d].aim[l], Live(p)'
        PROVE  /\ os'[p].lease = l
               /\ job'[l].by \in Daemon /\ daemon'[job'[l].by].at = "dead"
    <3>1. daemon[d].at = "killing" /\ p \in daemon[d].aim[l] /\ p \in Pid /\ p # q
      <4>1. daemon[d].at = "killing" /\ p \in daemon[d].aim[l]
        BY <2>2
      <4>2. d \in {e \in Daemon : daemon[e].at = "killing"}
        BY <4>1
      <4> DEFINE Killing == {e \in Daemon : daemon[e].at = "killing"}
                 Sets == {daemon[e].aim[m] : e \in Killing, m \in Lease}
      <4>3. daemon[d].aim[l] \subseteq Aimed
        <5>1. d \in Killing
          BY <4>2
        <5> HIDE DEF Killing
        <5>2. daemon[d].aim[l] \in Sets
          BY <5>1
        <5>3. UNION Sets \subseteq Aimed
          BY DEF Aimed, Killing
        <5> HIDE DEF Sets
        <5> QED BY <5>2, <5>3
      <4> QED BY <1>1, <4>1, <4>3 DEF LeaseInv, LeaseTypes, DaemonRecord
    <3>2. Live(p)
      BY <2>2, <3>1 DEF Live
    <3> QED BY <3>1, <3>2 DEF LeaseInv, OnlyItsOwnAreKilled
  <2> QED BY <2>1, <2>2 DEF OnlyItsOwnAreKilled
<1>4. ASSUME NEW l \in Lease
      PROVE  Wrappers(l)' = IF os'[q].runs \in Wrapper /\ os'[q].lease = l
                            THEN Wrappers(l) \cup {q} ELSE Wrappers(l)
  <2>1. \A p \in Pid \ {q} : p \in Wrappers(l)' <=> p \in Wrappers(l)
    BY DEF Wrappers
  <2>2. q \notin Wrappers(l)
    BY <1>1 DEF Wrappers, Wrapper, Live
  <2>3. q \in Wrappers(l)' <=> os'[q].runs \in Wrapper /\ os'[q].lease = l
    BY <1>1 DEF Wrappers
  <2>4. Wrappers(l)' \subseteq Pid /\ Wrappers(l) \subseteq Pid
    BY DEF Wrappers
  <2>5. CASE os'[q].runs \in Wrapper /\ os'[q].lease = l
    BY <1>1, <2>1, <2>3, <2>4, <2>5
  <2>6. CASE ~(os'[q].runs \in Wrapper /\ os'[q].lease = l)
    <3>1. Wrappers(l)' = Wrappers(l)
      BY <2>1, <2>2, <2>3, <2>4, <2>6
    <3> QED BY <2>6, <3>1
  <2> QED BY <2>5, <2>6
<1> QED BY <1>2, <1>3, <1>4

\* Wrappers that stay as they are hang as they did.
LEMMA SameWrappers ==
    ASSUME LeaseInv, NEW l \in Lease, Wrappers(l)' \subseteq Wrappers(l),
           \A p \in Wrappers(l) : os'[p].parent = os[p].parent,
           job'[l].by = job[l].by,
           \A d \in Daemon : daemon[d].at = "dead" => daemon'[d].at = "dead"
    PROVE  \A p \in Wrappers(l)' : WrapperHangs(l, p)'
BY DEF LeaseInv, TurnOk, WrapperHangs

LEMMA ForkStep ==
    ASSUME LeaseInv, NEW p \in Pid, Fork(p)
    PROVE  LeaseInv' /\ ReleaseStep
<1>1. UNCHANGED <<file, job, daemon>> /\ Ours(p) /\ Live(p)
  BY DEF Fork
<1>2. PICK q \in Free :
         os' = [os EXCEPT ![q] = [runs |-> "agent", lease |-> os[p].lease, parent |-> p],
                          ![p].runs = IF @ = "wrapper" THEN "parent" ELSE @]
  BY DEF Fork
<1>3. q \in Pid /\ ~Live(q) /\ q # p /\ os[p] \in Process /\ os \in [Pid -> Process]
  BY <1>1, <1>2 DEF Free, LeaseInv, ProcessesOk
<1> DEFINE agent == [runs |-> "agent", lease |-> os[p].lease, parent |-> p]
           runs  == IF os[p].runs = "wrapper" THEN "parent" ELSE os[p].runs
<1>4. agent \in Process /\ agent.runs = "agent" /\ agent.lease = os[p].lease /\ agent.parent = p
  BY <1>3 DEF Process
<1>5. runs \in {"nothing", "other", "wrapper", "parent", "agent"}
      /\ (runs \in Wrapper <=> os[p].runs \in Wrapper) /\ runs # "nothing"
  BY <1>1, <1>3 DEF Process, Wrapper, Live
<1>6. os' = [os EXCEPT ![q] = agent, ![p].runs = runs]
  BY <1>2, <1>3
<1> HIDE DEF agent, runs
<1>7. /\ os' \in [Pid -> Process] /\ os'[q] = agent
      /\ os'[p].runs = runs /\ os'[p].lease = os[p].lease /\ os'[p].parent = os[p].parent
      /\ \A r \in Pid \ {p, q} : os'[r] = os[r]
  BY <1>3, <1>4, <1>5, <1>6 DEF Process
<1>8. \A r \in Pid \ {q} :
         /\ os'[r].lease = os[r].lease /\ os'[r].parent = os[r].parent
         /\ os'[r].runs = "nothing" <=> os[r].runs = "nothing"
         /\ os'[r] # os[r] => os[r].runs # "nothing"
         /\ os'[r].runs \in Wrapper <=> os[r].runs \in Wrapper
  BY <1>1, <1>5, <1>7 DEF Live
<1>9. /\ ProcessesOk' /\ OnlyItsOwnAreKilled'
      /\ \A l \in Lease : Wrappers(l)' = Wrappers(l)
  <2>1. os'[q].runs = "agent" /\ os'[q].parent = p /\ os'[q].lease = os[p].lease
    BY <1>4, <1>7
  <2>2. "agent" \notin Wrapper
    BY DEF Wrapper
  <2> QED BY <1>1, <1>2, <1>3, <1>7, <1>8, <2>1, <2>2, PidTaken
<1>10. ASSUME NEW l \in Lease PROVE TurnOk(l)'
  <2>1. TurnOk(l)
    BY DEF LeaseInv
  <2>2. \A r \in Wrappers(l)' : WrapperHangs(l, r)'
    <3>1. \A r \in Wrappers(l) : r \in Pid /\ r # q
      BY <1>3 DEF Wrappers, Wrapper, Live
    <3> QED BY <1>1, <1>8, <1>9, <3>1, SameWrappers
  <2>3. (\A r \in Pid : os[r].lease # l) => \A r \in Pid : os'[r].lease # l
    BY <1>3, <1>4, <1>7, <1>8
  <2> QED BY <1>1, <2>1, <2>2, <2>3 DEF TurnOk
<1> QED BY <1>1, <1>9, <1>10, NothingReleased DEF LeaseInv, LeaseTypes, AimOk, WrappersAreLeased

LEMMA ExitStep ==
    ASSUME LeaseInv, NEW p \in Pid, Exit(p)
    PROVE  LeaseInv' /\ ReleaseStep
<1>1. os' = Dying({p}) /\ UNCHANGED <<file, job, daemon>>
  BY DEF Exit
<1>2. LeaseTypes' /\ Onward
  BY <1>1 DEF LeaseInv, LeaseTypes, Onward
<1> QED BY <1>1, <1>2, DyingStep, NothingReleased

LEMMA ReuseStep ==
    ASSUME LeaseInv, NEW p \in Pid, Reuse(p)
    PROVE  LeaseInv' /\ ReleaseStep
<1>1. p \in Free /\ UNCHANGED <<file, job, daemon>>
  BY DEF Reuse
<1>2. PICK runs \in {"other", "wrapper"} : os' = [os EXCEPT ![p] = [Idle EXCEPT !.runs = runs]]
  BY DEF Reuse
<1>3. /\ os' \in [Pid -> Process] /\ os'[p].runs = runs /\ os'[p].lease = Elsewhere
      /\ os'[p].parent = Launchd
      /\ \A r \in Pid \ {p} : os'[r] = os[r]
  <2>1. os \in [Pid -> Process]
    BY DEF LeaseInv, ProcessesOk
  <2> QED BY <1>2, <2>1 DEF Idle, Process
<1>4. /\ ProcessesOk' /\ OnlyItsOwnAreKilled'
      /\ \A l \in Lease : Wrappers(l)' = Wrappers(l)
  <2>1. Launchd \notin Pid /\ Elsewhere \notin Lease
    BY LeasesAssumption
  <2> QED BY <1>1, <1>3, <2>1, PidTaken
<1>5. ASSUME NEW l \in Lease PROVE TurnOk(l)'
  <2>1. TurnOk(l)
    BY DEF LeaseInv
  <2>2. \A r \in Wrappers(l)' : WrapperHangs(l, r)'
    <3>1. \A r \in Wrappers(l) : r \in Pid /\ r # p
      BY <1>1 DEF Wrappers, Wrapper, Live, Free
    <3> QED BY <1>1, <1>3, <1>4, <3>1, SameWrappers
  <2>3. (\A r \in Pid : os[r].lease # l) => \A r \in Pid : os'[r].lease # l
    BY <1>3, LeasesAssumption
  <2> QED BY <1>1, <2>1, <2>2, <2>3 DEF TurnOk
<1> QED BY <1>1, <1>4, <1>5, NothingReleased DEF LeaseInv, LeaseTypes, AimOk, WrappersAreLeased

-----------------------------------------------------------------------------
(* A daemon's start and its end.                                           *)

\* A starting daemon changes only what it aims at.
LEMMA DaemonStep ==
    ASSUME LeaseInv, NEW d \in Daemon, UNCHANGED <<os, job>>,
           daemon[d].at \notin {"running", "dead"},
           daemon' \in [Daemon -> DaemonRecord],
           \A e \in Daemon \ {d} : daemon'[e] = daemon[e]
    PROVE  \A l \in Lease :
              /\ file'[l] = file[l] => TurnOk(l)'
              /\ \A p \in Wrappers(l)' : WrapperHangs(l, p)'
              /\ job[l].by \in Daemon /\ daemon[job[l].by].at = "dead" =>
                    daemon'[job'[l].by].at = "dead"
<1> SUFFICES ASSUME NEW l \in Lease
             PROVE  /\ file'[l] = file[l] => TurnOk(l)'
                    /\ \A p \in Wrappers(l)' : WrapperHangs(l, p)'
                    /\ job[l].by \in Daemon /\ daemon[job[l].by].at = "dead" =>
                          daemon'[job'[l].by].at = "dead"
  OBVIOUS
<1>1. \A e \in Daemon : /\ daemon[e].at = "dead" => daemon'[e].at = "dead"
                        /\ daemon[e].at = "running" => daemon'[e].at = "running"
  OBVIOUS
<1>2. \A p \in Wrappers(l)' : WrapperHangs(l, p)'
  BY <1>1, SameWrappers DEF Wrappers
<1>3. TurnOk(l)
  BY DEF LeaseInv
<1> QED BY <1>1, <1>2, <1>3 DEF TurnOk

LEMMA ReapListStep ==
    ASSUME LeaseInv, NEW d \in Daemon, ReapList(d)
    PROVE  LeaseInv' /\ ReleaseStep
<1>1. UNCHANGED <<os, file, job>> /\ daemon[d].at = "none"
  BY DEF ReapList
<1>2. daemon \in [Daemon -> DaemonRecord] /\ daemon[d] \in DaemonRecord
  BY DEF LeaseInv, LeaseTypes
<1> DEFINE Trees(l) == UNION {Tree(p) : p \in Orphans(l)}
<1>3. ASSUME NEW l \in Lease
      PROVE  /\ Trees(l) \subseteq Pid
             /\ \A p \in Trees(l) : os[p].lease = l
             /\ Trees(l) # {} => job[l].by \in Daemon /\ daemon[job[l].by].at = "dead"
  <2>1. Orphans(l) \in SUBSET Wrappers(l)
    BY DEF Orphans
  <2>2. Trees(l) \subseteq {p \in Pid : os[p].lease = l}
    BY <2>1, TreesOfALease DEF LeaseInv
  <2>3. ASSUME Trees(l) # {} PROVE job[l].by \in Daemon /\ daemon[job[l].by].at = "dead"
    <3>1. PICK p \in Orphans(l) : TRUE
      BY <2>3
    <3>2. p \in Wrappers(l) /\ os[p].parent = Launchd
      BY <3>1 DEF Orphans
    <3>3. WrapperHangs(l, p)
      BY <3>2 DEF LeaseInv, TurnOk
    <3>4. Launchd \notin Daemon
      BY LeasesAssumption
    <3> QED BY <3>2, <3>3, <3>4 DEF WrapperHangs
  <2> QED BY <2>2, <2>3
<1> DEFINE aims == [l \in Lease |-> Trees(l)]
<1>4. aims \in [Lease -> SUBSET Pid] /\ \A l \in Lease : aims[l] = Trees(l)
  BY <1>3
<1>5. \/ daemon' = [daemon EXCEPT ![d] = [at |-> "killing", aim |-> aims]]
      \/ daemon' = [daemon EXCEPT ![d].at = "listening"]
  BY DEF ReapList
<1> HIDE DEF aims
<1>6. /\ daemon' \in [Daemon -> DaemonRecord]
      /\ \A e \in Daemon \ {d} : daemon'[e] = daemon[e]
      /\ \/ daemon'[d].at = "killing" /\ daemon'[d].aim = aims
         \/ daemon'[d].at = "listening" /\ daemon'[d].aim = daemon[d].aim
  <2>1. CASE daemon' = [daemon EXCEPT ![d] = [at |-> "killing", aim |-> aims]]
    BY <1>2, <1>4, <2>1 DEF DaemonRecord
  <2>2. CASE daemon' = [daemon EXCEPT ![d].at = "listening"]
    BY <1>2, <2>2 DEF DaemonRecord
  <2> QED BY <1>5, <2>1, <2>2
<1>7. \A l \in Lease : /\ TurnOk(l)'
                       /\ job[l].by \in Daemon /\ daemon[job[l].by].at = "dead" =>
                             daemon'[job'[l].by].at = "dead"
  BY <1>1, <1>6, DaemonStep
<1> HIDE DEF Trees
<1>8. \A e \in Daemon, l \in Lease : AimOk(e, l)'
  BY <1>1, <1>3, <1>4, <1>6, <1>7 DEF LeaseInv, AimOk
<1>9. OnlyItsOwnAreKilled'
  <2>1. ASSUME NEW e \in Daemon, daemon'[e].at = "killing", NEW l \in Lease,
               NEW p \in daemon'[e].aim[l], Live(p)'
        PROVE  /\ os'[p].lease = l
               /\ job'[l].by \in Daemon /\ daemon'[job'[l].by].at = "dead"
    <3>1. CASE e = d
      BY <1>1, <1>3, <1>4, <1>6, <1>7, <2>1, <3>1
    <3>2. CASE e # d
      <4>1. daemon[e].at = "killing" /\ p \in daemon[e].aim[l] /\ Live(p)
        BY <1>1, <1>6, <2>1, <3>2 DEF Live
      <4> QED BY <1>1, <1>7, <4>1 DEF LeaseInv, OnlyItsOwnAreKilled
    <3> QED BY <3>1, <3>2
  <2>2. \A l \in Lease : \A p \in job'[l].aim : Live(p)' => os'[p].lease = l
    BY <1>1 DEF LeaseInv, OnlyItsOwnAreKilled, Live
  <2> QED BY <2>1, <2>2 DEF OnlyItsOwnAreKilled
<1>10. ProcessesOk' /\ WrappersAreLeased'
  BY <1>1 DEF LeaseInv, ProcessesOk, WrappersAreLeased, Wrappers, Live
<1> QED BY <1>1, <1>6, <1>7, <1>8, <1>9, <1>10, NothingReleased DEF LeaseInv, LeaseTypes

LEMMA KillDies ==
    ASSUME NEW pids \in SUBSET Pid, Kill(pids)
    PROVE  \E dead \in SUBSET Pid : os' = Dying(dead)
BY DEF Kill

LEMMA ReapKillStep ==
    ASSUME LeaseInv, NEW d \in Daemon, ReapKill(d)
    PROVE  LeaseInv' /\ ReleaseStep
<1> DEFINE pids == UNION {daemon[d].aim[l] : l \in Lease}
<1>1. /\ Kill(pids) /\ daemon[d].at = "killing" /\ UNCHANGED <<file, job>>
      /\ daemon' = [daemon EXCEPT ![d].at = "confirming"]
  BY DEF ReapKill
<1>2. daemon \in [Daemon -> DaemonRecord] /\ daemon[d] \in DaemonRecord
  BY DEF LeaseInv, LeaseTypes
<1>3. pids \in SUBSET Pid
  BY <1>2 DEF DaemonRecord
<1> HIDE DEF pids
<1>4. PICK dead \in SUBSET Pid : os' = Dying(dead)
  BY <1>1, <1>3, KillDies
<1>5. /\ daemon' \in [Daemon -> DaemonRecord] /\ daemon'[d].at = "confirming"
      /\ daemon'[d].aim = daemon[d].aim /\ \A e \in Daemon \ {d} : daemon'[e] = daemon[e]
  BY <1>1, <1>2 DEF DaemonRecord
<1>6. LeaseTypes' /\ Onward
  BY <1>1, <1>5 DEF LeaseInv, LeaseTypes, Onward
<1> QED BY <1>1, <1>4, <1>6, DyingStep, NothingReleased

\* A process that is not there runs under no lease.
LEMMA DeadHaveNoLease ==
    ASSUME ProcessesOk, NEW p \in Pid, ~Live(p), NEW l \in Lease
    PROVE  os[p].lease # l
BY LeasesAssumption DEF ProcessesOk, Idle

LEMMA ReapConfirmStep ==
    ASSUME LeaseInv, NEW d \in Daemon, ReapConfirm(d)
    PROVE  LeaseInv' /\ ReleaseStep
<1>1. /\ daemon[d].at = "confirming" /\ UNCHANGED <<os, job>>
      /\ daemon' = [daemon EXCEPT ![d] = [at |-> "listening", aim |-> NoAim]]
      /\ \/ file' = [l \in Lease |->
                 IF /\ daemon[d].aim[l] # {} /\ Wrappers(l) = {}
                    /\ \A p \in daemon[d].aim[l] : ~Live(p)
                 THEN Absent ELSE file[l]]
         \/ file' = file
  BY DEF ReapConfirm
<1>2. /\ daemon \in [Daemon -> DaemonRecord] /\ daemon[d] \in DaemonRecord
      /\ file \in [Lease -> {Absent, Unset} \cup Pid]
      /\ NoAim \in [Lease -> SUBSET Pid] /\ \A l \in Lease : NoAim[l] = {}
  BY DEF LeaseInv, LeaseTypes, NoAim
<1>3. /\ daemon' \in [Daemon -> DaemonRecord]
      /\ daemon'[d].at = "listening" /\ daemon'[d].aim = NoAim
      /\ \A e \in Daemon \ {d} : daemon'[e] = daemon[e]
  BY <1>1, <1>2 DEF DaemonRecord
<1>4. /\ file' \in [Lease -> {Absent, Unset} \cup Pid]
      /\ \A l \in Lease : file'[l] # file[l] =>
            /\ daemon[d].aim[l] # {} /\ Wrappers(l) = {} /\ \A p \in daemon[d].aim[l] : ~Live(p)
  <2>1. CASE file' = [l \in Lease |->
                 IF /\ daemon[d].aim[l] # {} /\ Wrappers(l) = {}
                    /\ \A p \in daemon[d].aim[l] : ~Live(p)
                 THEN Absent ELSE file[l]]
    BY <1>2, <2>1
  <2>2. CASE file' = file
    BY <1>2, <2>2
  <2> QED BY <1>1, <2>1, <2>2
<1>5. \A l \in Lease : /\ file'[l] = file[l] => TurnOk(l)'
                       /\ \A p \in Wrappers(l)' : WrapperHangs(l, p)'
                       /\ job[l].by \in Daemon /\ daemon[job[l].by].at = "dead" =>
                             daemon'[job'[l].by].at = "dead"
  BY <1>1, <1>3, DaemonStep
<1>6. \A l \in Lease : file'[l] # file[l] => job[l].at \in Finished
  <2>1. ASSUME NEW l \in Lease, file'[l] # file[l] PROVE job[l].at \in Finished
    <3>1. job[l].by \in Daemon /\ daemon[job[l].by].at = "dead"
      BY <1>4, <2>1 DEF LeaseInv, AimOk
    <3> QED BY <3>1 DEF LeaseInv, TurnOk
  <2> QED BY <2>1
<1>7. ASSUME NEW l \in Lease PROVE TurnOk(l)'
  <2>1. CASE file'[l] = file[l]
    BY <1>5, <2>1
  <2>2. CASE file'[l] # file[l]
    <3>1. job[l].at \in Finished /\ job[l].at # "leased"
      BY <1>6, <2>2 DEF Finished
    <3> QED BY <1>1, <1>5, <3>1 DEF LeaseInv, TurnOk
  <2> QED BY <2>1, <2>2
<1>8. \A e \in Daemon, l \in Lease : AimOk(e, l)'
  BY <1>1, <1>2, <1>3, <1>5 DEF LeaseInv, AimOk
<1>9. OnlyItsOwnAreKilled'
  <2>1. \A e \in Daemon : daemon'[e].at = "killing" => e # d /\ daemon'[e] = daemon[e]
    BY <1>3
  <2> QED BY <1>1, <1>5, <2>1 DEF LeaseInv, OnlyItsOwnAreKilled, Live
<1>10. ProcessesOk' /\ WrappersAreLeased'
  BY <1>1, <1>4 DEF LeaseInv, ProcessesOk, WrappersAreLeased, Wrappers, Live
<1>11. ReleaseStep
  <2>1. ASSUME NEW l \in Lease, file[l] # Absent, file'[l] = Absent
        PROVE  /\ job[l].at # "verifying"
               /\ \A p \in daemon[d].aim[l] : os[p].lease # l
    <3>1. file'[l] # file[l]
      BY <2>1
    <3>2. job[l].at # "verifying"
      BY <1>6, <3>1 DEF Finished
    <3>3. daemon[d].aim[l] \subseteq Pid
      BY <1>2 DEF DaemonRecord
    <3> QED BY <1>4, <3>1, <3>2, <3>3, DeadHaveNoLease DEF LeaseInv
  <2>2. \A e \in Daemon : daemon[e].at = "confirming" /\ daemon'[e].at # "confirming" => e = d
    BY <1>3
  <2> QED BY <2>1, <2>2 DEF ReleaseStep
<1> QED BY <1>1, <1>3, <1>4, <1>7, <1>8, <1>9, <1>10, <1>11 DEF LeaseInv, LeaseTypes

LEMMA ListenStep ==
    ASSUME LeaseInv, NEW d \in Daemon, Listen(d)
    PROVE  LeaseInv' /\ ReleaseStep
<1>1. daemon[d].at = "listening" /\ UNCHANGED <<os, file, job>>
  BY DEF Listen
<1>2. PICK at \in {"dead", "running"} : daemon' = [daemon EXCEPT ![d].at = at]
  BY DEF Listen
<1>3. daemon \in [Daemon -> DaemonRecord] /\ daemon[d] \in DaemonRecord
  BY DEF LeaseInv, LeaseTypes
<1>4. /\ daemon' \in [Daemon -> DaemonRecord]
      /\ daemon'[d].at = at /\ daemon'[d].aim = daemon[d].aim
      /\ \A e \in Daemon \ {d} : daemon'[e] = daemon[e]
  BY <1>2, <1>3 DEF DaemonRecord
<1>5. \A l \in Lease : /\ TurnOk(l)'
                       /\ job[l].by \in Daemon /\ daemon[job[l].by].at = "dead" =>
                             daemon'[job'[l].by].at = "dead"
  BY <1>1, <1>4, DaemonStep
<1>6. \A e \in Daemon, l \in Lease : AimOk(e, l)'
  BY <1>1, <1>4, <1>5 DEF LeaseInv, AimOk
<1>7. OnlyItsOwnAreKilled'
  <2>1. \A e \in Daemon : daemon'[e].at = "killing" => e # d /\ daemon'[e] = daemon[e]
    BY <1>4
  <2> QED BY <1>1, <1>5, <2>1 DEF LeaseInv, OnlyItsOwnAreKilled, Live
<1>8. ProcessesOk' /\ WrappersAreLeased'
  BY <1>1 DEF LeaseInv, ProcessesOk, WrappersAreLeased, Wrappers, Live
<1> QED BY <1>1, <1>4, <1>5, <1>6, <1>7, <1>8, NothingReleased DEF LeaseInv, LeaseTypes

LEMMA CrashDaemonStep ==
    ASSUME LeaseInv, NEW d \in Daemon, CrashDaemon(d)
    PROVE  LeaseInv' /\ ReleaseStep
<1>1. /\ daemon[d].at = "running" /\ UNCHANGED file /\ os' = Dying({d})
      /\ daemon' = [daemon EXCEPT ![d].at = "dead"]
      /\ job' = [l \in Lease |-> IF job[l].by = d /\ job[l].at # "done"
                                 THEN [Unused EXCEPT !.at = "lost", !.by = d] ELSE job[l]]
  BY DEF CrashDaemon, Running
<1>2. /\ daemon \in [Daemon -> DaemonRecord] /\ daemon[d] \in DaemonRecord
      /\ job \in [Lease -> JobRecord] /\ d \notin Pid /\ d # Nobody
  BY LeasesAssumption DEF LeaseInv, LeaseTypes
<1>3. /\ daemon' \in [Daemon -> DaemonRecord]
      /\ daemon'[d].at = "dead" /\ daemon'[d].aim = daemon[d].aim
      /\ \A e \in Daemon \ {d} : daemon'[e] = daemon[e]
  BY <1>1, <1>2 DEF DaemonRecord
<1>4. /\ job' \in [Lease -> JobRecord]
      /\ \A l \in Lease :
            /\ job'[l].by = job[l].by /\ job'[l].aim \subseteq job[l].aim
            /\ IF job[l].by = d /\ job[l].at # "done" THEN job'[l].at = "lost"
               ELSE job'[l].at = job[l].at
  <2>1. ASSUME NEW l \in Lease
        PROVE  /\ job'[l] \in JobRecord
               /\ job'[l].by = job[l].by /\ job'[l].aim \subseteq job[l].aim
               /\ IF job[l].by = d /\ job[l].at # "done" THEN job'[l].at = "lost"
                  ELSE job'[l].at = job[l].at
    <3>1. CASE job[l].by = d /\ job[l].at # "done"
      BY <1>1, <3>1 DEF Unused, JobRecord
    <3>2. CASE ~(job[l].by = d /\ job[l].at # "done")
      BY <1>1, <1>2, <3>2
    <3> QED BY <3>1, <3>2
  <2> QED BY <1>1, <2>1
<1>5. /\ ProcessesOk'
      /\ \A p \in Pid : \/ os'[p] = Idle
                        \/ /\ os'[p].runs = os[p].runs /\ os'[p].lease = os[p].lease
                           /\ os'[p].parent = IF os[p].parent \in {d} THEN Launchd
                                              ELSE os[p].parent
  BY <1>1, DyingFades DEF LeaseInv
<1>6. Fades
  BY <1>5 DEF Fades
<1>7. \A l \in Lease : Wrappers(l)' \subseteq Wrappers(l)
  BY <1>6, FadingKeepsWrappers
<1>8. ASSUME NEW l \in Lease PROVE TurnOk(l)'
  <2>1. ASSUME NEW p \in Wrappers(l)' PROVE WrapperHangs(l, p)'
    <3>1. p \in Wrappers(l) /\ WrapperHangs(l, p) /\ p \in Pid /\ job'[l].by = job[l].by
      BY <1>4, <1>7, <2>1 DEF LeaseInv, TurnOk, Wrappers
    <3>2. os'[p] # Idle
      BY <2>1, LeasesAssumption DEF Wrappers, Wrapper, Idle
    <3>3. os'[p].parent = IF os[p].parent = d THEN Launchd ELSE os[p].parent
      BY <1>5, <3>1, <3>2
    <3>4. CASE job[l].by = d
      BY <1>3, <3>1, <3>3, <3>4 DEF WrapperHangs
    <3>5. CASE job[l].by # d
      <4>1. job[l].by \in Daemon /\ daemon'[job[l].by] = daemon[job[l].by] /\ Launchd # d
        BY <1>3, <3>1, <3>5, LeasesAssumption DEF WrapperHangs
      <4> QED BY <3>1, <3>3, <3>5, <4>1 DEF WrapperHangs
    <3> QED BY <3>4, <3>5
  <2>2. \A p \in Pid : os[p].lease # l => os'[p].lease # l
    BY <1>5, LeasesAssumption DEF Idle
  <2>3. TurnOk(l)
    BY DEF LeaseInv
  <2>4. CASE job[l].by = d /\ job[l].at # "done"
    <3>1. job'[l].at = "lost"
      BY <1>4, <2>4
    <3> QED BY <2>1, <3>1 DEF TurnOk, Finished
  <2>5. CASE ~(job[l].by = d /\ job[l].at # "done")
    <3>1. job'[l].at = job[l].at /\ job'[l].by = job[l].by
      BY <1>4, <2>5
    <3>2. job[l].at \notin Finished => job[l].by # d
      BY <2>5 DEF Finished
    <3> QED BY <1>1, <1>3, <2>1, <2>2, <2>3, <3>1, <3>2 DEF TurnOk
  <2> QED BY <2>4, <2>5
<1>9. \A e \in Daemon : daemon[e].at = "dead" => daemon'[e].at = "dead"
  BY <1>3
<1>10. \A e \in Daemon, l \in Lease : AimOk(e, l)'
  BY <1>3, <1>4, <1>9 DEF LeaseInv, AimOk
<1>11. OnlyItsOwnAreKilled'
  <2>1. \A p \in Pid : Live(p)' => Live(p) /\ os'[p].lease = os[p].lease
    BY <1>6 DEF Fades, Live, Idle
  <2>2. \A l \in Lease : \A p \in job'[l].aim : Live(p)' => os'[p].lease = l
    BY <1>2, <1>4, <2>1 DEF LeaseInv, OnlyItsOwnAreKilled, JobRecord
  <2>3. ASSUME NEW e \in Daemon, daemon'[e].at = "killing", NEW l \in Lease,
               NEW p \in daemon'[e].aim[l], Live(p)'
        PROVE  /\ os'[p].lease = l
               /\ job'[l].by \in Daemon /\ daemon'[job'[l].by].at = "dead"
    <3>1. daemon[e].at = "killing" /\ p \in daemon[e].aim[l]
      BY <1>3, <2>3
    <3>2. p \in Pid
      BY <1>2, <3>1 DEF DaemonRecord
    <3>3. Live(p) /\ os'[p].lease = os[p].lease
      BY <2>1, <2>3, <3>2
    <3> QED BY <1>4, <1>9, <3>1, <3>3 DEF LeaseInv, OnlyItsOwnAreKilled
  <2> QED BY <2>2, <2>3 DEF OnlyItsOwnAreKilled
<1>12. WrappersAreLeased'
  BY <1>1, <1>7 DEF LeaseInv, WrappersAreLeased
<1> QED BY <1>1, <1>3, <1>4, <1>5, <1>8, <1>10, <1>11, <1>12, NothingReleased DEF LeaseInv, LeaseTypes

-----------------------------------------------------------------------------
(* A turn or a probe.                                                      *)

\* What a turn at work does to itself alone.
LEMMA JobStep ==
    ASSUME LeaseInv, NEW l \in Lease, UNCHANGED <<os, daemon>>,
           job[l].at \notin Finished,
           job' \in [Lease -> JobRecord],
           \A m \in Lease \ {l} : job'[m] = job[m] /\ file'[m] = file[m],
           job'[l].by = job[l].by, job'[l].at \notin {"unused", "leased"},
           \A p \in job'[l].aim : Live(p) => os[p].lease = l,
           file' \in [Lease -> {Absent, Unset} \cup Pid],
           file'[l] = Absent => file[l] = Absent \/ Wrappers(l) = {},
           /\ file[l] # Absent /\ file'[l] = Absent
           => job[l].at # "verifying" \/ \A p \in job[l].tracked : os[p].lease # l
    PROVE  LeaseInv' /\ ReleaseStep
<1>1. \A m \in Lease : TurnOk(m)'
  BY DEF LeaseInv, TurnOk, Finished, Wrappers, WrapperHangs
<1>2. \A d \in Daemon, m \in Lease : AimOk(d, m)'
  BY DEF LeaseInv, AimOk
<1>3. OnlyItsOwnAreKilled'
  <2>1. \A m \in Lease : \A p \in job'[m].aim : Live(p)' => os'[p].lease = m
    BY DEF LeaseInv, OnlyItsOwnAreKilled, Live
  <2>2. \A m \in Lease : job'[m].by = job[m].by
    OBVIOUS
  <2> QED BY <2>1, <2>2 DEF LeaseInv, OnlyItsOwnAreKilled, Live
<1>4. ProcessesOk' /\ WrappersAreLeased'
  BY DEF LeaseInv, ProcessesOk, WrappersAreLeased, Wrappers, Live
<1>5. ReleaseStep
  <2>1. \A d \in Daemon : ~(daemon[d].at = "confirming" /\ daemon'[d].at # "confirming")
    OBVIOUS
  <2> QED BY <2>1 DEF ReleaseStep
<1> QED BY <1>1, <1>2, <1>3, <1>4, <1>5 DEF LeaseInv, LeaseTypes

\* How a turn moves on, and how its lease goes.
LEMMA Moved ==
    ASSUME LeaseTypes, NEW l \in Lease,
           NEW to \in {"opening", "open", "closing", "ending", "killing", "verifying", "done"},
           Moves(l, to)
    PROVE  /\ job' \in [Lease -> JobRecord]
           /\ job'[l].at = to /\ job'[l].by = job[l].by /\ job'[l].aim = job[l].aim
           /\ \A m \in Lease \ {l} : job'[m] = job[m]
BY DEF LeaseTypes, Moves, JobRecord

LEMMA Dropped ==
    ASSUME LeaseTypes, NEW l \in Lease, Drops(l)
    PROVE  /\ file' \in [Lease -> {Absent, Unset} \cup Pid]
           /\ file'[l] = Absent /\ \A m \in Lease \ {l} : file'[m] = file[m]
BY DEF LeaseTypes, Drops

LEMMA CreateLeaseStep ==
    ASSUME LeaseInv, NEW l \in Lease, CreateLease(l)
    PROVE  LeaseInv' /\ ReleaseStep
<1>1. /\ job[l].at = "unused" /\ UNCHANGED <<os, daemon>>
      /\ file' = [file EXCEPT ![l] = Unset]
  BY DEF CreateLease
<1>2. PICK d \in Daemon, probe \in BOOLEAN :
         /\ daemon[d].at = "running"
         /\ job' = [job EXCEPT ![l].at = "leased", ![l].by = d, ![l].probe = probe]
  BY DEF CreateLease, Running
<1>3. /\ job' \in [Lease -> JobRecord] /\ job'[l].at = "leased" /\ job'[l].by = d
      /\ job'[l].aim = job[l].aim
      /\ \A m \in Lease \ {l} : job'[m] = job[m]
  <2>1. job \in [Lease -> JobRecord] /\ job[l] \in JobRecord
    BY DEF LeaseInv, LeaseTypes
  <2>2. /\ job' \in [Lease -> JobRecord] /\ DOMAIN job' = Lease
        /\ \A m \in Lease \ {l} : job'[m] = job[m]
    BY <1>2, <2>1 DEF JobRecord
  <2>3. job'[l] = [job[l] EXCEPT !.at = "leased", !.by = d, !.probe = probe]
    BY <1>2, <2>1
  <2> QED BY <2>1, <2>2, <2>3 DEF JobRecord
<1>4. /\ file' \in [Lease -> {Absent, Unset} \cup Pid] /\ file'[l] # Absent
      /\ \A m \in Lease \ {l} : file'[m] = file[m]
  <2>1. Absent # Unset
    BY DEF Absent, Unset
  <2> QED BY <1>1, <2>1 DEF LeaseInv, LeaseTypes
<1>5. /\ job[l].by = Nobody /\ \A p \in Pid : os[p].lease # l
      /\ \A e \in Daemon : daemon[e].aim[l] = {}
  <2>1. job[l].by = Nobody /\ \A p \in Pid : os[p].lease # l
    BY <1>1 DEF LeaseInv, TurnOk
  <2>2. job[l].by \notin Daemon
    BY <2>1, LeasesAssumption
  <2> QED BY <2>1, <2>2 DEF LeaseInv, AimOk
<1>6. Wrappers(l) = {} /\ \A m \in Lease : Wrappers(m)' = Wrappers(m)
  BY <1>1, <1>5 DEF Wrappers
<1>7. ASSUME NEW m \in Lease PROVE TurnOk(m)'
  <2>1. CASE m = l
    BY <1>1, <1>2, <1>3, <1>4, <1>5, <1>6, <2>1 DEF TurnOk, Finished
  <2>2. CASE m # l
    BY <1>1, <1>3, <1>4, <1>6, <2>2 DEF LeaseInv, TurnOk, WrapperHangs
  <2> QED BY <2>1, <2>2
<1>8. \A e \in Daemon, m \in Lease : AimOk(e, m)'
  BY <1>1, <1>3, <1>5 DEF LeaseInv, AimOk
<1>9. OnlyItsOwnAreKilled'
  <2>1. \A m \in Lease : \A p \in job'[m].aim : Live(p)' => os'[p].lease = m
    BY <1>1, <1>3 DEF LeaseInv, OnlyItsOwnAreKilled, Live
  <2>2. \A e \in Daemon : daemon'[e].at = "killing" =>
           \A m \in Lease : \A p \in daemon'[e].aim[m] :
              Live(p)' => /\ os'[p].lease = m
                          /\ job'[m].by \in Daemon /\ daemon'[job'[m].by].at = "dead"
    <3>1. \A e \in Daemon, m \in Lease : daemon[e].aim[m] # {} => job'[m] = job[m]
      BY <1>3, <1>5
    <3> QED BY <1>1, <3>1 DEF LeaseInv, OnlyItsOwnAreKilled, Live
  <2> QED BY <2>1, <2>2 DEF OnlyItsOwnAreKilled
<1>10. ProcessesOk' /\ WrappersAreLeased'
  BY <1>1, <1>4, <1>6 DEF LeaseInv, ProcessesOk, WrappersAreLeased, Live
<1>11. ReleaseStep
  BY <1>1, <1>4 DEF ReleaseStep
<1> QED BY <1>1, <1>3, <1>4, <1>7, <1>8, <1>9, <1>10, <1>11 DEF LeaseInv, LeaseTypes

LEMMA SetupFailsStep ==
    ASSUME LeaseInv, NEW l \in Lease, SetupFails(l)
    PROVE  LeaseInv' /\ ReleaseStep
<1>1. job[l].at = "leased" /\ Drops(l) /\ Moves(l, "done") /\ UNCHANGED <<os, daemon>>
  BY DEF SetupFails
<1>2. /\ job' \in [Lease -> JobRecord]
      /\ job'[l].at = "done" /\ job'[l].by = job[l].by /\ job'[l].aim = job[l].aim
      /\ \A m \in Lease \ {l} : job'[m] = job[m]
  BY <1>1, Moved DEF LeaseInv
<1>3. /\ file' \in [Lease -> {Absent, Unset} \cup Pid]
      /\ file'[l] = Absent /\ \A m \in Lease \ {l} : file'[m] = file[m]
  BY <1>1, Dropped DEF LeaseInv
<1>4. Wrappers(l) = {}
  BY <1>1 DEF LeaseInv, TurnOk, Wrappers
<1>5. \A p \in job'[l].aim : Live(p) => os[p].lease = l
  BY <1>2 DEF LeaseInv, OnlyItsOwnAreKilled
<1> QED BY <1>1, <1>2, <1>3, <1>4, <1>5, JobStep DEF Finished

LEMMA SpawnStep ==
    ASSUME LeaseInv, NEW l \in Lease, Spawn(l)
    PROVE  LeaseInv' /\ ReleaseStep
<1>1. job[l].at = "leased" /\ Moves(l, "opening") /\ UNCHANGED <<file, daemon>>
  BY DEF Spawn
<1>2. PICK q \in Free :
         os' = [os EXCEPT ![q] = [runs |-> "wrapper", lease |-> l, parent |-> job[l].by]]
  BY DEF Spawn
<1>3. /\ job' \in [Lease -> JobRecord]
      /\ job'[l].at = "opening" /\ job'[l].by = job[l].by /\ job'[l].aim = job[l].aim
      /\ \A m \in Lease \ {l} : job'[m] = job[m]
  BY <1>1, Moved DEF LeaseInv
<1>4. /\ job[l].by \in Daemon /\ daemon[job[l].by].at = "running" /\ file[l] # Absent
      /\ \A p \in Pid : os[p].lease # l
  BY <1>1 DEF LeaseInv, TurnOk, Finished
<1>5. /\ os' \in [Pid -> Process] /\ q \in Pid
      /\ os'[q].runs = "wrapper" /\ os'[q].lease = l /\ os'[q].parent = job[l].by
      /\ \A r \in Pid \ {q} : os'[r] = os[r]
  <2>1. os \in [Pid -> Process]
    BY DEF LeaseInv, ProcessesOk
  <2> QED BY <1>2, <1>4, <2>1 DEF Process, Free
<1>6. /\ ProcessesOk' /\ OnlyItsOwnAreKilled'
      /\ \A m \in Lease : Wrappers(m)' = IF m = l THEN Wrappers(m) \cup {q} ELSE Wrappers(m)
  <2>1. job[l].by \notin Pid /\ "wrapper" \in Wrapper
    BY <1>4, LeasesAssumption DEF Wrapper
  <2>2. \A m \in Lease : job'[m].aim = job[m].aim /\ job'[m].by = job[m].by
    BY <1>3
  <2>3. UNCHANGED daemon
    BY <1>1
  <2> QED BY <1>5, <2>1, <2>2, <2>3, PidTaken
<1>7. ASSUME NEW m \in Lease PROVE TurnOk(m)'
  <2>1. TurnOk(m)
    BY DEF LeaseInv
  <2>2. \A r \in Wrappers(m) : r \in Pid /\ r # q
    BY DEF Wrappers, Wrapper, Live, Free
  <2>3. CASE m = l
    <3>1. Wrappers(l) = {}
      BY <1>4 DEF Wrappers
    <3>2. \A r \in Wrappers(m)' : r = q
      BY <1>6, <2>3, <3>1
    <3> QED BY <1>1, <1>3, <1>4, <1>5, <2>3, <3>2 DEF TurnOk, WrapperHangs
  <2>4. CASE m # l
    <3>1. \A r \in Wrappers(m)' : WrapperHangs(m, r)'
      BY <1>1, <1>3, <1>5, <1>6, <2>2, <2>4, SameWrappers
    <3>2. (\A r \in Pid : os[r].lease # m) => \A r \in Pid : os'[r].lease # m
      BY <1>5, <2>4
    <3> QED BY <1>1, <1>3, <2>1, <2>4, <3>1, <3>2 DEF TurnOk
  <2> QED BY <2>3, <2>4
<1>8. \A e \in Daemon, m \in Lease : AimOk(e, m)'
  BY <1>1, <1>3 DEF LeaseInv, AimOk
<1>9. WrappersAreLeased'
  BY <1>1, <1>4, <1>6 DEF LeaseInv, WrappersAreLeased
<1> QED BY <1>1, <1>3, <1>6, <1>7, <1>8, <1>9, NothingReleased DEF LeaseInv, LeaseTypes

LEMMA OpenedStep ==
    ASSUME LeaseInv, NEW l \in Lease, Opened(l)
    PROVE  LeaseInv' /\ ReleaseStep
<1>1. /\ job[l].at = "opening" /\ Wrappers(l) # {} /\ Moves(l, "open") /\ UNCHANGED <<os, daemon>>
      /\ file' = IF job[l].probe THEN file ELSE WithRoot(l, CHOOSE p \in Wrappers(l) : TRUE)
  BY DEF Opened
<1>2. /\ job' \in [Lease -> JobRecord]
      /\ job'[l].at = "open" /\ job'[l].by = job[l].by /\ job'[l].aim = job[l].aim
      /\ \A m \in Lease \ {l} : job'[m] = job[m]
  BY <1>1, Moved DEF LeaseInv
<1> DEFINE root == IF ~job[l].probe /\ l \in OnDisk THEN CHOOSE p \in Wrappers(l) : TRUE ELSE file[l]
<1>3. (CHOOSE p \in Wrappers(l) : TRUE) \in Wrappers(l)
  BY <1>1
<1>4. root \in {Absent, Unset} \cup Pid /\ (root = Absent => file[l] = Absent)
  <2>1. Wrappers(l) \subseteq Pid /\ Absent \notin Pid
    BY LeasesAssumption DEF Wrappers
  <2> QED BY <1>3, <2>1 DEF LeaseInv, LeaseTypes
<1>5. file' = [file EXCEPT ![l] = root]
  BY <1>1 DEF LeaseInv, LeaseTypes, WithRoot
<1> HIDE DEF root
<1>6. /\ file' \in [Lease -> {Absent, Unset} \cup Pid] /\ file'[l] = root
      /\ \A m \in Lease \ {l} : file'[m] = file[m]
  BY <1>4, <1>5 DEF LeaseInv, LeaseTypes
<1>7. \A p \in job'[l].aim : Live(p) => os[p].lease = l
  BY <1>2 DEF LeaseInv, OnlyItsOwnAreKilled
<1> QED BY <1>1, <1>2, <1>4, <1>6, <1>7, JobStep DEF Finished

\* A turn that moves on and changes neither its aim nor its lease.
LEMMA MovesStep ==
    ASSUME LeaseInv, NEW l \in Lease, UNCHANGED <<os, file, daemon>>,
           job[l].at \notin Finished,
           NEW to \in {"opening", "open", "closing", "ending", "killing", "verifying", "done"},
           Moves(l, to)
    PROVE  LeaseInv' /\ ReleaseStep
<1>1. /\ job' \in [Lease -> JobRecord]
      /\ job'[l].at = to /\ job'[l].by = job[l].by /\ job'[l].aim = job[l].aim
      /\ \A m \in Lease \ {l} : job'[m] = job[m]
  BY Moved DEF LeaseInv
<1>2. \A p \in job'[l].aim : Live(p) => os[p].lease = l
  BY <1>1 DEF LeaseInv, OnlyItsOwnAreKilled
<1> QED BY <1>1, <1>2, JobStep DEF LeaseInv, LeaseTypes

LEMMA OpenFailsStep ==
    ASSUME LeaseInv, NEW l \in Lease, OpenFails(l)
    PROVE  LeaseInv' /\ ReleaseStep
BY MovesStep DEF OpenFails, Finished

LEMMA CaptureStep ==
    ASSUME LeaseInv, NEW l \in Lease, Capture(l)
    PROVE  LeaseInv' /\ ReleaseStep
<1>1. job[l].at = "open" /\ UNCHANGED <<os, file, daemon>>
  BY DEF Capture
<1>2. CASE job' = [job EXCEPT ![l].at = "closing", ![l].tracked = TreeOf(l)]
  <2>1. TreeOf(l) \in SUBSET Pid
    BY DEF TreeOf, Tree
  <2>2. PICK tree \in SUBSET Pid : tree = TreeOf(l)
    BY <2>1
  <2>3. job \in [Lease -> JobRecord] /\ job[l] \in JobRecord
    BY DEF LeaseInv, LeaseTypes
  <2>4. /\ job' = [job EXCEPT ![l].at = "closing", ![l].tracked = tree]
        /\ job'[l] = [job[l] EXCEPT !.at = "closing", !.tracked = tree]
    BY <1>2, <2>2, <2>3
  <2>5. /\ job' \in [Lease -> JobRecord] /\ \A m \in Lease \ {l} : job'[m] = job[m]
    BY <2>3, <2>4 DEF JobRecord
  <2>6. job'[l].at = "closing" /\ job'[l].by = job[l].by /\ job'[l].aim = job[l].aim
    BY <2>3, <2>4 DEF JobRecord
  <2>7. \A p \in job'[l].aim : Live(p) => os[p].lease = l
    BY <2>6 DEF LeaseInv, OnlyItsOwnAreKilled
  <2> QED BY <1>1, <2>5, <2>6, <2>7, JobStep DEF LeaseInv, LeaseTypes, Finished
<1>3. CASE \E to \in {"closing", "done"} : Moves(l, to)
  BY <1>1, <1>3, MovesStep DEF Finished
<1> QED BY <1>2, <1>3 DEF Capture

LEMMA CloseStep ==
    ASSUME LeaseInv, NEW l \in Lease, Close(l)
    PROVE  LeaseInv' /\ ReleaseStep
<1>1. job[l].at = "closing" /\ UNCHANGED <<os, file, daemon>>
  BY DEF Close
<1>2. \E to \in {"ending", "done"} : Moves(l, to)
  BY DEF Close
<1> QED BY <1>1, <1>2, MovesStep DEF Finished

\* The cleanup looks before it signals: what it finds is the turn's.
LEMMA TerminateStep ==
    ASSUME LeaseInv, NEW l \in Lease, Terminate(l)
    PROVE  LeaseInv' /\ ReleaseStep
<1>1. job[l].at = "ending" /\ UNCHANGED <<os, file, daemon>>
  BY DEF Terminate
<1>2. CASE job' = [job EXCEPT ![l].at = "killing", ![l].aim = TreeOf(l)]
  <2>1. TreeOf(l) \subseteq {p \in Pid : os[p].lease = l}
    BY TreesOfALease DEF LeaseInv, TreeOf
  <2>2. PICK tree \in SUBSET Pid : tree = TreeOf(l)
    BY <2>1
  <2>3. job \in [Lease -> JobRecord] /\ job[l] \in JobRecord
    BY DEF LeaseInv, LeaseTypes
  <2>4. /\ job' = [job EXCEPT ![l].at = "killing", ![l].aim = tree]
        /\ job'[l] = [job[l] EXCEPT !.at = "killing", !.aim = tree]
    BY <1>2, <2>2, <2>3
  <2>5. /\ job' \in [Lease -> JobRecord] /\ \A m \in Lease \ {l} : job'[m] = job[m]
    BY <2>3, <2>4 DEF JobRecord
  <2>6. job'[l].at = "killing" /\ job'[l].by = job[l].by /\ job'[l].aim = tree
    BY <2>3, <2>4 DEF JobRecord
  <2>7. \A p \in job'[l].aim : Live(p) => os[p].lease = l
    BY <2>1, <2>2, <2>6
  <2> QED BY <1>1, <2>5, <2>6, <2>7, JobStep DEF LeaseInv, LeaseTypes, Finished
<1>3. CASE Moves(l, "done")
  BY <1>1, <1>3, MovesStep DEF Finished
<1> QED BY <1>2, <1>3 DEF Terminate

LEMMA TerminateKillStep ==
    ASSUME LeaseInv, NEW l \in Lease, TerminateKill(l)
    PROVE  LeaseInv' /\ ReleaseStep
<1>1. /\ job[l].at = "killing" /\ Kill(job[l].aim) /\ UNCHANGED <<file, daemon>>
      /\ job' = [job EXCEPT ![l].at = "verifying", ![l].aim = {},
                            ![l].tracked = @ \cup job[l].aim]
  BY DEF TerminateKill
<1>2. job \in [Lease -> JobRecord] /\ job[l] \in JobRecord
  BY DEF LeaseInv, LeaseTypes
<1>3. job[l].aim \in SUBSET Pid /\ job[l].tracked \cup job[l].aim \in SUBSET Pid
  BY <1>2 DEF JobRecord
<1>4. PICK dead \in SUBSET Pid : os' = Dying(dead)
  BY <1>1, <1>3, KillDies
<1>5. PICK tracked \in SUBSET Pid : tracked = job[l].tracked \cup job[l].aim
  BY <1>3
<1>6. job'[l] = [job[l] EXCEPT !.at = "verifying", !.aim = {}, !.tracked = tracked]
  BY <1>1, <1>2, <1>5
<1>7. \A m \in Lease \ {l} : job'[m] = job[m]
  BY <1>1, <1>2
<1>8. /\ job'[l] \in JobRecord
      /\ job'[l].at = "verifying" /\ job'[l].by = job[l].by /\ job'[l].aim = {}
  BY <1>2, <1>6 DEF JobRecord
<1>9. job' \in [Lease -> JobRecord]
  <2>1. job' = [m \in Lease |-> job'[m]]
    BY <1>1, <1>2
  <2> QED BY <1>2, <1>7, <1>8, <2>1
<1>10. LeaseTypes' /\ Onward
  <2>1. LeaseTypes'
    BY <1>1, <1>9 DEF LeaseInv, LeaseTypes
  <2>2. \A m \in Lease :
           /\ job'[m].aim \subseteq job[m].aim /\ job'[m].by = job[m].by
           /\ job'[m].at \in Finished \/ job[m].at \notin Finished
           /\ job'[m].at \in {"unused", "leased"} => job'[m].at = job[m].at
    BY <1>1, <1>7, <1>8 DEF Finished
  <2> QED BY <1>1, <2>1, <2>2 DEF Onward
<1> QED BY <1>1, <1>4, <1>10, DyingStep, NothingReleased

LEMMA VerifyStep ==
    ASSUME LeaseInv, NEW l \in Lease, Verify(l)
    PROVE  LeaseInv' /\ ReleaseStep
<1>1. job[l].at = "verifying" /\ Moves(l, "done") /\ UNCHANGED <<os, daemon>>
  BY DEF Verify
<1>2. CASE Gone(l)
  <2>1. /\ job' \in [Lease -> JobRecord]
        /\ job'[l].at = "done" /\ job'[l].by = job[l].by /\ job'[l].aim = job[l].aim
        /\ \A m \in Lease \ {l} : job'[m] = job[m]
    BY <1>1, Moved DEF LeaseInv
  <2>2. /\ file' \in [Lease -> {Absent, Unset} \cup Pid]
        /\ file'[l] = Absent /\ \A m \in Lease \ {l} : file'[m] = file[m]
    BY <1>2, Dropped DEF LeaseInv, Verify
  <2>3. Wrappers(l) = {} /\ \A p \in job[l].tracked : os[p].lease # l
    <3>1. job[l].tracked \subseteq Pid
      BY DEF LeaseInv, LeaseTypes, JobRecord
    <3> QED BY <1>2, <3>1, DeadHaveNoLease DEF LeaseInv, Gone
  <2>4. \A p \in job'[l].aim : Live(p) => os[p].lease = l
    BY <2>1 DEF LeaseInv, OnlyItsOwnAreKilled
  <2> QED BY <1>1, <2>1, <2>2, <2>3, <2>4, JobStep DEF Finished
<1>3. CASE ~Gone(l)
  <2>1. UNCHANGED file
    BY <1>3 DEF Verify
  <2> QED BY <1>1, <2>1, MovesStep DEF Finished
<1> QED BY <1>2, <1>3

-----------------------------------------------------------------------------

LEMMA LeaseInvInductive == LeaseInv /\ [Next]_vars => LeaseInv' /\ ReleaseStep
<1> SUFFICES ASSUME LeaseInv, [Next]_vars PROVE LeaseInv' /\ ReleaseStep
  OBVIOUS
<1>1. ASSUME NEW p \in Pid, Fork(p) \/ Exit(p) \/ Reuse(p) PROVE LeaseInv' /\ ReleaseStep
  BY <1>1, ForkStep, ExitStep, ReuseStep
<1>2. ASSUME NEW d \in Daemon, Starts(d) \/ CrashDaemon(d) PROVE LeaseInv' /\ ReleaseStep
  BY <1>2, ReapListStep, ReapKillStep, ReapConfirmStep, ListenStep, CrashDaemonStep DEF Starts
<1>3. ASSUME NEW l \in Lease, Works(l) PROVE LeaseInv' /\ ReleaseStep
  BY <1>3, CreateLeaseStep, SetupFailsStep, SpawnStep, OpenedStep, OpenFailsStep, CaptureStep,
     CloseStep, TerminateStep, TerminateKillStep, VerifyStep DEF Works
<1>4. CASE UNCHANGED vars
  BY <1>4 DEF vars, LeaseInv, LeaseTypes, ProcessesOk, Live, TurnOk, Wrappers, WrapperHangs,
              AimOk, OnlyItsOwnAreKilled, WrappersAreLeased, ReleaseStep
<1> QED BY <1>1, <1>2, <1>3, <1>4 DEF Next

\* A cleanup and a starting daemon's reaping signal only what runs under the lease
\* they clean up, the reaping only the processes of dead daemons; a wrapper runs only
\* under a lease on disk; and a lease is given up only when nothing of what was
\* captured runs under it any more (process-lease.ts).
THEOREM LeasesStaySound == Spec => LeasesAreSound
<1>1. ReleaseStep =>
         [\A l \in Lease :
             /\ file[l] # Absent /\ file'[l] = Absent
             => \A p \in (IF job[l].at = "verifying" THEN job[l].tracked
                          ELSE UNION {daemon[d].aim[l] : d \in {e \in Daemon :
                                     daemon[e].at = "confirming" /\ daemon'[e].at # "confirming"}}) :
                   os[p].lease # l]_vars
  BY DEF ReleaseStep
<1>2. LeaseInv => OnlyItsOwnAreKilled /\ WrappersAreLeased
  BY DEF LeaseInv
<1> QED BY <1>1, <1>2, LeaseInvInit, LeaseInvInductive, PTL DEF Spec, LeasesAreSound, ReleasedWhenGone

-----------------------------------------------------------------------------
(* Opening a database an older program wrote.                              *)

Column    == CurrentColumns \cup {RetiredColumn}
CopyOf    == [id : Schedule, edit : {0, 1}]
OpenerRecord == [at : {"down", "read", "do", "rebuild", "update", "open", "threw"},
                 stage : 1..10, seen : SUBSET Column, copy : SUBSET CopyOf]

StoreTypes ==
    /\ opener \in [Opener -> OpenerRecord] /\ cols \subseteq Column
    /\ rows \in [RunRow -> RowRecord] /\ kept \in [RunRow -> RowRecord]
    /\ schedules \in [Schedule -> [retired : BOOLEAN, edit : {0, 1}]]
    /\ edits \in [Schedule -> {0, 1}] /\ \A s \in Schedule : schedules[s].edit = edits[s]

\* What holds of the tables once a process has passed a stage.
Passed(k) ==
    /\ k \in {1, 2, 5, 6, 8, 9} => ToSet(AddedBy(Stages[k])) \subseteq cols
    /\ k = 1 => RetiredColumn \notin cols
    /\ k = 3 => "retry_of_run_id" \in cols
    /\ k = 4 => checks = "current"
    /\ k = 7 => \A s \in Schedule : ~schedules[s].retired
    /\ k = 10 => {r \in RunRow : rows[r].status # "none"} \subseteq counted

AtWork(p)  == opener[p].at \in {"read", "do", "rebuild", "update"}
Past(p, k) == opener[p].at = "open" \/ (AtWork(p) /\ k < opener[p].stage)

\* What is never to be rebuilt, whoever opens it.
Modern == Passed(3) /\ Passed(4) /\ Passed(7)

OpenersHold ==
    /\ \A p \in Opener : opener[p].at # "down" => p \in allowed
    /\ (\A p, q \in allowed : p = q) \/ Modern
    /\ port \in Opener => opener[port].at = "open"
    /\ \A p \in Opener : \A k \in 1..10 : Past(p, k) => Passed(k)

LinksHold ==
    "link" \in cols =>
       linked \/ cut \/ \E p \in Opener : opener[p].at = "update" /\ opener[p].stage = 9

RowsHold ==
    /\ "retry_of_run_id" \in cols => \A r \in RunRow : rows[r].status # "none" => rows[r] = kept[r]
    /\ "retry_of_run_id" \notin cols => \A r \in RunRow :
          /\ rows[r].retry = NoRun
          /\ kept[r] = IF Dangles(rows, r) THEN rows[r] ELSE Classified(rows, r)
    /\ "retry_of_run_id" \notin cols \/ "prompt_submitted" \notin cols =>
          \A r \in RunRow : ~rows[r].submitted

\* What a process has read is still so when it acts on it, as far as it matters.
ReadHolds(p) ==
    /\ opener[p].at \in {"do", "rebuild"} => opener[p].seen \subseteq cols \cup {RetiredColumn}
    /\ opener[p].at = "do" =>
          /\ opener[p].stage = 1 /\ RetiredColumn \in cols => RetiredColumn \in opener[p].seen
          /\ opener[p].stage = 3 /\ "retry_of_run_id" \in cols =>
                "retry_of_run_id" \in opener[p].seen
          /\ opener[p].stage = 7 =>
                opener[p].copy = {[id |-> s, edit |-> schedules[s].edit] :
                                     s \in {x \in Schedule : schedules[x].retired}}
    /\ opener[p].at = "rebuild" =>
          \/ /\ opener[p].stage = 3
             /\ "retry_of_run_id" \notin cols /\ ~Unclassifiable(rows)
          \/ /\ opener[p].stage = 4 /\ checks # "current"
             /\ "prompt_submitted" \in cols => "prompt_submitted" \in opener[p].seen
    /\ opener[p].at = "update" => opener[p].stage = 9 /\ "link" \in cols

StoreInv ==
    /\ StoreTypes /\ OpenersHold /\ LinksHold /\ RowsHold
    /\ \A p \in Opener : ReadHolds(p)

-----------------------------------------------------------------------------
(* The stages and their columns.                                           *)

LEMMA StageNames ==
    /\ DOMAIN Stages = 1..10 /\ Len(Stages) = 10
    /\ Stages[1] = "summaries" /\ Stages[2] = "efforts" /\ Stages[3] = "relations"
    /\ Stages[4] = "checks" /\ Stages[5] = "prompt" /\ Stages[6] = "receipts"
    /\ Stages[7] = "tools" /\ Stages[8] = "snooze" /\ Stages[9] = "links"
    /\ Stages[10] = "counters"
BY DEF Stages

LEMMA AddedColumns ==
    /\ ToSet(AddedBy(Stages[1])) = {"last_enriched_at", "bookmark_index"}
    /\ ToSet(AddedBy(Stages[2])) = {"effort", "harness_effort"}
    /\ ToSet(AddedBy(Stages[5])) = {"prompt_submitted"}
    /\ ToSet(AddedBy(Stages[6])) = {"completion_run_ids"}
    /\ ToSet(AddedBy(Stages[8])) = {"snoozed_until", "snoozed_through_message_at"}
    /\ ToSet(AddedBy(Stages[9])) = {"link"}
    /\ \A k \in {3, 4, 7, 10} : ToSet(AddedBy(Stages[k])) = {}
<1>1. ToSet(AddedBy(Stages[1])) = {"last_enriched_at", "bookmark_index"}
  BY StageNames DEF AddedBy, ToSet
<1>2. ToSet(AddedBy(Stages[2])) = {"effort", "harness_effort"}
  BY StageNames DEF AddedBy, ToSet
<1>3. ToSet(AddedBy(Stages[5])) = {"prompt_submitted"}
  BY StageNames DEF AddedBy, ToSet
<1>4. ToSet(AddedBy(Stages[6])) = {"completion_run_ids"}
  BY StageNames DEF AddedBy, ToSet
<1>5. ToSet(AddedBy(Stages[8])) = {"snoozed_until", "snoozed_through_message_at"}
  BY StageNames DEF AddedBy, ToSet
<1>6. ToSet(AddedBy(Stages[9])) = {"link"}
  BY StageNames DEF AddedBy, ToSet
<1>7. \A k \in {3, 4, 7, 10} : ToSet(AddedBy(Stages[k])) = {}
  BY StageNames DEF AddedBy, ToSet
<1> QED BY <1>1, <1>2, <1>3, <1>4, <1>5, <1>6, <1>7

\* A stage adds only columns of the present tables, and only one stage the link.
LEMMA StageColumns ==
    ASSUME NEW k \in 1..10, NEW column \in ToSet(AddedBy(Stages[k]))
    PROVE  /\ column \in CurrentColumns
           /\ column # "retry_of_run_id" /\ column # RetiredColumn
           /\ column = "link" => k = 9
           /\ k \in {1, 2, 5, 6, 8, 9}
<1>1. k \in {1, 2, 5, 6, 8, 9}
  BY AddedColumns
<1>2. column \in CurrentColumns
  <2>1. ToSet(AddedBy(Stages[k])) \in {ToSet(AddedBy(Stages[i])) : i \in DOMAIN Stages}
    BY StageNames
  <2> QED BY <2>1 DEF CurrentColumns
<1>3. /\ column # "retry_of_run_id" /\ column # RetiredColumn
      /\ column = "link" => k = 9
  BY <1>1, AddedColumns DEF RetiredColumn
<1> QED BY <1>1, <1>2, <1>3

\* The present tables' columns are those of the stages, and the one of the split.
LEMMA ColumnsByStage ==
    ASSUME NEW S, "retry_of_run_id" \in S,
           \A k \in 1..10 : ToSet(AddedBy(Stages[k])) \subseteq S
    PROVE  CurrentColumns \subseteq S
<1>1. RunColumns \subseteq S
  BY AddedColumns DEF RunColumns
<1>2. UNION {ToSet(AddedBy(Stages[i])) : i \in DOMAIN Stages} \subseteq S
  BY StageNames
<1> QED BY <1>1, <1>2 DEF CurrentColumns

LEMMA RetiredIsNoColumn == RetiredColumn \notin CurrentColumns
<1>1. \A k \in 1..10 : RetiredColumn \notin ToSet(AddedBy(Stages[k]))
  BY StageColumns
<1>2. RetiredColumn \notin RunColumns
  BY DEF RetiredColumn, RunColumns
<1>3. CurrentColumns \subseteq {x \in CurrentColumns \cup RunColumns : x # RetiredColumn}
  <2> DEFINE T == {x \in CurrentColumns \cup RunColumns : x # RetiredColumn}
  <2>1. "retry_of_run_id" \in T
    BY <1>2 DEF RunColumns
  <2>2. \A k \in 1..10 : ToSet(AddedBy(Stages[k])) \subseteq T
    BY StageColumns
  <2> HIDE DEF T
  <2>3. CurrentColumns \subseteq T
    BY <2>1, <2>2, ColumnsByStage
  <2> QED BY <2>3 DEF T
<1> QED BY <1>3

\* What is left for a stage to add.
LEMMA Todo ==
    ASSUME NEW stage, NEW seen
    PROVE  /\ {AddedBy(stage)[i] : i \in TodoOf(stage, seen)} = ToSet(AddedBy(stage)) \ seen
           /\ TodoOf(stage, seen) = {} => ToSet(AddedBy(stage)) \subseteq seen
           /\ \A i \in TodoOf(stage, seen) : AddedBy(stage)[i] \in ToSet(AddedBy(stage))
BY DEF TodoOf, ToSet

LEMMA RowTypes ==
    ASSUME NEW table \in [RunRow -> RowRecord], NEW r \in RunRow
    PROVE  Classified(table, r) \in RowRecord
<1>1. table[r] \in RowRecord /\ table[r].resume \in RunRow \cup {NoRun, "unknown"}
  BY DEF RowRecord
<1> QED BY <1>1 DEF Classified, RowRecord

LEMMA StoreInvInit ==
    ASSUME \A found \in OldStores : Upgradable(found), StoreInit
    PROVE  StoreInv
<1>1. PICK found \in OldStores :
         /\ found \in StoreRecord
         /\ cols = found.cols /\ checks = found.checks /\ rows = found.rows
         /\ linked = found.linked /\ counted = found.counted /\ allowed = found.allowed
         /\ schedules = [s \in Schedule |-> [retired |-> s \in found.retired, edit |-> 0]]
         /\ kept = [r \in RunRow |->
                      IF "retry_of_run_id" \in found.cols \/ Dangles(found.rows, r)
                      THEN found.rows[r] ELSE Classified(found.rows, r)]
  BY DEF StoreInit
<1>2. /\ Upgradable(found) /\ found.rows \in [RunRow -> RowRecord]
      /\ opener = [p \in Opener |-> Down] /\ port = NoRun
      /\ edits = [s \in Schedule |-> 0]
  BY <1>1 DEF StoreInit, StoreRecord
<1>3. StoreTypes
  <2>1. opener \in [Opener -> OpenerRecord] /\ cols \subseteq Column
    BY <1>1, <1>2 DEF Down, OpenerRecord, StoreRecord, Column
  <2>2. rows \in [RunRow -> RowRecord] /\ kept \in [RunRow -> RowRecord]
    <3>1. \A r \in RunRow : Classified(found.rows, r) \in RowRecord
      BY <1>2, RowTypes
    <3> QED BY <1>1, <1>2, <3>1
  <2>3. /\ schedules \in [Schedule -> [retired : BOOLEAN, edit : {0, 1}]]
        /\ edits \in [Schedule -> {0, 1}] /\ \A s \in Schedule : schedules[s].edit = edits[s]
    BY <1>1, <1>2
  <2> QED BY <2>1, <2>2, <2>3 DEF StoreTypes
<1>4. OpenersHold
  <2>1. \A p \in Opener : opener[p].at = "down"
    BY <1>2 DEF Down
  <2>2. (\A p, q \in allowed : p = q) \/ Modern
    <3>1. ASSUME "retry_of_run_id" \in cols, checks = "current",
                 \A s \in Schedule : ~schedules[s].retired
          PROVE  Modern
      BY <3>1 DEF Modern, Passed
    <3>2. found.retired = {} => \A s \in Schedule : ~schedules[s].retired
      BY <1>1
    <3> QED BY <1>1, <1>2, <3>1, <3>2 DEF Upgradable
  <2>3. port \notin Opener
    BY <1>2, StoreAssumption
  <2> QED BY <2>1, <2>2, <2>3 DEF OpenersHold, Past, AtWork
<1>5. LinksHold
  BY <1>1, <1>2 DEF LinksHold, Upgradable
<1>6. RowsHold
  BY <1>1, <1>2 DEF RowsHold, Upgradable
<1>7. \A p \in Opener : ReadHolds(p)
  BY <1>2 DEF ReadHolds, Down
<1> QED BY <1>3, <1>4, <1>5, <1>6, <1>7 DEF StoreInv

-----------------------------------------------------------------------------
(* A step of one constructor.                                              *)

\* Migrations only go forward.
Forward ==
    /\ cols' \subseteq Column /\ cols \subseteq cols' \cup {RetiredColumn}
    /\ RetiredColumn \in cols' => RetiredColumn \in cols
    /\ checks = "current" => checks' = "current"
    /\ schedules' \in [Schedule -> [retired : BOOLEAN, edit : {0, 1}]]
    /\ \A s \in Schedule : /\ schedules'[s].edit = schedules[s].edit
                           /\ schedules'[s].retired => schedules[s].retired
    /\ rows' \in [RunRow -> RowRecord] /\ \A r \in RunRow : rows'[r].status = rows[r].status
    /\ Passed(10) => Passed(10)'

LEMMA PassedStays ==
    ASSUME Forward, NEW k \in 1..10, Passed(k)
    PROVE  Passed(k)'
<1>1. RetiredColumn \notin ToSet(AddedBy(Stages[k]))
  BY StageColumns
<1>2. k = 3 => "retry_of_run_id" \in cols'
  BY DEF Forward, Passed, RetiredColumn
<1> QED BY <1>1, <1>2 DEF Forward, Passed

\* A process next to another one reads what is never to be rebuilt.
LEMMA OthersRead ==
    ASSUME StoreInv, Forward, NEW p \in Opener, p \in allowed,
           NEW q \in Opener \ {p}, opener'[q] = opener[q]
    PROVE  ReadHolds(q)'
<1>1. SUFFICES ASSUME opener[q].at \in {"do", "rebuild", "update"} PROVE ReadHolds(q)'
  BY DEF ReadHolds
<1>2. Modern
  BY <1>1 DEF StoreInv, OpenersHold
<1>3. Modern'
  BY <1>2, PassedStays DEF Modern
<1>4. /\ "retry_of_run_id" \in cols /\ "retry_of_run_id" \in cols' /\ checks = "current"
      /\ \A s \in Schedule : ~schedules[s].retired /\ ~schedules'[s].retired
  BY <1>2, <1>3 DEF Modern, Passed
<1>5. ReadHolds(q)
  BY DEF StoreInv
<1>6. opener[q].at # "rebuild"
  BY <1>4, <1>5 DEF ReadHolds
<1>7. "link" \in cols => "link" \in cols'
  BY DEF Forward, RetiredColumn
<1>8. CASE opener[q].at = "update"
  BY <1>5, <1>7, <1>8 DEF ReadHolds
<1>9. CASE opener[q].at = "do"
  <2>1. opener[q].seen \subseteq cols' \cup {RetiredColumn}
    BY <1>5, <1>9 DEF ReadHolds, Forward
  <2>2. opener[q].stage = 1 /\ RetiredColumn \in cols' => RetiredColumn \in opener[q].seen
    BY <1>5, <1>9 DEF ReadHolds, Forward
  <2>3. opener[q].stage = 3 => "retry_of_run_id" \in opener[q].seen
    BY <1>4, <1>5, <1>9 DEF ReadHolds
  <2>4. opener[q].stage = 7 =>
           opener[q].copy = {[id |-> s, edit |-> schedules'[s].edit] :
                                s \in {x \in Schedule : schedules'[x].retired}}
    BY <1>4, <1>5, <1>9 DEF ReadHolds
  <2> QED BY <1>9, <2>1, <2>2, <2>3, <2>4 DEF ReadHolds
<1> QED BY <1>1, <1>6, <1>8, <1>9

LEMMA TablesGoOn ==
    ASSUME StoreInv, NEW p \in Opener, p \in allowed, p # port,
           NEW to \in OpenerRecord, opener' = [opener EXCEPT ![p] = to],
           UNCHANGED Outside, Forward,
           \A k \in 1..10 : Past(p, k)' => Passed(k)',
           LinksHold', RowsHold', ReadHolds(p)'
    PROVE  StoreInv'
<1>1. /\ opener \in [Opener -> OpenerRecord] /\ opener' \in [Opener -> OpenerRecord]
      /\ opener'[p] = to /\ \A q \in Opener \ {p} : opener'[q] = opener[q]
      /\ UNCHANGED <<port, allowed, kept, edits, cut>>
  BY DEF StoreInv, StoreTypes, Outside
<1>2. StoreTypes'
  BY <1>1 DEF StoreInv, StoreTypes, Forward
<1>3. OpenersHold'
  <2>1. \A q \in Opener : opener'[q].at # "down" => q \in allowed'
    BY <1>1 DEF StoreInv, OpenersHold
  <2>2. Modern => Modern'
    BY PassedStays DEF Modern
  <2>3. port' \in Opener => opener'[port'].at = "open"
    BY <1>1 DEF StoreInv, OpenersHold
  <2>4. ASSUME NEW q \in Opener, NEW k \in 1..10, Past(q, k)' PROVE Passed(k)'
    <3>1. CASE q = p
      BY <2>4, <3>1
    <3>2. CASE q # p
      <4>1. Past(q, k)
        BY <1>1, <2>4, <3>2 DEF Past, AtWork
      <4> QED BY <4>1, PassedStays DEF StoreInv, OpenersHold
    <3> QED BY <3>1, <3>2
  <2> QED BY <1>1, <2>1, <2>2, <2>3, <2>4 DEF StoreInv, OpenersHold
<1>4. \A q \in Opener : ReadHolds(q)'
  BY <1>1, OthersRead
<1> QED BY <1>2, <1>3, <1>4 DEF StoreInv

\* A step that leaves the tables alone.
LEMMA OnlyItselfMoves ==
    ASSUME StoreInv, NEW p \in Opener, p \in allowed, p # port,
           NEW to \in OpenerRecord, opener' = [opener EXCEPT ![p] = to],
           opener[p].at # "update", UNCHANGED <<Table, Outside>>,
           \A k \in 1..10 : Past(p, k)' => Passed(k), ReadHolds(p)'
    PROVE  StoreInv'
<1>1. UNCHANGED <<cols, checks, rows, schedules, linked, counted>> /\ UNCHANGED Outside
  BY DEF Table
<1>2. \A k \in 1..10 : Passed(k)' <=> Passed(k)
  BY <1>1 DEF Passed
<1>3. Forward
  BY <1>1, <1>2 DEF Forward, StoreInv, StoreTypes
<1>4. LinksHold'
  <2>1. \A q \in Opener : opener[q].at = "update" => opener'[q] = opener[q]
    BY DEF StoreInv, StoreTypes
  <2> QED BY <1>1, <2>1 DEF StoreInv, LinksHold, Outside
<1>5. RowsHold'
  BY <1>1 DEF StoreInv, RowsHold, Outside, Dangles, StatusOf, Classified
<1> QED BY <1>1, <1>2, <1>3, <1>4, <1>5, TablesGoOn

\* A process at work opens the database, and is not the one that serves it.
LEMMA WorkersAreAllowed ==
    ASSUME StoreInv, NEW p \in Opener, opener[p].at \notin {"down", "open"}
    PROVE  p \in allowed /\ p # port
BY DEF StoreInv, OpenersHold

\* Which stage a process is at, by its number.
LEMMA StageNumbers ==
    ASSUME StoreInv, NEW p \in Opener
    PROVE  /\ opener[p] \in OpenerRecord /\ opener[p].stage \in 1..10
           /\ StageOf(p) = Stages[opener[p].stage]
           /\ StageOf(p) = "summaries" => opener[p].stage = 1
           /\ StageOf(p) = "relations" => opener[p].stage = 3
           /\ StageOf(p) = "checks" => opener[p].stage = 4
           /\ StageOf(p) = "tools" <=> opener[p].stage = 7
           /\ StageOf(p) = "links" <=> opener[p].stage = 9
           /\ StageOf(p) = "counters" => opener[p].stage = 10
           /\ StageOf(p) \in {"efforts", "prompt", "receipts", "snooze", "links"} =>
                 opener[p].stage \in {2, 5, 6, 8, 9}
<1>1. opener[p] \in OpenerRecord /\ opener[p].stage \in 1..10
  BY DEF StoreInv, StoreTypes, OpenerRecord
<1>2. StageOf(p) = Stages[opener[p].stage]
  BY DEF StageOf
<1> QED BY <1>1, <1>2, StageNames

LEMMA ToTheNextStage ==
    ASSUME StoreInv, NEW p \in Opener, AtWork(p), NextStage(p)
    PROVE  \E to \in OpenerRecord :
              /\ opener' = [opener EXCEPT ![p] = to] /\ to.at \in {"read", "open"}
              /\ opener'[p] = to
              /\ \A k \in 1..10 : Past(p, k)' => Past(p, k) \/ k = opener[p].stage
<1> DEFINE to == IF opener[p].stage = Len(Stages) THEN [Down EXCEPT !.at = "open"]
                 ELSE [Down EXCEPT !.at = "read", !.stage = opener[p].stage + 1]
<1>1. opener[p].stage \in 1..10 /\ Len(Stages) = 10 /\ opener \in [Opener -> OpenerRecord]
  BY StageNumbers, StageNames DEF StoreInv, StoreTypes
<1>2. /\ to \in OpenerRecord /\ to.at \in {"read", "open"}
      /\ to.at = "read" => to.stage = opener[p].stage + 1
      /\ to.at = "open" => opener[p].stage = 10
  <2>1. CASE opener[p].stage = 10
    BY <1>1, <2>1 DEF Down, OpenerRecord
  <2>2. CASE opener[p].stage # 10
    <3>1. PICK next \in 1..10 : next = opener[p].stage + 1
      BY <1>1, <2>2
    <3>2. to = [Down EXCEPT !.at = "read", !.stage = next]
      BY <1>1, <2>2, <3>1
    <3>3. /\ to = [at |-> "read", stage |-> next, seen |-> {}, copy |-> {}]
      BY <3>2 DEF Down
    <3> HIDE DEF to
    <3> QED BY <3>1, <3>3 DEF OpenerRecord
  <2> QED BY <2>1, <2>2
<1>3. opener' = [opener EXCEPT ![p] = to]
  BY DEF NextStage
<1> HIDE DEF to
<1>4. opener'[p] = to
  BY <1>1, <1>3
<1>5. ASSUME NEW k \in 1..10, Past(p, k)' PROVE Past(p, k) \/ k = opener[p].stage
  <2>1. CASE to.at = "open"
    BY <1>2, <2>1 DEF Past, AtWork
  <2>2. CASE to.at = "read"
    BY <1>1, <1>2, <1>4, <1>5, <2>2 DEF Past, AtWork
  <2> QED BY <1>2, <2>1, <2>2
<1> QED BY <1>2, <1>3, <1>4, <1>5

\* The end of a stage, with what it did to the tables.
LEMMA StageEnds ==
    ASSUME StoreInv, NEW p \in Opener, AtWork(p), NextStage(p), UNCHANGED Outside, Forward,
           NEW n \in 1..10, n = opener[p].stage, Passed(n)', LinksHold', RowsHold'
    PROVE  StoreInv'
<1>1. PICK to \in OpenerRecord :
         /\ opener' = [opener EXCEPT ![p] = to] /\ to.at \in {"read", "open"}
         /\ opener'[p] = to
         /\ \A k \in 1..10 : Past(p, k)' => Past(p, k) \/ k = opener[p].stage
  BY ToTheNextStage
<1>2. \A k \in 1..10 : Past(p, k)' => Passed(k)'
  <2>1. ASSUME NEW k \in 1..10, Past(p, k) PROVE Passed(k)'
    BY <2>1, PassedStays DEF StoreInv, OpenersHold
  <2> QED BY <1>1, <2>1
<1>3. ReadHolds(p)'
  BY <1>1 DEF ReadHolds
<1>4. p \in allowed /\ p # port
  BY WorkersAreAllowed DEF AtWork
<1> QED BY <1>1, <1>2, <1>3, <1>4, TablesGoOn

\* The end of a stage that found everything done.
LEMMA StageEndsIdly ==
    ASSUME StoreInv, NEW p \in Opener, AtWork(p), opener[p].at # "update", NextStage(p),
           UNCHANGED <<Table, Outside>>, Passed(opener[p].stage)
    PROVE  StoreInv'
<1>1. PICK to \in OpenerRecord :
         /\ opener' = [opener EXCEPT ![p] = to] /\ to.at \in {"read", "open"}
         /\ opener'[p] = to
         /\ \A k \in 1..10 : Past(p, k)' => Past(p, k) \/ k = opener[p].stage
  BY ToTheNextStage
<1>2. \A k \in 1..10 : Past(p, k)' => Passed(k)
  BY <1>1 DEF StoreInv, OpenersHold
<1>3. ReadHolds(p)'
  BY <1>1 DEF ReadHolds
<1>4. p \in allowed /\ p # port
  BY WorkersAreAllowed DEF AtWork
<1> QED BY <1>1, <1>2, <1>3, <1>4, OnlyItselfMoves

LEMMA ThrowHolds ==
    ASSUME StoreInv, NEW p \in Opener, AtWork(p), opener[p].at # "update", Throw(p),
           UNCHANGED <<Table, Outside>>
    PROVE  StoreInv'
<1>1. p \in allowed /\ p # port
  BY WorkersAreAllowed DEF AtWork
<1>2. PICK to : to = [Down EXCEPT !.at = "threw"]
  OBVIOUS
<1>3. to \in OpenerRecord /\ to.at = "threw" /\ opener' = [opener EXCEPT ![p] = to]
  BY <1>2 DEF Throw, Down, OpenerRecord
<1>4. opener'[p] = to
  BY <1>3 DEF StoreInv, StoreTypes
<1>5. (\A k \in 1..10 : ~Past(p, k)') /\ ReadHolds(p)'
  BY <1>3, <1>4 DEF Past, AtWork, ReadHolds
<1> QED BY <1>1, <1>3, <1>5, OnlyItselfMoves

LEMMA OpenDatabaseHolds ==
    ASSUME StoreInv, NEW p \in Opener, OpenDatabase(p)
    PROVE  StoreInv'
<1>1. /\ p \in allowed /\ p # port /\ opener[p].at \in {"down", "threw"}
      /\ UNCHANGED <<Table, Outside>>
      /\ opener' = [opener EXCEPT ![p] = [Down EXCEPT !.at = "read"]]
  BY DEF OpenDatabase
<1>2. PICK to : to = [Down EXCEPT !.at = "read"]
  OBVIOUS
<1>3. to \in OpenerRecord /\ to.at = "read" /\ to.stage = 1 /\ opener' = [opener EXCEPT ![p] = to]
  BY <1>1, <1>2 DEF Down, OpenerRecord
<1>4. opener'[p] = to
  BY <1>3 DEF StoreInv, StoreTypes
<1>5. (\A k \in 1..10 : ~Past(p, k)') /\ ReadHolds(p)'
  BY <1>3, <1>4 DEF Past, AtWork, ReadHolds
<1> QED BY <1>1, <1>3, <1>5, OnlyItselfMoves

LEMMA ReadColumnsHolds ==
    ASSUME StoreInv, NEW p \in Opener, ReadColumns(p)
    PROVE  StoreInv'
<1> DEFINE payloads == {[id |-> s, edit |-> schedules[s].edit] :
                           s \in {x \in Schedule : schedules[x].retired}}
<1>1. PICK copy : copy = IF StageOf(p) # "tools" THEN {} ELSE payloads
  OBVIOUS
<1>2. /\ opener[p].at = "read" /\ UNCHANGED <<Table, Outside>>
      /\ opener' = [opener EXCEPT ![p].seen = cols, ![p].at = "do", ![p].copy = copy]
  BY <1>1 DEF ReadColumns
<1>3. payloads \subseteq CopyOf
  BY DEF CopyOf, StoreInv, StoreTypes
<1> HIDE DEF payloads
<1>4. copy \in SUBSET CopyOf
  BY <1>1, <1>3
<1>5. PICK seen \in SUBSET Column : seen = cols
  BY DEF StoreInv, StoreTypes
<1>6. opener \in [Opener -> OpenerRecord] /\ opener[p] \in OpenerRecord
  BY DEF StoreInv, StoreTypes
<1>7. PICK to : to = [opener[p] EXCEPT !.seen = seen, !.at = "do", !.copy = copy]
  OBVIOUS
<1>8. /\ to \in OpenerRecord /\ to.at = "do" /\ to.stage = opener[p].stage
      /\ to.seen = seen /\ to.copy = copy
  BY <1>4, <1>6, <1>7 DEF OpenerRecord
<1>9. opener' = [opener EXCEPT ![p] = to] /\ opener'[p] = to
  BY <1>2, <1>5, <1>6, <1>7
<1>10. \A k \in 1..10 : Past(p, k)' => Passed(k)
  <2>1. \A k \in 1..10 : Past(p, k)' => Past(p, k)
    BY <1>2, <1>8, <1>9 DEF Past, AtWork
  <2> QED BY <2>1 DEF StoreInv, OpenersHold
<1>11. ReadHolds(p)'
  <2>1. UNCHANGED <<cols, schedules>>
    BY <1>2 DEF Table
  <2>2. opener[p].stage = 7 => copy = payloads
    BY <1>1, StageNumbers
  <2> QED BY <1>5, <1>8, <1>9, <2>1, <2>2 DEF ReadHolds, payloads
<1>12. p \in allowed /\ p # port
  BY <1>2, WorkersAreAllowed
<1> QED BY <1>2, <1>8, <1>9, <1>10, <1>11, <1>12, OnlyItselfMoves

-----------------------------------------------------------------------------
(* The migrations.                                                         *)

\* Columns are added, and at most the retired one goes.
LEMMA ColumnsGrow ==
    ASSUME StoreInv, UNCHANGED <<checks, rows, schedules, counted>>, cols' \subseteq Column,
           cols \subseteq cols' \cup {RetiredColumn},
           RetiredColumn \in cols' => RetiredColumn \in cols
    PROVE  Forward
BY DEF Forward, StoreInv, StoreTypes, Passed

\* With the rows as they are, nothing depends on what is added.
LEMMA RowsStay ==
    ASSUME StoreInv, UNCHANGED <<rows, kept>>,
           "retry_of_run_id" \in cols' <=> "retry_of_run_id" \in cols,
           "prompt_submitted" \in cols => "prompt_submitted" \in cols'
    PROVE  RowsHold'
<1>1. /\ \A r \in RunRow : Dangles(rows', r) <=> Dangles(rows, r)
      /\ \A r \in RunRow : Classified(rows', r) = Classified(rows, r)
  OBVIOUS
<1> QED BY <1>1 DEF StoreInv, RowsHold

\* The links as they are, while no process leaves their UPDATE.
LEMMA LinksStay ==
    ASSUME StoreInv, NEW p \in Opener, opener[p].at # "update",
           \A q \in Opener \ {p} : opener'[q] = opener[q],
           "link" \in cols' => "link" \in cols, linked => linked', cut => cut'
    PROVE  LinksHold'
BY DEF StoreInv, LinksHold

LEMMA OthersStay ==
    ASSUME StoreInv, NEW p, NEW to, opener' = [opener EXCEPT ![p] = to]
    PROVE  \A q \in Opener \ {p} : opener'[q] = opener[q]
BY DEF StoreInv, StoreTypes

LEMMA MigrateSessionSummariesHolds ==
    ASSUME StoreInv, NEW p \in Opener, MigrateSessionSummaries(p)
    PROVE  StoreInv'
<1> DEFINE seen == opener[p].seen
           add  == ToSet(AddedBy("summaries")) \ seen
           drop == seen \cap {RetiredColumn}
<1>1. /\ opener[p].at = "do" /\ StageOf(p) = "summaries" /\ UNCHANGED Outside
      /\ \/ Throw(p) /\ UNCHANGED Table
         \/ /\ cols' = (cols \cup add) \ drop /\ NextStage(p)
            /\ UNCHANGED <<checks, rows, schedules, linked, counted>>
  BY Todo DEF MigrateSessionSummaries
<1>2. AtWork(p) /\ opener[p].at # "update"
  BY <1>1 DEF AtWork
<1>3. CASE Throw(p) /\ UNCHANGED Table
  BY <1>1, <1>2, <1>3, ThrowHolds DEF Table, Outside
<1>4. CASE /\ cols' = (cols \cup add) \ drop /\ NextStage(p)
           /\ UNCHANGED <<checks, rows, schedules, linked, counted>>
  <2>1. opener[p].stage = 1 /\ ToSet(AddedBy(Stages[1])) = ToSet(AddedBy("summaries"))
    BY <1>1, StageNumbers, StageNames
  <2>2. /\ seen \subseteq cols \cup {RetiredColumn}
        /\ RetiredColumn \in cols => RetiredColumn \in seen
    BY <1>1, <2>1 DEF StoreInv, ReadHolds
  <2>3. /\ RetiredColumn \notin add /\ add \subseteq CurrentColumns
        /\ "retry_of_run_id" \notin add /\ "link" \notin add
    BY <2>1, StageColumns
  <2>4. /\ cols' \subseteq Column /\ cols \subseteq cols' \cup {RetiredColumn}
        /\ RetiredColumn \notin cols'
        /\ ToSet(AddedBy("summaries")) \subseteq cols'
    <3>1. RetiredColumn \notin ToSet(AddedBy("summaries"))
      BY <2>1, StageColumns
    <3>2. cols \subseteq Column /\ CurrentColumns \subseteq Column
      BY DEF StoreInv, StoreTypes, Column
    <3> QED BY <1>4, <2>2, <2>3, <3>1, <3>2
  <2>5. Forward
    BY <1>4, <2>4, ColumnsGrow
  <2>6. Passed(1)'
    BY <2>1, <2>4 DEF Passed
  <2>7. RowsHold'
    <3>1. "retry_of_run_id" # RetiredColumn /\ "prompt_submitted" # RetiredColumn
      BY DEF RetiredColumn
    <3> HIDE DEF add
    <3> QED BY <1>1, <1>4, <2>3, <3>1, RowsStay DEF Outside
  <2>8. LinksHold'
    <3>1. \A q \in Opener \ {p} : opener'[q] = opener[q]
      BY <1>4, OthersStay DEF NextStage
    <3>2. "link" \in cols' => "link" \in cols
      BY <1>4, <2>3
    <3> QED BY <1>1, <1>2, <1>4, <3>1, <3>2, LinksStay DEF Outside
  <2> QED BY <1>1, <1>2, <1>4, <2>1, <2>5, <2>6, <2>7, <2>8, StageEnds
<1> QED BY <1>1, <1>3, <1>4

LEMMA AddColumnHolds ==
    ASSUME StoreInv, NEW p \in Opener, AddColumn(p)
    PROVE  StoreInv'
<1>1. /\ opener[p].at = "do" /\ StageOf(p) \in {"efforts", "prompt", "receipts", "snooze", "links"}
      /\ UNCHANGED <<checks, rows, schedules, linked, counted>> /\ UNCHANGED Outside
  BY DEF AddColumn
<1>2. PICK column \in ToSet(AddedBy(StageOf(p))) :
         \/ Throw(p) /\ UNCHANGED cols
         \/ /\ cols' = cols \cup {column}
            /\ opener' = IF StageOf(p) = "links" THEN [opener EXCEPT ![p].at = "update"]
                         ELSE [opener EXCEPT ![p].seen = @ \cup {column}]
  BY Todo DEF AddColumn
<1>3. PICK k \in {2, 5, 6, 8, 9} : k = opener[p].stage
  BY <1>1, StageNumbers
<1>4. /\ column \in CurrentColumns /\ column # "retry_of_run_id" /\ column # RetiredColumn
      /\ column = "link" => k = 9
      /\ k = 9 => column = "link"
  <2>1. StageOf(p) = Stages[k] /\ k \in 1..10
    BY <1>3, StageNumbers
  <2> QED BY <2>1, StageColumns, AddedColumns
<1>5. AtWork(p) /\ opener[p].at # "update" /\ opener \in [Opener -> OpenerRecord]
      /\ opener[p] \in OpenerRecord
  BY <1>1 DEF AtWork, StoreInv, StoreTypes
<1>6. CASE Throw(p) /\ UNCHANGED cols
  BY <1>1, <1>5, <1>6, ThrowHolds DEF Table
<1>7. CASE /\ cols' = cols \cup {column}
           /\ opener' = IF StageOf(p) = "links" THEN [opener EXCEPT ![p].at = "update"]
                        ELSE [opener EXCEPT ![p].seen = @ \cup {column}]
  <2>1. cols' \subseteq Column /\ column \in Column
    BY <1>4, <1>7 DEF StoreInv, StoreTypes, Column
  <2>2. Forward
    BY <1>1, <1>4, <1>7, <2>1, ColumnsGrow
  <2>3. PICK to : to = IF k = 9 THEN [opener[p] EXCEPT !.at = "update"]
                       ELSE [opener[p] EXCEPT !.seen = @ \cup {column}]
    OBVIOUS
  <2>4. /\ to \in OpenerRecord /\ to.stage = k
        /\ k = 9 => to.at = "update"
        /\ k # 9 => to.at = "do" /\ to.seen = opener[p].seen \cup {column}
    <3>1. CASE k = 9
      BY <1>3, <1>5, <2>3, <3>1 DEF OpenerRecord
    <3>2. CASE k # 9
      <4>1. PICK seen \in SUBSET Column : seen = opener[p].seen \cup {column}
        BY <1>5, <2>1 DEF OpenerRecord
      <4>2. to = [opener[p] EXCEPT !.seen = seen]
        BY <1>5, <2>3, <3>2, <4>1
      <4> QED BY <1>1, <1>3, <1>5, <3>2, <4>1, <4>2 DEF OpenerRecord
    <3> QED BY <3>1, <3>2
  <2>5. opener' = [opener EXCEPT ![p] = to] /\ opener'[p] = to
    <3>1. StageOf(p) = "links" <=> k = 9
      BY <1>3, StageNumbers
    <3> QED BY <1>5, <1>7, <2>3, <3>1
  <2>6. \A j \in 1..10 : Past(p, j)' => Passed(j)'
    <3>1. \A j \in 1..10 : Past(p, j)' => Past(p, j)
      BY <1>1, <1>3, <2>4, <2>5 DEF Past, AtWork
    <3>2. \A j \in 1..10 : Past(p, j) => Passed(j)
      BY DEF StoreInv, OpenersHold
    <3> QED BY <2>2, <3>1, <3>2, PassedStays
  <2>7. RowsHold'
    BY <1>1, <1>4, <1>7, RowsStay DEF Outside
  <2>8. LinksHold'
    <3>1. CASE k = 9
      BY <2>4, <2>5, <3>1 DEF LinksHold
    <3>2. CASE k # 9
      <4>1. "link" \in cols' => "link" \in cols
        BY <1>4, <1>7, <3>2
      <4>2. \A q \in Opener \ {p} : opener'[q] = opener[q]
        BY <2>5, OthersStay
      <4> QED BY <1>1, <1>5, <4>1, <4>2, LinksStay DEF Outside
    <3> QED BY <3>1, <3>2
  <2>9. ReadHolds(p)'
    <3>1. CASE k = 9
      BY <1>3, <1>4, <1>7, <2>4, <2>5, <3>1 DEF ReadHolds
    <3>2. CASE k # 9
      <4>1. opener[p].seen \subseteq cols \cup {RetiredColumn}
        BY <1>1 DEF StoreInv, ReadHolds
      <4>2. to.seen \subseteq cols' \cup {RetiredColumn}
        BY <1>7, <2>4, <3>2, <4>1
      <4>3. to.stage \notin {1, 3, 7} /\ to.at = "do"
        BY <1>3, <2>4, <3>2
      <4> QED BY <2>5, <4>2, <4>3 DEF ReadHolds
    <3> QED BY <3>1, <3>2
  <2>10. p \in allowed /\ p # port
    BY <1>1, WorkersAreAllowed
  <2> QED BY <1>1, <2>2, <2>4, <2>5, <2>6, <2>7, <2>8, <2>9, <2>10, TablesGoOn
<1> QED BY <1>2, <1>6, <1>7

LEMMA ColumnsAreThereHolds ==
    ASSUME StoreInv, NEW p \in Opener, ColumnsAreThere(p)
    PROVE  StoreInv'
<1>1. /\ opener[p].at = "do" /\ StageOf(p) \in {"efforts", "prompt", "receipts", "snooze", "links"}
      /\ TodoOf(StageOf(p), opener[p].seen) = {}
      /\ NextStage(p) /\ UNCHANGED <<Table, Outside>>
  BY DEF ColumnsAreThere
<1>2. PICK k \in {2, 5, 6, 8, 9} : k = opener[p].stage /\ StageOf(p) = Stages[k]
  BY <1>1, StageNumbers
<1>3. ToSet(AddedBy(Stages[k])) \subseteq opener[p].seen
  BY <1>1, <1>2, Todo
<1>4. opener[p].seen \subseteq cols \cup {RetiredColumn}
  BY <1>1 DEF StoreInv, ReadHolds
<1>5. RetiredColumn \notin ToSet(AddedBy(Stages[k]))
  BY <1>2, StageColumns
<1>6. Passed(k)
  BY <1>2, <1>3, <1>4, <1>5 DEF Passed
<1> QED BY <1>1, <1>2, <1>6, StageEndsIdly DEF AtWork

LEMMA UpdateLinksHolds ==
    ASSUME StoreInv, NEW p \in Opener, UpdateLinks(p)
    PROVE  StoreInv'
<1>1. /\ opener[p].at = "update" /\ linked' = TRUE /\ NextStage(p)
      /\ UNCHANGED <<cols, checks, rows, schedules, counted>> /\ UNCHANGED Outside
  BY DEF UpdateLinks
<1>2. opener[p].stage = 9 /\ "link" \in cols
  BY <1>1 DEF StoreInv, ReadHolds
<1>3. Forward
  BY <1>1, ColumnsGrow DEF StoreInv, StoreTypes
<1>4. Passed(9)'
  BY <1>1, <1>2, AddedColumns DEF Passed
<1>5. LinksHold'
  BY <1>1 DEF LinksHold
<1>6. RowsHold'
  BY <1>1, RowsStay DEF Outside
<1> QED BY <1>1, <1>2, <1>3, <1>4, <1>5, <1>6, StageEnds DEF AtWork

LEMMA ClassifyHolds ==
    ASSUME StoreInv, NEW p \in Opener, Classify(p)
    PROVE  StoreInv'
<1>1. /\ opener[p].at = "do" /\ opener[p].stage = 3 /\ UNCHANGED <<Table, Outside>>
      /\ p \in allowed /\ p # port
  BY StageNumbers, WorkersAreAllowed DEF Classify
<1>2. opener \in [Opener -> OpenerRecord] /\ opener[p] \in OpenerRecord
  BY DEF StoreInv, StoreTypes
<1>3. CASE "retry_of_run_id" \in opener[p].seen /\ NextStage(p)
  <2>1. "retry_of_run_id" \in cols
    BY <1>1, <1>3 DEF StoreInv, ReadHolds, RetiredColumn
  <2>2. Passed(3)
    BY <2>1 DEF Passed
  <2> QED BY <1>1, <1>3, <2>2, StageEndsIdly DEF AtWork
<1>4. CASE Throw(p)
  BY <1>1, <1>4, ThrowHolds DEF AtWork
<1>5. CASE /\ "retry_of_run_id" \notin opener[p].seen /\ ~Unclassifiable(rows)
           /\ opener' = [opener EXCEPT ![p].at = "rebuild"]
  <2>1. "retry_of_run_id" \notin cols
    BY <1>1, <1>5 DEF StoreInv, ReadHolds
  <2>2. PICK to : to = [opener[p] EXCEPT !.at = "rebuild"]
    OBVIOUS
  <2>3. /\ to \in OpenerRecord /\ to.at = "rebuild" /\ to.stage = 3
        /\ to.seen = opener[p].seen
    BY <1>1, <1>2, <2>2 DEF OpenerRecord
  <2>4. opener' = [opener EXCEPT ![p] = to] /\ opener'[p] = to
    BY <1>2, <1>5, <2>2
  <2>5. \A k \in 1..10 : Past(p, k)' => Passed(k)
    <3>1. \A k \in 1..10 : Past(p, k)' => Past(p, k)
      BY <1>1, <2>3, <2>4 DEF Past, AtWork
    <3> QED BY <3>1 DEF StoreInv, OpenersHold
  <2>6. ReadHolds(p)'
    <3>1. opener[p].seen \subseteq cols \cup {RetiredColumn}
      BY <1>1 DEF StoreInv, ReadHolds
    <3>2. cols' = cols /\ rows' = rows
      BY <1>1 DEF Table
    <3>3. ~Unclassifiable(rows')
      BY <1>5, <3>2
    <3> QED BY <2>1, <2>3, <2>4, <3>1, <3>2, <3>3 DEF ReadHolds
  <2> QED BY <1>1, <2>3, <2>4, <2>5, <2>6, OnlyItselfMoves
<1> QED BY <1>3, <1>4, <1>5 DEF Classify

\* A rebuilt table has the columns and the checks of the present one.
LEMMA TheTableIsRebuilt ==
    ASSUME StoreInv, NEW p \in Opener, opener[p].at = "rebuild",
           cols' = cols \cup RunColumns, checks' = "current",
           UNCHANGED <<schedules, linked, counted>>, UNCHANGED Outside, NextStage(p),
           rows' \in [RunRow -> RowRecord], \A r \in RunRow : rows'[r].status = rows[r].status,
           \A r \in RunRow : rows[r].status # "none" => rows'[r] = kept[r]
    PROVE  StoreInv'
<1>1. RunColumns \subseteq Column /\ RetiredColumn \notin RunColumns /\ "link" \notin RunColumns
  BY DEF Column, CurrentColumns, RunColumns, RetiredColumn
<1>2. "retry_of_run_id" \in cols' /\ "prompt_submitted" \in cols'
  BY DEF RunColumns
<1>3. Passed(10) => Passed(10)'
  BY DEF Passed
<1>4. Forward
  <2>1. cols' \subseteq Column /\ cols \subseteq cols' \cup {RetiredColumn}
    BY <1>1 DEF StoreInv, StoreTypes
  <2>2. RetiredColumn \in cols' => RetiredColumn \in cols
    BY <1>1
  <2>3. /\ schedules' \in [Schedule -> [retired : BOOLEAN, edit : {0, 1}]]
        /\ \A s \in Schedule : /\ schedules'[s].edit = schedules[s].edit
                               /\ schedules'[s].retired => schedules[s].retired
    BY DEF StoreInv, StoreTypes
  <2> QED BY <1>3, <2>1, <2>2, <2>3 DEF Forward
<1>5. RowsHold'
  BY <1>2 DEF RowsHold, Outside
<1>6. LinksHold'
  <2>1. \A q \in Opener \ {p} : opener'[q] = opener[q]
    BY OthersStay DEF NextStage
  <2>2. "link" \in cols' => "link" \in cols
    BY <1>1
  <2> QED BY <2>1, <2>2, LinksStay DEF Outside
<1>7. PICK n \in {3, 4} : n = opener[p].stage
  BY DEF StoreInv, ReadHolds
<1>8. Passed(n)'
  BY <1>2, <1>7 DEF Passed
<1> QED BY <1>4, <1>5, <1>6, <1>7, <1>8, StageEnds DEF AtWork

LEMMA RebuildRelationsHolds ==
    ASSUME StoreInv, NEW p \in Opener, RebuildRelations(p)
    PROVE  StoreInv'
<1>1. /\ opener[p].at = "rebuild" /\ rows' = [r \in RunRow |-> SplitRow(rows, r)]
      /\ cols' = cols \cup RunColumns /\ checks' = "current" /\ NextStage(p)
      /\ UNCHANGED <<schedules, linked, counted>> /\ UNCHANGED Outside
      /\ opener[p].stage = 3
  BY StageNumbers DEF RebuildRelations
<1>2. "retry_of_run_id" \notin cols /\ ~Unclassifiable(rows)
  BY <1>1 DEF StoreInv, ReadHolds
<1>3. ASSUME NEW r \in RunRow
      PROVE  /\ rows'[r] = kept[r] /\ rows'[r] \in RowRecord
             /\ rows'[r].status = rows[r].status
  <2>1. rows[r] \in RowRecord /\ kept[r] \in RowRecord /\ ~rows[r].submitted
    BY <1>2 DEF StoreInv, StoreTypes, RowsHold
  <2>2. kept[r] = Classified(rows, r)
    BY <1>2 DEF StoreInv, RowsHold, Unclassifiable
  <2>3. /\ kept[r].status = rows[r].status /\ kept[r].submitted = rows[r].submitted
    BY <2>1, <2>2 DEF Classified, RowRecord
  <2>4. rows'[r] = [kept[r] EXCEPT !.submitted = FALSE]
    BY <1>1, <2>2 DEF SplitRow
  <2>5. kept[r].submitted = FALSE
    BY <2>1, <2>3 DEF RowRecord
  <2>6. rows'[r] = kept[r]
    BY <2>1, <2>4, <2>5 DEF RowRecord
  <2> QED BY <2>1, <2>3, <2>6
<1>4. rows' \in [RunRow -> RowRecord]
  BY <1>1, <1>3
<1> QED BY <1>1, <1>3, <1>4, TheTableIsRebuilt

LEMMA InspectChecksHolds ==
    ASSUME StoreInv, NEW p \in Opener, InspectChecks(p)
    PROVE  StoreInv'
<1>1. /\ opener[p].at = "do" /\ opener[p].stage = 4 /\ UNCHANGED <<Table, Outside>>
      /\ p \in allowed /\ p # port
  BY StageNumbers, WorkersAreAllowed DEF InspectChecks
<1>2. opener \in [Opener -> OpenerRecord] /\ opener[p] \in OpenerRecord
  BY DEF StoreInv, StoreTypes
<1>3. CASE checks = "current" /\ NextStage(p)
  <2>1. Passed(4)
    BY <1>3 DEF Passed
  <2> QED BY <1>1, <1>3, <2>1, StageEndsIdly DEF AtWork
<1>4. CASE /\ checks # "current"
           /\ opener' = [opener EXCEPT ![p].at = "rebuild", ![p].seen = cols]
  <2>1. PICK seen \in SUBSET Column : seen = cols
    BY DEF StoreInv, StoreTypes
  <2>2. PICK to : to = [opener[p] EXCEPT !.at = "rebuild", !.seen = seen]
    OBVIOUS
  <2>3. to \in OpenerRecord /\ to.at = "rebuild" /\ to.stage = 4 /\ to.seen = seen
    BY <1>1, <1>2, <2>2 DEF OpenerRecord
  <2>4. opener' = [opener EXCEPT ![p] = to] /\ opener'[p] = to
    BY <1>2, <1>4, <2>1, <2>2
  <2>5. \A k \in 1..10 : Past(p, k)' => Passed(k)
    <3>1. \A k \in 1..10 : Past(p, k)' => Past(p, k)
      BY <1>1, <2>3, <2>4 DEF Past, AtWork
    <3> QED BY <3>1 DEF StoreInv, OpenersHold
  <2>6. ReadHolds(p)'
    <3>1. cols' = cols /\ checks' = checks
      BY <1>1 DEF Table
    <3> QED BY <1>4, <2>1, <2>3, <2>4, <3>1 DEF ReadHolds
  <2> QED BY <1>1, <2>3, <2>4, <2>5, <2>6, OnlyItselfMoves
<1> QED BY <1>3, <1>4 DEF InspectChecks

LEMMA RebuildChecksHolds ==
    ASSUME StoreInv, NEW p \in Opener, RebuildChecks(p)
    PROVE  StoreInv'
<1>1. /\ opener[p].at = "rebuild"
      /\ rows' = [r \in RunRow |-> Copied(rows[r], opener[p].seen)]
      /\ cols' = cols \cup RunColumns /\ checks' = "current" /\ NextStage(p)
      /\ UNCHANGED <<schedules, linked, counted>> /\ UNCHANGED Outside
      /\ opener[p].stage = 4
  BY StageNumbers DEF RebuildChecks
<1>2. "prompt_submitted" \in cols => "prompt_submitted" \in opener[p].seen
  BY <1>1 DEF StoreInv, ReadHolds
<1>3. "retry_of_run_id" \in cols
  <2>1. Past(p, 3)
    BY <1>1 DEF Past, AtWork
  <2>2. Passed(3)
    BY <2>1 DEF StoreInv, OpenersHold
  <2> QED BY <2>2 DEF Passed
<1>4. ASSUME NEW r \in RunRow PROVE rows'[r] = rows[r] /\ rows'[r] \in RowRecord
  <2>1. rows[r] \in RowRecord
    BY DEF StoreInv, StoreTypes
  <2>2. PICK row \in RowRecord : row = rows[r]
    BY <2>1
  <2>3. row.submitted => "prompt_submitted" \in opener[p].seen
    BY <1>2, <2>2 DEF StoreInv, RowsHold
  <2>4. PICK submitted \in BOOLEAN :
           submitted = (row.submitted /\ "prompt_submitted" \in opener[p].seen)
    OBVIOUS
  <2>5. submitted = row.submitted
    BY <2>3, <2>4 DEF RowRecord
  <2>6. rows'[r] = [row EXCEPT !.submitted = submitted]
    BY <1>1, <2>2, <2>4 DEF Copied
  <2> QED BY <2>2, <2>5, <2>6 DEF RowRecord
<1>5. rows' \in [RunRow -> RowRecord]
  BY <1>1, <1>4
<1>6. \A r \in RunRow : rows[r].status # "none" => rows[r] = kept[r]
  BY <1>3 DEF StoreInv, RowsHold
<1> QED BY <1>1, <1>4, <1>5, <1>6, TheTableIsRebuilt

LEMMA UpdateScheduleHolds ==
    ASSUME StoreInv, NEW p \in Opener, UpdateSchedule(p)
    PROVE  StoreInv'
<1> DEFINE payloads == {[id |-> s, edit |-> schedules[s].edit] :
                           s \in {x \in Schedule : schedules[x].retired}}
<1>1. /\ opener[p].at = "do" /\ opener[p].stage = 7 /\ UNCHANGED Outside
      /\ UNCHANGED <<cols, checks, rows, linked, counted>>
      /\ p \in allowed /\ p # port
  BY StageNumbers, WorkersAreAllowed DEF UpdateSchedule
<1>2. opener[p].copy = payloads
  BY <1>1 DEF StoreInv, ReadHolds
<1>3. PICK row \in payloads :
         /\ schedules' = [schedules EXCEPT ![row.id] = [retired |-> FALSE, edit |-> row.edit]]
         /\ opener' = [opener EXCEPT ![p].copy = @ \ {row}]
  BY <1>2 DEF UpdateSchedule
<1>4. PICK s \in Schedule :
         schedules[s].retired /\ row = [id |-> s, edit |-> schedules[s].edit]
  BY <1>3
<1>5. /\ schedules \in [Schedule -> [retired : BOOLEAN, edit : {0, 1}]]
      /\ opener \in [Opener -> OpenerRecord] /\ opener[p] \in OpenerRecord
  BY DEF StoreInv, StoreTypes
<1>6. PICK new \in [retired : BOOLEAN, edit : {0, 1}] :
         new = [retired |-> FALSE, edit |-> schedules[s].edit]
  BY <1>5
<1>7. /\ schedules' = [schedules EXCEPT ![s] = new]
      /\ ~new.retired /\ new.edit = schedules[s].edit
  BY <1>3, <1>4, <1>6
<1>8. Forward
  <2>1. /\ schedules' \in [Schedule -> [retired : BOOLEAN, edit : {0, 1}]]
        /\ \A x \in Schedule : /\ schedules'[x].edit = schedules[x].edit
                               /\ schedules'[x].retired => schedules[x].retired
    BY <1>5, <1>7
  <2>2. Passed(10) => Passed(10)'
    BY <1>1 DEF Passed
  <2> QED BY <1>1, <2>1, <2>2 DEF Forward, StoreInv, StoreTypes
<1>9. PICK rest \in SUBSET CopyOf : rest = payloads \ {row}
  <2>1. payloads \subseteq CopyOf
    BY <1>5 DEF CopyOf
  <2> QED BY <2>1
<1>10. rest = {[id |-> x, edit |-> schedules'[x].edit] :
                  x \in {y \in Schedule : schedules'[y].retired}}
  <2> DEFINE left == {y \in Schedule : schedules'[y].retired}
             had  == {x \in Schedule : schedules[x].retired}
  <2>1. left = had \ {s}
    BY <1>5, <1>7
  <2>2. \A x \in left : schedules'[x].edit = schedules[x].edit
    BY <1>5, <1>7
  <2>3. payloads = {[id |-> x, edit |-> schedules[x].edit] : x \in had}
    OBVIOUS
  <2> HIDE DEF left, had, payloads
  <2>4. ASSUME NEW c \in rest PROVE \E x \in left : c = [id |-> x, edit |-> schedules'[x].edit]
    <3>1. PICK x \in had : c = [id |-> x, edit |-> schedules[x].edit]
      BY <1>9, <2>3
    <3>2. x # s
      BY <1>4, <1>9, <3>1
    <3> QED BY <2>1, <2>2, <3>1, <3>2
  <2>5. ASSUME NEW x \in left PROVE [id |-> x, edit |-> schedules'[x].edit] \in rest
    <3>1. PICK c : c = [id |-> x, edit |-> schedules[x].edit]
      OBVIOUS
    <3>2. c \in payloads /\ c.id = x /\ x # s /\ row.id = s
      BY <1>4, <2>1, <2>3, <3>1
    <3> QED BY <1>9, <2>2, <3>1, <3>2
  <2>6. rest = {[id |-> x, edit |-> schedules'[x].edit] : x \in left}
    BY <2>4, <2>5
  <2> QED BY <2>6 DEF left
<1>11. PICK to : to = [opener[p] EXCEPT !.copy = rest]
  OBVIOUS
<1> HIDE DEF payloads
<1>12. /\ to \in OpenerRecord /\ to.at = "do" /\ to.stage = 7 /\ to.seen = opener[p].seen
       /\ to.copy = rest
  BY <1>1, <1>5, <1>11 DEF OpenerRecord
<1>13. opener' = [opener EXCEPT ![p] = to] /\ opener'[p] = to
  BY <1>2, <1>3, <1>5, <1>9, <1>11
<1>14. \A k \in 1..10 : Past(p, k)' => Passed(k)'
  <2>1. \A k \in 1..10 : Past(p, k)' => Past(p, k)
    BY <1>1, <1>12, <1>13 DEF Past, AtWork
  <2>2. \A k \in 1..10 : Past(p, k) => Passed(k)
    BY DEF StoreInv, OpenersHold
  <2> QED BY <1>8, <2>1, <2>2, PassedStays
<1>15. ReadHolds(p)'
  <2>1. to.seen \subseteq cols' \cup {RetiredColumn}
    BY <1>1, <1>12 DEF StoreInv, ReadHolds
  <2> QED BY <1>10, <1>12, <1>13, <2>1 DEF ReadHolds
<1>16. RowsHold'
  BY <1>1, RowsStay DEF Outside
<1>17. LinksHold'
  <2>1. \A q \in Opener \ {p} : opener'[q] = opener[q]
    BY <1>13, OthersStay
  <2> QED BY <1>1, <2>1, LinksStay DEF Outside
<1> QED BY <1>1, <1>8, <1>12, <1>13, <1>14, <1>15, <1>16, <1>17, TablesGoOn

LEMMA SchedulesAreCurrentHolds ==
    ASSUME StoreInv, NEW p \in Opener, SchedulesAreCurrent(p)
    PROVE  StoreInv'
<1>1. /\ opener[p].at = "do" /\ opener[p].stage = 7 /\ opener[p].copy = {}
      /\ NextStage(p) /\ UNCHANGED <<Table, Outside>>
  BY StageNumbers DEF SchedulesAreCurrent
<1>2. opener[p].copy = {[id |-> s, edit |-> schedules[s].edit] :
                           s \in {x \in Schedule : schedules[x].retired}}
  BY <1>1 DEF StoreInv, ReadHolds
<1>3. \A s \in Schedule : ~schedules[s].retired
  BY <1>1, <1>2
<1>4. Passed(7)
  BY <1>3 DEF Passed
<1> QED BY <1>1, <1>4, StageEndsIdly DEF AtWork

LEMMA CountLogsHolds ==
    ASSUME StoreInv, NEW p \in Opener, CountLogs(p)
    PROVE  StoreInv'
<1>1. /\ opener[p].at = "do" /\ opener[p].stage = 10 /\ NextStage(p)
      /\ counted' = {r \in RunRow : rows[r].status # "none"}
      /\ UNCHANGED <<cols, checks, rows, schedules, linked>> /\ UNCHANGED Outside
  BY StageNumbers DEF CountLogs
<1>2. Passed(10)'
  BY <1>1 DEF Passed
<1>3. Forward
  BY <1>1, <1>2 DEF Forward, StoreInv, StoreTypes
<1>4. RowsHold'
  BY <1>1, RowsStay DEF Outside
<1>5. LinksHold'
  <2>1. \A q \in Opener \ {p} : opener'[q] = opener[q]
    BY <1>1, OthersStay DEF NextStage
  <2> QED BY <1>1, <2>1, LinksStay DEF Outside
<1> QED BY <1>1, <1>2, <1>3, <1>4, <1>5, StageEnds DEF AtWork

-----------------------------------------------------------------------------
(* Around the migrations.                                                  *)

\* With the tables as they are, what holds of them stays.
LEMMA TablesStay ==
    ASSUME UNCHANGED Table, UNCHANGED kept
    PROVE  /\ \A k : Passed(k)' <=> Passed(k)
           /\ Modern' <=> Modern
           /\ RowsHold' <=> RowsHold
           /\ \A q \in Opener : opener'[q] = opener[q] => (ReadHolds(q)' <=> ReadHolds(q))
<1>1. UNCHANGED <<cols, checks, rows, schedules, linked, counted>>
  BY DEF Table
<1>2. \A k : Passed(k)' <=> Passed(k)
  BY <1>1 DEF Passed
<1>3. /\ \A r \in RunRow : Dangles(rows', r) <=> Dangles(rows, r)
      /\ \A r \in RunRow : Classified(rows', r) = Classified(rows, r)
      /\ Unclassifiable(rows') <=> Unclassifiable(rows)
  BY <1>1
<1>4. RowsHold' <=> RowsHold
  BY <1>1, <1>3 DEF RowsHold
<1>5. Modern' <=> Modern
  BY <1>2 DEF Modern
<1>6. \A q \in Opener : opener'[q] = opener[q] => (ReadHolds(q)' <=> ReadHolds(q))
  BY <1>1, <1>3 DEF ReadHolds
<1> QED BY <1>2, <1>4, <1>5, <1>6

LEMMA ClaimHolds ==
    ASSUME StoreInv, NEW p \in Opener, Claim(p)
    PROVE  StoreInv'
<1>1. /\ opener[p].at = "open" /\ p # port
      /\ UNCHANGED Table /\ UNCHANGED <<allowed, crashes, kept, edits, cut>>
  BY DEF Claim
<1>2. CASE port' = p /\ UNCHANGED opener
  <2>1. OpenersHold'
    <3>1. \A q \in Opener : \A k \in 1..10 : Past(q, k)' <=> Past(q, k)
      BY <1>2 DEF Past, AtWork
    <3>2. \A k \in 1..10 : Passed(k)' <=> Passed(k)
      BY <1>1, TablesStay
    <3> QED BY <1>1, <1>2, <3>1, <3>2, TablesStay DEF StoreInv, OpenersHold
  <2>2. RowsHold' /\ \A q \in Opener : ReadHolds(q)'
    BY <1>1, <1>2, TablesStay DEF StoreInv
  <2>3. StoreTypes'
    BY <1>1, <1>2 DEF StoreInv, StoreTypes, Table
  <2>4. LinksHold'
    BY <1>1, <1>2 DEF StoreInv, LinksHold, Table
  <2> QED BY <2>1, <2>2, <2>3, <2>4 DEF StoreInv
<1>3. CASE opener' = [opener EXCEPT ![p] = Down] /\ UNCHANGED port
  <2>1. PICK to : to = Down
    OBVIOUS
  <2>2. to \in OpenerRecord /\ to.at = "down" /\ opener' = [opener EXCEPT ![p] = to]
    BY <1>3, <2>1 DEF Down, OpenerRecord
  <2>3. opener'[p] = to
    BY <2>2 DEF StoreInv, StoreTypes
  <2>4. (\A k \in 1..10 : ~Past(p, k)') /\ ReadHolds(p)'
    BY <2>2, <2>3 DEF Past, AtWork, ReadHolds
  <2>5. p \in allowed
    BY <1>1 DEF StoreInv, OpenersHold
  <2> QED BY <1>1, <1>3, <2>2, <2>4, <2>5, OnlyItselfMoves DEF Outside
<1> QED BY <1>1, <1>2, <1>3 DEF Claim

LEMMA OpenerDiesHolds ==
    ASSUME StoreInv, NEW p \in Opener, OpenerDies(p)
    PROVE  StoreInv'
<1>1. /\ opener' = [opener EXCEPT ![p] = Down] /\ port' = IF port = p THEN NoRun ELSE port
      /\ cut' = (cut \/ opener[p].at = "update")
      /\ UNCHANGED Table /\ UNCHANGED <<allowed, kept, edits>>
  BY DEF OpenerDies
<1>2. PICK to : to = Down
  OBVIOUS
<1>3. to \in OpenerRecord /\ to.at = "down" /\ opener' = [opener EXCEPT ![p] = to]
  BY <1>1, <1>2 DEF Down, OpenerRecord
<1>4. /\ opener' \in [Opener -> OpenerRecord] /\ opener'[p] = to
      /\ \A q \in Opener \ {p} : opener'[q] = opener[q]
  BY <1>3 DEF StoreInv, StoreTypes
<1>5. NoRun \notin Opener
  BY StoreAssumption
<1>6. OpenersHold'
  <2>1. \A q \in Opener : \A k \in 1..10 : Past(q, k)' => Past(q, k)
    BY <1>3, <1>4 DEF Past, AtWork
  <2>2. \A k \in 1..10 : Passed(k)' <=> Passed(k)
    BY <1>1, TablesStay
  <2>3. \A q \in Opener : opener'[q].at # "down" => q \in allowed'
    BY <1>1, <1>3, <1>4 DEF StoreInv, OpenersHold
  <2>4. port' \in Opener => opener'[port'].at = "open"
    BY <1>1, <1>4, <1>5 DEF StoreInv, OpenersHold
  <2>5. (\A q, r \in allowed' : q = r) \/ Modern'
    BY <1>1, TablesStay DEF StoreInv, OpenersHold
  <2> QED BY <2>1, <2>2, <2>3, <2>4, <2>5 DEF StoreInv, OpenersHold
<1>7. RowsHold' /\ \A q \in Opener \ {p} : ReadHolds(q)'
  BY <1>1, <1>4, TablesStay DEF StoreInv
<1>8. ReadHolds(p)'
  BY <1>3, <1>4 DEF ReadHolds
<1>9. StoreTypes'
  BY <1>1, <1>4 DEF StoreInv, StoreTypes, Table
<1>10. LinksHold'
  BY <1>1, <1>4 DEF StoreInv, LinksHold, Table
<1> QED BY <1>6, <1>7, <1>8, <1>9, <1>10 DEF StoreInv

\* The process that has the port finished opening.
LEMMA ServedIsPassed ==
    ASSUME StoreInv, port \in Opener
    PROVE  \A k \in 1..10 : Passed(k)
BY DEF StoreInv, OpenersHold, Past

LEMMA StartRunHolds ==
    ASSUME StoreInv, NEW r \in RunRow, NEW of \in RunRow, StartRun(r, of)
    PROVE  StoreInv'
<1>1. PICK row : row = [status |-> "running", submitted |-> TRUE,
                        retry  |-> IF rows[of].status \in Failure THEN of ELSE NoRun,
                        resume |-> IF rows[of].status = "completed" THEN of ELSE NoRun]
  OBVIOUS
<1>2. /\ port \in Opener /\ rows[r].status = "none"
      /\ rows' = [rows EXCEPT ![r] = row] /\ kept' = [kept EXCEPT ![r] = row]
      /\ counted' = counted \cup {r}
      /\ UNCHANGED <<cols, checks, schedules, linked, opener, port, allowed, edits, cut>>
  BY <1>1 DEF StartRun
<1>3. row \in RowRecord
  <2>1. PICK retry \in RunRow \cup {NoRun, "unknown"} :
           retry = IF rows[of].status \in Failure THEN of ELSE NoRun
    OBVIOUS
  <2>2. PICK resume \in RunRow \cup {NoRun, "unknown"} :
           resume = IF rows[of].status = "completed" THEN of ELSE NoRun
    OBVIOUS
  <2>3. row = [status |-> "running", retry |-> retry, resume |-> resume, submitted |-> TRUE]
    BY <1>1, <2>1, <2>2
  <2> QED BY <2>3 DEF RowRecord
<1>4. \A k \in 1..10 : Passed(k)
  BY <1>2, ServedIsPassed
<1>5. "retry_of_run_id" \in cols /\ "prompt_submitted" \in cols
  BY <1>4, AddedColumns DEF Passed
<1>6. StoreTypes'
  BY <1>2, <1>3 DEF StoreInv, StoreTypes
<1>7. \A k \in 1..10 : Passed(k)'
  <2>1. Passed(10)'
    BY <1>2, <1>4 DEF Passed, StoreInv, StoreTypes
  <2>2. ASSUME NEW k \in 1..9 PROVE Passed(k)'
    BY <1>2, <1>4 DEF Passed
  <2> QED BY <2>1, <2>2
<1>8. OpenersHold'
  BY <1>2, <1>7 DEF StoreInv, OpenersHold, Modern
<1>9. LinksHold'
  BY <1>2 DEF StoreInv, LinksHold
<1>10. RowsHold'
  BY <1>2, <1>5 DEF StoreInv, StoreTypes, RowsHold
<1>11. \A q \in Opener : ReadHolds(q)'
  BY <1>2, <1>5 DEF StoreInv, ReadHolds
<1> QED BY <1>6, <1>8, <1>9, <1>10, <1>11 DEF StoreInv

LEMMA EditScheduleHolds ==
    ASSUME StoreInv, NEW s \in Schedule, EditSchedule(s)
    PROVE  StoreInv'
<1>1. /\ port \in Opener /\ schedules' = [schedules EXCEPT ![s].edit = 1]
      /\ edits' = [edits EXCEPT ![s] = 1]
      /\ UNCHANGED <<cols, checks, rows, linked, counted, opener, port, allowed, kept, cut>>
  BY DEF EditSchedule
<1>2. \A k \in 1..10 : Passed(k)
  BY <1>1, ServedIsPassed
<1>3. /\ schedules \in [Schedule -> [retired : BOOLEAN, edit : {0, 1}]]
      /\ edits \in [Schedule -> {0, 1}] /\ \A x \in Schedule : schedules[x].edit = edits[x]
      /\ \A x \in Schedule : ~schedules[x].retired
  BY <1>2 DEF StoreInv, StoreTypes, Passed
<1>4. PICK new : new = [schedules[s] EXCEPT !.edit = 1]
  OBVIOUS
<1>5. /\ new \in [retired : BOOLEAN, edit : {0, 1}] /\ ~new.retired /\ new.edit = 1
      /\ schedules' = [schedules EXCEPT ![s] = new]
  BY <1>1, <1>3, <1>4
<1>6. /\ schedules' \in [Schedule -> [retired : BOOLEAN, edit : {0, 1}]]
      /\ edits' \in [Schedule -> {0, 1}] /\ \A x \in Schedule : schedules'[x].edit = edits'[x]
      /\ \A x \in Schedule : ~schedules'[x].retired
  BY <1>1, <1>3, <1>5
<1>7. StoreTypes'
  BY <1>1, <1>6 DEF StoreInv, StoreTypes
<1>8. \A k \in 1..10 : Passed(k)'
  BY <1>1, <1>2, <1>6 DEF Passed
<1>9. OpenersHold'
  BY <1>1, <1>8 DEF StoreInv, OpenersHold, Modern
<1>10. LinksHold'
  BY <1>1 DEF StoreInv, LinksHold
<1>11. RowsHold'
  BY <1>1, RowsStay
<1>12. ASSUME NEW q \in Opener PROVE ReadHolds(q)'
  <2>1. {[id |-> x, edit |-> schedules[x].edit] :
            x \in {y \in Schedule : schedules[y].retired}} = {}
    BY <1>3
  <2>2. {[id |-> x, edit |-> schedules'[x].edit] :
            x \in {y \in Schedule : schedules'[y].retired}} = {}
    BY <1>6
  <2>3. ReadHolds(q) /\ (Unclassifiable(rows') <=> Unclassifiable(rows))
    BY <1>1 DEF StoreInv
  <2>4. opener'[q] = opener[q] /\ UNCHANGED <<cols, checks>>
    BY <1>1
  <2> QED BY <2>1, <2>2, <2>3, <2>4 DEF ReadHolds
<1> QED BY <1>7, <1>9, <1>10, <1>11, <1>12 DEF StoreInv

-----------------------------------------------------------------------------
(* An upgrade preserves what it finds.                                     *)

LEMMA StoreInvStays == StoreInv /\ [StoreNext]_storeVars => StoreInv'
<1> SUFFICES ASSUME StoreInv, [StoreNext]_storeVars PROVE StoreInv'
  OBVIOUS
<1>1. ASSUME NEW p \in Opener, OpenerStep(p) PROVE StoreInv'
  <2>1. CASE OpenDatabase(p)
    BY <2>1, OpenDatabaseHolds
  <2>2. CASE ReadColumns(p)
    BY <2>2, ReadColumnsHolds
  <2>3. CASE MigrateSessionSummaries(p)
    BY <2>3, MigrateSessionSummariesHolds
  <2>4. CASE AddColumn(p)
    BY <2>4, AddColumnHolds
  <2>5. CASE ColumnsAreThere(p)
    BY <2>5, ColumnsAreThereHolds
  <2>6. CASE UpdateLinks(p)
    BY <2>6, UpdateLinksHolds
  <2>7. CASE Classify(p)
    BY <2>7, ClassifyHolds
  <2>8. CASE RebuildRelations(p)
    BY <2>8, RebuildRelationsHolds
  <2>9. CASE InspectChecks(p)
    BY <2>9, InspectChecksHolds
  <2>10. CASE RebuildChecks(p)
    BY <2>10, RebuildChecksHolds
  <2>11. CASE UpdateSchedule(p)
    BY <2>11, UpdateScheduleHolds
  <2>12. CASE SchedulesAreCurrent(p)
    BY <2>12, SchedulesAreCurrentHolds
  <2>13. CASE CountLogs(p)
    BY <2>13, CountLogsHolds
  <2>14. CASE Claim(p)
    BY <2>14, ClaimHolds
  <2> QED BY <1>1, <2>1, <2>2, <2>3, <2>4, <2>5, <2>6, <2>7, <2>8, <2>9, <2>10, <2>11,
             <2>12, <2>13, <2>14 DEF OpenerStep
<1>2. ASSUME NEW p \in Opener, OpenerDies(p) PROVE StoreInv'
  BY <1>2, OpenerDiesHolds
<1>3. ASSUME NEW r \in RunRow, NEW of \in RunRow, StartRun(r, of) PROVE StoreInv'
  BY <1>3, StartRunHolds
<1>4. ASSUME NEW s \in Schedule, EditSchedule(s) PROVE StoreInv'
  BY <1>4, EditScheduleHolds
<1>5. CASE UNCHANGED storeVars
  <2>1. UNCHANGED Table /\ UNCHANGED <<opener, port, allowed, kept, edits, cut>>
    BY <1>5 DEF storeVars, Table
  <2>2. RowsHold' /\ \A q \in Opener : ReadHolds(q)'
    BY <2>1, TablesStay DEF StoreInv
  <2>3. OpenersHold'
    <3>1. \A q \in Opener : \A k \in 1..10 : Past(q, k)' <=> Past(q, k)
      BY <2>1 DEF Past, AtWork
    <3>2. \A k \in 1..10 : Passed(k)' <=> Passed(k)
      BY <2>1, TablesStay
    <3> QED BY <2>1, <3>1, <3>2, TablesStay DEF StoreInv, OpenersHold
  <2>4. StoreTypes'
    BY <2>1 DEF StoreInv, StoreTypes, Table
  <2>5. LinksHold'
    BY <2>1 DEF StoreInv, LinksHold, Table
  <2> QED BY <2>2, <2>3, <2>4, <2>5 DEF StoreInv
<1> QED BY <1>1, <1>2, <1>3, <1>4, <1>5 DEF StoreNext

LEMMA StoreInvPreserves == StoreInv => UpgradePreserves
<1> SUFFICES ASSUME StoreInv PROVE UpgradePreserves
  OBVIOUS
<1>1. RowsArePreserved
  <2>1. ASSUME NEW r \in RunRow, rows[r].status # "none", "retry_of_run_id" \notin cols
        PROVE  /\ rows[r].retry = NoRun
               /\ rows[r].resume = IF kept[r].retry # NoRun THEN kept[r].retry
                                   ELSE kept[r].resume
    <3>1. /\ rows[r].retry = NoRun /\ rows[r] \in RowRecord
          /\ kept[r] = IF Dangles(rows, r) THEN rows[r] ELSE Classified(rows, r)
      BY <2>1 DEF StoreInv, RowsHold, StoreTypes
    <3>2. CASE Dangles(rows, r)
      BY <3>1, <3>2
    <3>3. CASE ~Dangles(rows, r)
      <4>1. \/ rows[r].resume = NoRun
            \/ StatusOf(rows, rows[r].resume) \in Failure \cup {"completed"}
        BY <2>1, <3>3 DEF Dangles
      <4>2. PICK was : was = rows[r].resume
        OBVIOUS
      <4>3. /\ kept[r].retry = IF StatusOf(rows, was) \in Failure THEN was ELSE NoRun
            /\ kept[r].resume = IF StatusOf(rows, was) = "completed" THEN was ELSE NoRun
        BY <3>1, <3>3, <4>2 DEF Classified, RowRecord
      <4>4. "completed" \notin Failure
        BY DEF Failure
      <4>5. was = NoRun => StatusOf(rows, was) = "none"
        BY StoreAssumption DEF StatusOf
      <4> QED BY <3>1, <4>1, <4>2, <4>3, <4>4, <4>5
    <3> QED BY <3>2, <3>3
  <2>2. ASSUME NEW r \in RunRow, rows[r].status # "none", "retry_of_run_id" \in cols
        PROVE  rows[r] = kept[r]
    BY <2>2 DEF StoreInv, RowsHold
  <2> QED BY <2>1, <2>2 DEF RowsArePreserved
<1>2. OpenedIsCurrent
  <2> SUFFICES ASSUME NEW p \in Opener, opener[p].at = "open"
               PROVE  /\ CurrentColumns \subseteq cols /\ RetiredColumn \notin cols
                      /\ checks = "current"
                      /\ \A s \in Schedule : ~schedules[s].retired
                      /\ {r \in RunRow : rows[r].status # "none"} \subseteq counted
                      /\ linked \/ cut \/ \E q \in Opener : opener[q].at = "update"
    BY DEF OpenedIsCurrent
  <2>1. \A k \in 1..10 : Passed(k)
    BY DEF StoreInv, OpenersHold, Past
  <2>2. \A k \in 1..10 : ToSet(AddedBy(Stages[k])) \subseteq cols
    BY <2>1, StageColumns DEF Passed
  <2>3. "retry_of_run_id" \in cols
    BY <2>1 DEF Passed
  <2>4. CurrentColumns \subseteq cols
    BY <2>2, <2>3, ColumnsByStage
  <2>5. linked \/ cut \/ \E q \in Opener : opener[q].at = "update"
    BY <2>2, AddedColumns DEF StoreInv, LinksHold
  <2> QED BY <2>1, <2>4, <2>5 DEF Passed
<1>3. \A s \in Schedule : schedules[s].edit = edits[s]
  BY DEF StoreInv, StoreTypes
<1> QED BY <1>1, <1>2, <1>3 DEF UpgradePreserves

\* Whatever a database of an older program holds, opening it keeps every run's
\* relationships and values, serves only the present tables and undoes no edit,
\* if the one that must still be rebuilt is opened by one process at a time
\* (database.ts, the ThreadDb constructor).
THEOREM UpgradesPreserve ==
    ASSUME \A found \in OldStores : Upgradable(found)
    PROVE  StoreSpec => []UpgradePreserves
<1>1. StoreInit => StoreInv
  BY StoreInvInit
<1> QED BY <1>1, StoreInvStays, StoreInvPreserves, PTL DEF StoreSpec
=============================================================================
