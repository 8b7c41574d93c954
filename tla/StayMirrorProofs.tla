-------------------------- MODULE StayMirrorProofs --------------------------
(***************************************************************************)
(* Proofs about StayMirror: the types; that the events of an interface are *)
(* applied in the order they were received; and that the mirror ends and   *)
(* begins no episode that the guest did not.                               *)
(*                                                                         *)
(* The order alone is not inductive: a LIVE row is admitted at the end of  *)
(* the inbox as claimable, so at that moment nothing before it may still   *)
(* be staged.  That is the LIVE barrier: pmsd admits LIVE rows only when it*)
(* is synced and no window is open, and it is synced outside a window only *)
(* after a sweep was published, which made every staged row claimable      *)
(* (Good).  The rows read in one go are followed one by one (Reads).       *)
(***************************************************************************)
EXTENDS StayMirror, TLAPS, SequenceTheorems, FiniteSetTheorems, WellFoundedInduction

-----------------------------------------------------------------------------
(* The inductive invariant *)

InboxRow == [rec: Record, claimable: BOOLEAN]
Sinks == [synced: BOOLEAN, window: BOOLEAN, phase: {"READ", "PUBLISHED"},
          todo: SUBSET Rooms, occupied: SUBSET Rooms, vacant: SUBSET Rooms,
          roster: SUBSET Reservations, buf: Seq(Record)]
Stays == [status: {"NONE", "IN_HOUSE", "CHECKED_OUT"}, room: Rooms \cup {Away}, version: Nat]

\* No claimable row stands behind a staged one.
InOrder(box) == \A i, j \in DOMAIN box : i < j /\ box[j].claimable => box[i].claimable

\* Nothing is staged.
NoneStaged(box) == \A i \in DOMAIN box : box[i].claimable

\* What pmsd holds and what it has written go together: synced outside a window, nothing is staged.
Good(s, box) ==
    /\ s \in Sinks
    /\ box \in Seq(InboxRow)
    /\ Len(s.buf) < StageBatchSize
    /\ InOrder(box)
    /\ s.synced /\ ~s.window => NoneStaged(box)
    /\ s.phase = "PUBLISHED" => s.synced /\ ~s.window

HotelTypes ==
    /\ guest \in [Reservations -> Rooms \cup {Away}]
    /\ owed \in {<<>>} \cup {<<rec>> : rec \in Record}
    /\ ins \in [Reservations -> Nat] /\ \A r \in Reservations : ins[r] <= ops + 1
    /\ outs \in [Reservations -> Nat] /\ \A r \in Reservations : outs[r] <= ops
    /\ ops \in 0 .. MaxHappenings

OtherTypes ==
    /\ spoilt \in BOOLEAN
    /\ link \in {"UP", "DOWN"}
    /\ asked \in BOOLEAN
    /\ known \in SUBSET Rooms
    /\ drops \in 0 .. MaxDrops /\ garbled \in 0 .. MaxGarbled

\* A stay that began has a room.
Lodged == \A r \in Reservations : stay[r].status # "NONE" => stay[r].room \in Rooms

MirrorInv ==
    /\ Good(sink, inbox)
    /\ HotelTypes
    /\ OtherTypes
    /\ stay \in [Reservations -> Stays]
    /\ Lodged

-----------------------------------------------------------------------------
(* Rows *)

\* The bounds are numbers.
LEMMA Bounds ==
    /\ StageBatchSize \in Nat /\ StageBatchSize > 0
    /\ MaxHappenings \in Nat /\ MaxDrops \in Nat /\ MaxGarbled \in Nat
BY StayMirrorAssumption

\* The rows made of records are inbox rows, all claimable or all staged.
LEMMA RowsMade ==
    ASSUME NEW recs \in Seq(Record), NEW c \in BOOLEAN
    PROVE  /\ Rows(recs, c) \in Seq(InboxRow)
           /\ Len(Rows(recs, c)) = Len(recs)
           /\ \A i \in 1 .. Len(recs) : Rows(recs, c)[i].claimable = c /\ Rows(recs, c)[i].rec = recs[i]
<1>1. \A i \in 1 .. Len(recs) : Row(recs[i], c) \in InboxRow
  BY DEF Row, InboxRow
<1>2. \A i \in 1 .. Len(recs) : Row(recs[i], c).claimable = c /\ Row(recs[i], c).rec = recs[i]
  BY DEF Row
<1> QED
  BY <1>1, <1>2 DEF Rows

\* Staged rows may follow anything.
LEMMA StagedFollow ==
    ASSUME NEW box \in Seq(InboxRow), InOrder(box), NEW recs \in Seq(Record)
    PROVE  /\ box \o Rows(recs, FALSE) \in Seq(InboxRow)
           /\ InOrder(box \o Rows(recs, FALSE))
<1> DEFINE rows == Rows(recs, FALSE)
<1>1. /\ rows \in Seq(InboxRow)
      /\ Len(rows) = Len(recs)
      /\ \A i \in 1 .. Len(recs) : ~rows[i].claimable
  BY RowsMade
<1>2. \A i \in 1 .. Len(rows) : ~rows[i].claimable
  BY <1>1
<1> HIDE DEF rows
<1>3. /\ box \o rows \in Seq(InboxRow)
      /\ Len(box \o rows) = Len(box) + Len(rows)
      /\ \A i \in 1 .. Len(box) + Len(rows) :
            (box \o rows)[i] = IF i <= Len(box) THEN box[i] ELSE rows[i - Len(box)]
  BY <1>1, ConcatProperties
<1>4. InOrder(box \o rows)
  <2> SUFFICES ASSUME NEW i \in 1 .. Len(box) + Len(rows), NEW j \in 1 .. Len(box) + Len(rows),
                      i < j, (box \o rows)[j].claimable
               PROVE  (box \o rows)[i].claimable
    BY <1>3 DEF InOrder
  <2>1. Len(box) \in Nat /\ Len(rows) \in Nat
    BY <1>1
  <2>2. j <= Len(box)
    <3> SUFFICES ASSUME ~(j <= Len(box)) PROVE FALSE
      OBVIOUS
    <3>1. j - Len(box) \in 1 .. Len(rows)
      BY <2>1
    <3> QED
      BY <3>1, <1>2, <1>3
  <2> QED
    BY <2>1, <2>2, <1>3 DEF InOrder
<1> QED
  BY <1>3, <1>4 DEF rows

\* Claimable rows may follow where nothing is staged.
LEMMA ClaimableFollow ==
    ASSUME NEW box \in Seq(InboxRow), NoneStaged(box), NEW recs \in Seq(Record)
    PROVE  /\ box \o Rows(recs, TRUE) \in Seq(InboxRow)
           /\ NoneStaged(box \o Rows(recs, TRUE))
<1> DEFINE rows == Rows(recs, TRUE)
<1>1. /\ rows \in Seq(InboxRow)
      /\ Len(rows) = Len(recs)
      /\ \A i \in 1 .. Len(recs) : rows[i].claimable
  BY RowsMade
<1>2. \A i \in 1 .. Len(rows) : rows[i].claimable
  BY <1>1
<1> HIDE DEF rows
<1>3. /\ box \o rows \in Seq(InboxRow)
      /\ Len(box \o rows) = Len(box) + Len(rows)
      /\ \A i \in 1 .. Len(box) + Len(rows) :
            (box \o rows)[i] = IF i <= Len(box) THEN box[i] ELSE rows[i - Len(box)]
  BY <1>1, ConcatProperties
<1>4. NoneStaged(box \o rows)
  <2> SUFFICES ASSUME NEW i \in 1 .. Len(box) + Len(rows) PROVE (box \o rows)[i].claimable
    BY <1>3 DEF NoneStaged
  <2>1. Len(box) \in Nat /\ Len(rows) \in Nat
    BY <1>1
  <2>2. CASE i <= Len(box)
    BY <2>1, <2>2, <1>3 DEF NoneStaged
  <2>3. CASE ~(i <= Len(box))
    BY <2>1, <2>3, <1>2, <1>3
  <2> QED
    BY <2>2, <2>3
<1> QED
  BY <1>3, <1>4 DEF rows

\* A claimable row may follow where nothing is staged.
LEMMA LiveFollows ==
    ASSUME NEW box \in Seq(InboxRow), NoneStaged(box), NEW row \in InboxRow, row.claimable
    PROVE  /\ Append(box, row) \in Seq(InboxRow)
           /\ NoneStaged(Append(box, row))
<1>1. /\ Append(box, row) \in Seq(InboxRow)
      /\ Len(Append(box, row)) = Len(box) + 1
  OBVIOUS
<1>2. ASSUME NEW i \in 1 .. Len(box) + 1 PROVE Append(box, row)[i].claimable
  <2>1. CASE i <= Len(box)
    <3>1. Append(box, row)[i] = box[i] /\ i \in DOMAIN box
      BY <2>1
    <3> QED
      BY <3>1 DEF NoneStaged
  <2>2. CASE i = Len(box) + 1
    BY <2>2
  <2> QED
    BY <2>1, <2>2
<1> QED
  BY <1>1, <1>2 DEF NoneStaged

\* Where nothing is staged the order is kept.
LEMMA NoneStagedInOrder ==
    ASSUME NEW box, NoneStaged(box)
    PROVE  InOrder(box)
BY DEF NoneStaged, InOrder

-----------------------------------------------------------------------------
(* Reading records *)

\* The fields of pmsd's state that reading a record leaves alone.
SameGates(s, t) == t.synced = s.synced /\ t.window = s.window /\ t.phase = s.phase /\ t.todo = s.todo

\* Counting a room keeps the state good.
LEMMA ObserveGood ==
    ASSUME NEW s, NEW box, Good(s, box), NEW rec \in Record
    PROVE  Good(Observe(s, rec), box) /\ SameGates(s, Observe(s, rec))
<1>1. s \in Sinks /\ rec.room \in Rooms
  BY DEF Good, Record
<1>2. ASSUME NEW X \in SUBSET Rooms
      PROVE  /\ [s EXCEPT !.vacant = X] \in Sinks
             /\ SameGates(s, [s EXCEPT !.vacant = X])
             /\ [s EXCEPT !.vacant = X].buf = s.buf
  BY <1>1 DEF Sinks, SameGates
<1>3. ASSUME NEW X \in SUBSET Rooms
      PROVE  /\ [s EXCEPT !.occupied = X] \in Sinks
             /\ SameGates(s, [s EXCEPT !.occupied = X])
             /\ [s EXCEPT !.occupied = X].buf = s.buf
  BY <1>1 DEF Sinks, SameGates
<1>4. s.vacant \cup {rec.room} \in SUBSET Rooms /\ s.occupied \cup {rec.room} \in SUBSET Rooms
  BY <1>1 DEF Sinks
<1>5. /\ Observe(s, rec) \in Sinks
      /\ SameGates(s, Observe(s, rec))
      /\ Observe(s, rec).buf = s.buf
  <2>1. CASE s.window /\ IsVacancy(rec)
    BY <2>1, <1>2, <1>4 DEF Observe
  <2>2. CASE s.window /\ ~IsVacancy(rec)
    BY <2>2, <1>3, <1>4 DEF Observe
  <2>3. CASE ~s.window
    BY <2>3, <1>1 DEF Observe, SameGates
  <2> QED
    BY <2>1, <2>2, <2>3
<1> HIDE DEF Observe
<1> QED
  BY <1>5 DEF Good, SameGates

\* Listing a reservation keeps the state good.
LEMMA ListedGood ==
    ASSUME NEW s, NEW box, Good(s, box), NEW rec \in Record
    PROVE  Good(Listed(s, rec), box) /\ SameGates(s, Listed(s, rec)) /\ Listed(s, rec).buf = s.buf
<1>1. s \in Sinks
  BY DEF Good
<1>2. ASSUME NEW X \in SUBSET Reservations
      PROVE  /\ [s EXCEPT !.roster = X] \in Sinks
             /\ SameGates(s, [s EXCEPT !.roster = X])
             /\ [s EXCEPT !.roster = X].buf = s.buf
  BY <1>1 DEF Sinks, SameGates
<1>3. /\ Listed(s, rec) \in Sinks
      /\ SameGates(s, Listed(s, rec))
      /\ Listed(s, rec).buf = s.buf
  <2>1. CASE rec.type \in {"GI", "GC"} /\ rec.res # NoRes
    <3>1. s.roster \cup {rec.res} \in SUBSET Reservations
      BY <2>1, <1>1 DEF Sinks, Record
    <3> QED
      BY <2>1, <3>1, <1>2 DEF Listed
  <2>2. CASE ~(rec.type \in {"GI", "GC"} /\ rec.res # NoRes)
    BY <2>2, <1>1 DEF Listed, SameGates
  <2> QED
    BY <2>1, <2>2
<1> HIDE DEF Listed
<1> QED
  BY <1>3 DEF Good, SameGates

\* A full buffer is written, and what is kept is not full.
LEMMA FlushedKeeps ==
    ASSUME NEW buf \in Seq(Record), buf # <<>>
    PROVE  /\ Flushed(buf) \in Seq(Record)
           /\ (IF Flushed(buf) = <<>> THEN buf ELSE <<>>) \in Seq(Record)
           /\ Len(IF Flushed(buf) = <<>> THEN buf ELSE <<>>) < StageBatchSize
<1>1. CASE Len(buf) >= StageBatchSize
  BY <1>1, Bounds DEF Flushed
<1>2. CASE ~(Len(buf) >= StageBatchSize)
  BY <1>2, Bounds DEF Flushed
<1> QED
  BY <1>1, <1>2

\* The handler of a record keeps the state good: staged in a window, dropped at the barrier, admitted when synced.
LEMMA OnDomainEventGood ==
    ASSUME NEW s, NEW box, Good(s, box), NEW rec \in Record
    PROVE  /\ Good(OnDomainEvent(s, rec, box).sink, OnDomainEvent(s, rec, box).inbox)
           /\ SameGates(s, OnDomainEvent(s, rec, box).sink)
<1> DEFINE res == OnDomainEvent(s, rec, box)
<1>1. CASE s.window
  <2> DEFINE buf == Append(s.buf, rec)
             kept == IF Flushed(buf) = <<>> THEN buf ELSE <<>>
             l == Listed(s, rec)
             t == [l EXCEPT !.buf = kept]
             out == box \o Rows(Flushed(buf), FALSE)
  <2>1. res = [sink |-> t, inbox |-> out]
    BY <1>1 DEF OnDomainEvent
  <2>2. s.buf \in Seq(Record)
    BY DEF Good, Sinks
  <2>3. buf \in Seq(Record) /\ buf # <<>>
    BY <2>2
  <2>4. Flushed(buf) \in Seq(Record) /\ kept \in Seq(Record) /\ Len(kept) < StageBatchSize
    BY <2>3, FlushedKeeps
  <2>5. box \in Seq(InboxRow) /\ InOrder(box)
    BY DEF Good
  <2>6. box \o Rows(Flushed(buf), FALSE) \in Seq(InboxRow) /\ InOrder(box \o Rows(Flushed(buf), FALSE))
    BY <2>4, <2>5, StagedFollow
  <2>7. Good(l, box) /\ SameGates(s, l)
    BY ListedGood
  <2> HIDE DEF buf, kept, l
  <2>8. l \in Sinks
    BY <2>7 DEF Good
  <2>9. /\ [l EXCEPT !.buf = kept] \in Sinks
        /\ SameGates(l, [l EXCEPT !.buf = kept])
        /\ [l EXCEPT !.buf = kept].buf = kept
    BY <2>8, <2>4 DEF Sinks, SameGates
  <2> HIDE DEF t, out, res
  <2>10. res.sink = t /\ res.inbox = out
    BY <2>1
  <2>11. t.window /\ (t.phase = "PUBLISHED" => t.synced /\ ~t.window) /\ SameGates(s, t)
    BY <2>7, <2>9, <1>1 DEF SameGates, Good, t
  <2>12. Good(t, out)
    BY <2>4, <2>6, <2>9, <2>11 DEF Good, t, out
  <2> QED
    BY <2>10, <2>11, <2>12 DEF res
<1>2. CASE ~s.window /\ ~s.synced
  BY <1>2 DEF OnDomainEvent, SameGates
<1>3. CASE ~s.window /\ s.synced
  <2>1. box \in Seq(InboxRow) /\ NoneStaged(box)
    BY <1>3 DEF Good
  <2>2. PICK row : row = Row(rec, TRUE)
    OBVIOUS
  <2>3. row \in InboxRow /\ row.claimable
    BY <2>2 DEF Row, InboxRow
  <2>4. Append(box, row) \in Seq(InboxRow) /\ NoneStaged(Append(box, row))
    BY <2>1, <2>3, LiveFollows
  <2>5. InOrder(Append(box, row))
    BY <2>4, NoneStagedInOrder
  <2>6. res.sink = s /\ res.inbox = Append(box, row)
    BY <1>3, <2>2 DEF OnDomainEvent
  <2> HIDE DEF res
  <2>7. Good(s, Append(box, row))
    BY <2>4, <2>5 DEF Good
  <2>8. SameGates(s, s)
    BY DEF SameGates
  <2> QED
    BY <2>6, <2>7, <2>8 DEF res
<1> QED
  BY <1>1, <1>2, <1>3

\* Reading one record keeps the state good.
LEMMA ReadOneGood ==
    ASSUME NEW st, Good(st.sink, st.inbox), NEW rec \in Record
    PROVE  /\ Good(ReadOne(st, rec).sink, ReadOne(st, rec).inbox)
           /\ SameGates(st.sink, ReadOne(st, rec).sink)
<1> DEFINE s == Observe(st.sink, rec)
<1>1. Good(s, st.inbox) /\ SameGates(st.sink, s)
  BY ObserveGood
<1> HIDE DEF s
<1>2. CASE IsVacancy(rec)
  BY <1>1, <1>2 DEF ReadOne, s
<1>3. CASE ~IsVacancy(rec)
  <2>1. ReadOne(st, rec) = OnDomainEvent(s, rec, st.inbox)
    BY <1>3 DEF ReadOne, s
  <2>2. /\ Good(OnDomainEvent(s, rec, st.inbox).sink, OnDomainEvent(s, rec, st.inbox).inbox)
        /\ SameGates(s, OnDomainEvent(s, rec, st.inbox).sink)
    BY <1>1, OnDomainEventGood
  <2> QED
    BY <2>1, <2>2, <1>1 DEF SameGates
<1> QED
  BY <1>2, <1>3

-----------------------------------------------------------------------------
(* Reading several records *)

\* A set of numbers that has 0 and the successor of every member has every number.
LEMMA NatSetInduction ==
    ASSUME NEW S \in SUBSET Nat, 0 \in S, \A n \in S : n + 1 \in S
    PROVE  S = Nat
<1> DEFINE R == OpToRel(<, Nat)
           T == Nat \ S
<1> SUFFICES ASSUME T # {} PROVE FALSE
  OBVIOUS
<1>1. IsWellFoundedOn(R, Nat)
  BY NatLessThanWellFounded, Zenon
<1> HIDE DEF R
<1>2. PICK x \in T : \A y \in T : <<y, x>> \notin R
  BY <1>1, WFMin
<1>3. x - 1 \in T
  OBVIOUS
<1>4. <<x - 1, x>> \in R
  BY <1>3 DEF R, OpToRel
<1> QED
  BY <1>2, <1>3, <1>4

\* A set of numbers that is not empty has a least one.
LEMMA LeastNumber ==
    ASSUME NEW T \in SUBSET Nat, T # {}
    PROVE  \E x \in T : \A y \in T : x <= y
<1> DEFINE R == OpToRel(<, Nat)
<1>1. IsWellFoundedOn(R, Nat)
  BY NatLessThanWellFounded, Zenon
<1> HIDE DEF R
<1>2. PICK x \in T : \A y \in T : <<y, x>> \notin R
  BY <1>1, WFMin
<1>3. \A y \in T : ~(y < x)
  BY <1>2 DEF R, OpToRel
<1> QED
  BY <1>3

Before == [sink |-> sink, inbox |-> inbox]

\* f follows the state through the first k records.
Reads(f, recs, k) == f = [n \in 0 .. k |-> IF n = 0 THEN Before ELSE ReadOne(f[n - 1], recs[n])]

\* Following the state through the records is well defined.
LEMMA ReadsExists ==
    ASSUME NEW recs, Len(recs) \in Nat
    PROVE  \E f : Reads(f, recs, Len(recs))
<1> DEFINE S == {k \in Nat : \E f : Reads(f, recs, k)}
<1>1. 0 \in S
  <2> DEFINE f == [n \in 0 .. 0 |-> Before]
  <2>1. f = [n \in 0 .. 0 |-> IF n = 0 THEN Before ELSE ReadOne(f[n - 1], recs[n])]
    OBVIOUS
  <2> HIDE DEF f
  <2> QED
    BY <2>1 DEF Reads
<1>2. ASSUME NEW k \in S PROVE k + 1 \in S
  <2>1. PICK f : Reads(f, recs, k)
    OBVIOUS
  <2> DEFINE g == [n \in 0 .. k + 1 |-> IF n <= k THEN f[n] ELSE ReadOne(f[k], recs[k + 1])]
  <2>2. \A n \in 0 .. k : f[n] = IF n = 0 THEN Before ELSE ReadOne(f[n - 1], recs[n])
    BY <2>1 DEF Reads
  <2>3. \A n \in 0 .. k + 1 : g[n] = IF n = 0 THEN Before ELSE ReadOne(g[n - 1], recs[n])
    <3> SUFFICES ASSUME NEW n \in 0 .. k + 1
                 PROVE  g[n] = IF n = 0 THEN Before ELSE ReadOne(g[n - 1], recs[n])
      OBVIOUS
    <3>1. CASE n <= k
      <4>1. g[n] = f[n] /\ (n # 0 => g[n - 1] = f[n - 1])
        BY <3>1
      <4> HIDE DEF g
      <4> QED
        BY <2>2, <3>1, <4>1
    <3>2. CASE n = k + 1
      <4>1. g[n] = ReadOne(f[k], recs[k + 1]) /\ g[n - 1] = f[k]
        BY <3>2
      <4> HIDE DEF g
      <4> QED
        BY <3>2, <4>1
    <3> QED
      BY <3>1, <3>2
  <2>4. g = [n \in 0 .. k + 1 |-> g[n]]
    OBVIOUS
  <2> HIDE DEF g
  <2>5. Reads(g, recs, k + 1)
    BY <2>3, <2>4 DEF Reads
  <2> QED
    BY <2>5
<1> HIDE DEF S
<1>3. S = Nat
  <2>1. S \in SUBSET Nat
    BY DEF S
  <2> QED
    BY <1>1, <1>2, <2>1, NatSetInduction
<1> QED
  BY <1>3 DEF S

\* Every state a reading passes through is good.
LEMMA ReadsGood ==
    ASSUME Good(sink, inbox), NEW recs \in Seq(Record), NEW f, Reads(f, recs, Len(recs))
    PROVE  \A n \in 0 .. Len(recs) : Good(f[n].sink, f[n].inbox) /\ SameGates(sink, f[n].sink)
<1> DEFINE S == {k \in Nat : k <= Len(recs) => Good(f[k].sink, f[k].inbox) /\ SameGates(sink, f[k].sink)}
<1>1. 0 \in S
  <2>1. f[0] = Before
    BY DEF Reads
  <2>2. f[0].sink = sink /\ f[0].inbox = inbox
    BY <2>1 DEF Before
  <2> QED
    BY <2>2 DEF SameGates
<1>2. ASSUME NEW k \in S PROVE k + 1 \in S
  <2> SUFFICES ASSUME k + 1 <= Len(recs)
               PROVE  Good(f[k + 1].sink, f[k + 1].inbox) /\ SameGates(sink, f[k + 1].sink)
    OBVIOUS
  <2>1. f[k + 1] = ReadOne(f[k], recs[k + 1])
    BY DEF Reads
  <2>2. Good(f[k].sink, f[k].inbox) /\ SameGates(sink, f[k].sink)
    OBVIOUS
  <2>3. recs[k + 1] \in Record
    OBVIOUS
  <2>4. /\ Good(ReadOne(f[k], recs[k + 1]).sink, ReadOne(f[k], recs[k + 1]).inbox)
        /\ SameGates(f[k].sink, ReadOne(f[k], recs[k + 1]).sink)
    BY <2>2, <2>3, ReadOneGood
  <2> QED
    BY <2>1, <2>2, <2>4 DEF SameGates
<1> HIDE DEF S
<1>3. S = Nat
  <2>1. S \in SUBSET Nat
    BY DEF S
  <2> QED
    BY <1>1, <1>2, <2>1, NatSetInduction
<1> QED
  BY <1>3 DEF S

\* The states a reading passes through.
Passed(recs) ==
    CHOOSE f : f = [n \in 0 .. Len(recs) |-> IF n = 0 THEN [sink |-> sink, inbox |-> inbox]
                                             ELSE ReadOne(f[n - 1], recs[n])]

\* Reading records keeps the state good and leaves the gates alone.
LEMMA ReadAllGood ==
    ASSUME Good(sink, inbox), NEW recs \in Seq(Record)
    PROVE  Good(ReadAll(recs).sink, ReadAll(recs).inbox) /\ SameGates(sink, ReadAll(recs).sink)
<1>1. Len(recs) \in Nat
  OBVIOUS
<1>2. Reads(Passed(recs), recs, Len(recs))
  BY <1>1, ReadsExists DEF Reads, Passed, Before
<1>3. ReadAll(recs) = Passed(recs)[Len(recs)]
  BY DEF ReadAll, Passed
<1>4. Len(recs) \in 0 .. Len(recs)
  BY <1>1
<1> QED
  BY <1>2, <1>3, <1>4, ReadsGood

-----------------------------------------------------------------------------
(* The other sequences *)

\* A finite set in some order.
LEMMA OrderOfSet ==
    ASSUME NEW T, IsFiniteSet(T)
    PROVE  SetToSeq(T) \in Seq(T)
<1>1. Cardinality(T) \in Nat /\ ExistsBijection(1 .. Cardinality(T), T)
  BY FS_CardinalityType
<1>2. PICK f \in Bijection(1 .. Cardinality(T), T) : TRUE
  BY <1>1 DEF ExistsBijection
<1>3. f \in [1 .. Cardinality(T) -> T] /\ IsInjective(f)
  BY <1>2 DEF Bijection, Injection, IsInjective
<1>4. SetToSeq(T) \in [1 .. Cardinality(T) -> T]
  BY <1>3 DEF SetToSeq
<1> QED
  BY <1>1, <1>4

\* Taking one row out of the inbox.
LEMMA RowRemoved ==
    ASSUME NEW box \in Seq(InboxRow), NEW k \in 1 .. Len(box)
    PROVE  /\ RemoveAt(box, k) \in Seq(InboxRow)
           /\ InOrder(box) => InOrder(RemoveAt(box, k))
           /\ NoneStaged(box) => NoneStaged(RemoveAt(box, k))
<1> DEFINE a == SubSeq(box, 1, k - 1)
           b == SubSeq(box, k + 1, Len(box))
           out == RemoveAt(box, k)
           Was(i) == IF i < k THEN i ELSE i + 1
<1>1. k \in Nat /\ Len(box) \in Nat /\ k >= 1 /\ k <= Len(box)
  OBVIOUS
<1>2. a \in Seq(InboxRow) /\ Len(a) = k - 1 /\ \A i \in 1 .. k - 1 : a[i] = box[i]
  OBVIOUS
<1>3. b \in Seq(InboxRow) /\ Len(b) = Len(box) - k /\ \A i \in 1 .. Len(box) - k : b[i] = box[k + i]
  OBVIOUS
<1>4. out = a \o b
  BY DEF RemoveAt
<1> HIDE DEF a, b, out
<1>5. out \in Seq(InboxRow) /\ Len(out) = Len(box) - 1
  <2>1. a \o b \in Seq(InboxRow) /\ Len(a \o b) = Len(a) + Len(b)
    BY <1>2, <1>3, ConcatProperties
  <2>2. out \in Seq(InboxRow) /\ Len(out) = Len(a) + Len(b)
    BY <2>1, <1>4, Zenon
  <2>3. Len(a) = k - 1 /\ Len(b) = Len(box) - k
    BY <1>2, <1>3
  <2> QED
    BY <2>2, <2>3, <1>1
<1>6. ASSUME NEW i \in 1 .. Len(box) - 1 PROVE out[i] = box[Was(i)]
  <2>1. out[i] = IF i <= Len(a) THEN a[i] ELSE b[i - Len(a)]
    BY <1>1, <1>2, <1>3, <1>4, ConcatProperties
  <2> QED
    BY <2>1, <1>1, <1>2, <1>3
<1>7. \A i \in 1 .. Len(box) - 1 : Was(i) \in 1 .. Len(box)
  BY <1>1
<1>8. \A i, j \in 1 .. Len(box) - 1 : i < j => Was(i) < Was(j)
  BY <1>1
<1>9. DOMAIN out = 1 .. Len(box) - 1 /\ DOMAIN box = 1 .. Len(box)
  BY <1>5
<1> HIDE DEF Was
<1>10. InOrder(box) => InOrder(out)
  BY <1>6, <1>7, <1>8, <1>9 DEF InOrder
<1>11. NoneStaged(box) => NoneStaged(out)
  BY <1>6, <1>7, <1>9 DEF NoneStaged
<1> QED
  BY <1>5, <1>10, <1>11 DEF out

\* Publishing makes every row claimable and changes nothing else of it.
LEMMA Published ==
    ASSUME NEW box \in Seq(InboxRow)
    PROVE  /\ [i \in DOMAIN box |-> [box[i] EXCEPT !.claimable = TRUE]] \in Seq(InboxRow)
           /\ NoneStaged([i \in DOMAIN box |-> [box[i] EXCEPT !.claimable = TRUE]])
<1> DEFINE Pub(row) == [row EXCEPT !.claimable = TRUE]
           out == [i \in DOMAIN box |-> Pub(box[i])]
<1>1. ASSUME NEW row \in InboxRow PROVE Pub(row) \in InboxRow
  BY DEF InboxRow
<1>2. ASSUME NEW row \in InboxRow PROVE Pub(row).claimable
  BY DEF InboxRow
<1>3. \A i \in 1 .. Len(box) : box[i] \in InboxRow
  OBVIOUS
<1> HIDE DEF Pub
<1>4. out \in Seq(InboxRow)
  <2>1. out \in [1 .. Len(box) -> InboxRow]
    BY <1>1, <1>3
  <2> HIDE DEF out
  <2> QED
    BY <2>1
<1>5. NoneStaged(out)
  <2>1. \A i \in DOMAIN out : out[i] = Pub(box[i]) /\ box[i] \in InboxRow
    BY <1>3
  <2> HIDE DEF out
  <2> QED
    BY <1>2, <2>1 DEF NoneStaged
<1> QED
  BY <1>4, <1>5 DEF Pub

-----------------------------------------------------------------------------
(* The invariant is inductive *)

\* The records the hotel sends.
LEMMA RecordsMade ==
    ASSUME NEW r \in Reservations \cup {NoRes}, NEW room \in Rooms
    PROVE  GI(r, room) \in Record /\ GC(r, room) \in Record /\ GO(r, room) \in Record
BY DEF GI, GC, GO, Record

\* One record is a sequence of records.
LEMMA OneRecord ==
    ASSUME NEW rec \in Record
    PROVE  <<rec>> \in Seq(Record)
OBVIOUS

\* What the hotel sends keeps the state good.
LEMMA SendGood ==
    ASSUME Good(sink, inbox), NEW recs \in Seq(Record), Send(recs)
    PROVE  Good(sink', inbox')
<1>1. CASE link = "UP"
  BY <1>1, ReadAllGood DEF Send
<1>2. CASE link # "UP"
  BY <1>2 DEF Send
<1> QED
  BY <1>1, <1>2

\* An unreadable record keeps the state good: the barrier only goes up, and never while a roster is reconciled.
LEMMA FaultGood ==
    ASSUME Good(sink, inbox), link \in {"UP", "DOWN"}, asked \in BOOLEAN, OnContinuityFault
    PROVE  Good(sink', inbox') /\ asked' \in BOOLEAN
<1>1. CASE link = "UP"
  <2>1. sink \in Sinks
    BY DEF Good
  <2>2. sink.phase = "READ" /\ sink' = [sink EXCEPT !.synced = FALSE] /\ inbox' = inbox /\ asked' = TRUE
    BY <1>1 DEF OnContinuityFault
  <2>3. sink' \in Sinks /\ sink'.phase = "READ" /\ ~sink'.synced /\ sink'.buf = sink.buf
    BY <2>1, <2>2 DEF Sinks
  <2> QED
    BY <2>2, <2>3 DEF Good
<1>2. CASE link # "UP"
  BY <1>2 DEF OnContinuityFault
<1> QED
  BY <1>1, <1>2

\* The state Serve begins with.
LEMMA FreshFacts == FreshSink \in Sinks /\ ~FreshSink.synced /\ FreshSink.phase = "READ" /\ FreshSink.buf = <<>>
BY DEF FreshSink, Sinks

\* The state Serve begins with is good, whatever the inbox holds in order.
LEMMA FreshGood ==
    ASSUME NEW box \in Seq(InboxRow), InOrder(box)
    PROVE  Good(FreshSink, box)
BY FreshFacts, Bounds DEF Good

\* The first states satisfy the invariant.
LEMMA InitMirror == Init => MirrorInv
<1> SUFFICES ASSUME Init PROVE MirrorInv
  OBVIOUS
<1>1. Good(sink, inbox)
  <2>1. inbox = <<>> /\ sink = FreshSink
    BY DEF Init
  <2>2. inbox \in Seq(InboxRow) /\ InOrder(inbox)
    BY <2>1 DEF InOrder
  <2> QED
    BY <2>1, <2>2, FreshGood
<1>2. HotelTypes
  BY Bounds DEF Init, HotelTypes
<1>3. OtherTypes
  <2>1. spoilt \in BOOLEAN /\ asked \in BOOLEAN
    BY DEF Init
  <2> QED
    BY <2>1, Bounds DEF Init, OtherTypes
<1>4. stay \in [Reservations -> Stays] /\ Lodged
  BY DEF Init, Stays, Lodged
<1> QED
  BY <1>1, <1>2, <1>3, <1>4 DEF MirrorInv

\* A happening in the hotel that lets in at most one guest and out at most one.
LEMMA HappensTypes ==
    ASSUME HotelTypes, Happens, NEW r \in Reservations, NEW place \in Rooms \cup {Away},
           guest' = [guest EXCEPT ![r] = place],
           owed' \in {<<>>} \cup {<<rec>> : rec \in Record},
           ins' \in {ins, [ins EXCEPT ![r] = @ + 1]},
           outs' \in {outs, [outs EXCEPT ![r] = @ + 1]}
    PROVE  HotelTypes'
<1>1. guest' \in [Reservations -> Rooms \cup {Away}]
  BY DEF HotelTypes
<1>2. ops \in Nat /\ ops' = ops + 1 /\ ops' \in 0 .. MaxHappenings
  BY Bounds DEF HotelTypes, Happens
<1>3. ins' \in [Reservations -> Nat] /\ \A q \in Reservations : ins'[q] <= ops' + 1
  BY <1>2 DEF HotelTypes
<1>4. outs' \in [Reservations -> Nat] /\ \A q \in Reservations : outs'[q] <= ops'
  <2>1. outs \in [Reservations -> Nat] /\ \A q \in Reservations : outs[q] <= ops
    BY DEF HotelTypes
  <2>2. CASE outs' = outs
    BY <2>1, <2>2, <1>2
  <2>3. CASE outs' = [outs EXCEPT ![r] = @ + 1]
    BY <2>1, <2>3, <1>2
  <2> QED
    BY <2>2, <2>3
<1> QED
  BY <1>1, <1>2, <1>3, <1>4 DEF HotelTypes

\* Nothing of the hotel moves.
LEMMA HotelStill ==
    ASSUME HotelTypes, UNCHANGED <<guest, owed, ins, outs, ops>>
    PROVE  HotelTypes'
BY DEF HotelTypes

\* A check-in keeps the invariant.
LEMMA CheckInStep ==
    ASSUME MirrorInv, NEW r \in Reservations, NEW room \in Rooms, CheckIn(r, room)
    PROVE  MirrorInv'
<1>1. Good(sink', inbox')
  BY RecordsMade, OneRecord, SendGood DEF CheckIn, Announce, MirrorInv
<1>2. HotelTypes'
  <2>1. owed' \in {<<>>} \cup {<<rec>> : rec \in Record}
    BY DEF CheckIn, MirrorInv, HotelTypes
  <2> QED
    BY <2>1, HappensTypes DEF CheckIn, MirrorInv
<1>3. OtherTypes' /\ stay' \in [Reservations -> Stays] /\ Lodged'
  BY DEF CheckIn, Announce, Happens, MirrorInv, OtherTypes, Lodged
<1> QED
  BY <1>1, <1>2, <1>3 DEF MirrorInv

\* A check-out keeps the invariant.
LEMMA CheckOutStep ==
    ASSUME MirrorInv, NEW r \in Reservations, NEW named \in BOOLEAN, CheckOut(r, named)
    PROVE  MirrorInv'
<1>1. Good(sink', inbox')
  <2>1. guest[r] \in Rooms
    BY DEF CheckOut, MirrorInv, HotelTypes
  <2>2. PICK q : q = IF named THEN r ELSE NoRes
    OBVIOUS
  <2>3. q \in Reservations \cup {NoRes}
    BY <2>2
  <2>4. Send(<<GO(q, guest[r])>>)
    BY <2>2 DEF CheckOut
  <2> QED
    BY <2>1, <2>3, <2>4, RecordsMade, OneRecord, SendGood DEF MirrorInv
<1>2. HotelTypes'
  <2>1. owed' \in {<<>>} \cup {<<rec>> : rec \in Record}
    BY DEF CheckOut, MirrorInv, HotelTypes
  <2> QED
    BY <2>1, HappensTypes DEF CheckOut, MirrorInv
<1>3. spoilt' \in BOOLEAN
  BY DEF CheckOut
<1>4. OtherTypes' /\ stay' \in [Reservations -> Stays] /\ Lodged'
  BY <1>3 DEF CheckOut, Happens, MirrorInv, OtherTypes, Lodged
<1> QED
  BY <1>1, <1>2, <1>4 DEF MirrorInv

\* A move keeps the invariant, whichever records announce it.
LEMMA MoveStep ==
    ASSUME MirrorInv, NEW r \in Reservations, NEW room \in Rooms,
           NEW how \in {"CHANGE", "OUT_IN", "IN_OUT"}, Move(r, room, how)
    PROVE  MirrorInv'
<1>1. guest[r] \in Rooms
  BY DEF Move, MirrorInv, HotelTypes
<1>2. PICK recs \in Seq(Record) : Announce(recs)
  BY <1>1, RecordsMade, OneRecord DEF Move
<1>3. Good(sink', inbox')
  BY <1>2, SendGood DEF Announce, MirrorInv
<1>4. HotelTypes'
  <2>1. owed' \in {<<>>} \cup {<<rec>> : rec \in Record}
    BY <1>1, RecordsMade DEF Move
  <2> QED
    BY <2>1, HappensTypes DEF Move, MirrorInv
<1>5. OtherTypes' /\ stay' \in [Reservations -> Stays] /\ Lodged'
  <2>1. Happens
    BY DEF Move
  <2> QED
    BY <2>1, <1>2 DEF Announce, Happens, MirrorInv, OtherTypes, Lodged
<1> QED
  BY <1>3, <1>4, <1>5 DEF MirrorInv

\* The second record of a move keeps the invariant.
LEMMA SecondHalfStep ==
    ASSUME MirrorInv, SecondHalf
    PROVE  MirrorInv'
<1>1. PICK rec \in Record : owed = <<rec>>
  BY DEF SecondHalf, MirrorInv, HotelTypes
<1>2. Good(sink', inbox')
  BY <1>1, OneRecord, SendGood DEF SecondHalf, Announce, MirrorInv
<1>3. HotelTypes'
  BY DEF SecondHalf, MirrorInv, HotelTypes
<1>4. OtherTypes' /\ stay' \in [Reservations -> Stays] /\ Lodged'
  BY DEF SecondHalf, Announce, MirrorInv, OtherTypes, Lodged
<1> QED
  BY <1>2, <1>3, <1>4 DEF MirrorInv

\* An unreadable record keeps the invariant.
LEMMA GarbleStep ==
    ASSUME MirrorInv, NEW r \in Reservations, NEW room \in Rooms, Garble(r, room)
    PROVE  MirrorInv'
<1>1. Good(sink', inbox') /\ asked' \in BOOLEAN
  BY FaultGood DEF Garble, MirrorInv, OtherTypes
<1>2. HotelTypes'
  <2>1. owed' \in {<<>>} \cup {<<rec>> : rec \in Record}
    BY DEF Garble, MirrorInv, HotelTypes
  <2> QED
    BY <2>1, HappensTypes DEF Garble, MirrorInv
<1>3. spoilt' \in BOOLEAN
  BY DEF Garble
<1>4. garbled' \in 0 .. MaxGarbled
  BY Bounds DEF Garble, MirrorInv, OtherTypes
<1>5. OtherTypes' /\ stay' \in [Reservations -> Stays] /\ Lodged'
  BY <1>1, <1>3, <1>4 DEF Garble, Happens, MirrorInv, OtherTypes, Lodged
<1> QED
  BY <1>1, <1>2, <1>5 DEF MirrorInv

\* A link that comes up or goes down starts pmsd afresh and keeps the invariant.
LEMMA LinkStep ==
    ASSUME MirrorInv, Connect \/ Drop
    PROVE  MirrorInv'
<1>1. Good(sink', inbox')
  <2>1. sink' = FreshSink /\ inbox' = inbox
    BY DEF Connect, Drop, dbVars
  <2> QED
    BY <2>1, FreshGood DEF MirrorInv, Good
<1>2. HotelTypes'
  BY HotelStill DEF Connect, Drop, MirrorInv, hotelVars, counters
<1>3. asked' \in BOOLEAN
  BY DEF Connect, Drop
<1>4. drops' \in 0 .. MaxDrops /\ garbled' = garbled
  BY Bounds DEF Connect, Drop, counters, MirrorInv, OtherTypes
<1>5. OtherTypes' /\ stay' \in [Reservations -> Stays] /\ Lodged'
  BY <1>3, <1>4 DEF Connect, Drop, MirrorInv, OtherTypes, hotelVars, dbVars, Lodged
<1> QED
  BY <1>1, <1>2, <1>5 DEF MirrorInv

\* Asking for a sweep keeps the invariant.
LEMMA AskStep ==
    ASSUME MirrorInv, AskForSweep
    PROVE  MirrorInv'
<1>1. Good(sink', inbox') /\ stay' \in [Reservations -> Stays] /\ Lodged'
  BY DEF AskForSweep, MirrorInv, dbVars, Lodged
<1>2. HotelTypes'
  BY HotelStill DEF AskForSweep, MirrorInv, hotelVars, counters
<1>3. asked' \in BOOLEAN
  BY DEF AskForSweep
<1>4. OtherTypes'
  BY <1>3 DEF AskForSweep, MirrorInv, OtherTypes, hotelVars, dbVars, counters
<1> QED
  BY <1>1, <1>2, <1>4 DEF MirrorInv

\* DS keeps the invariant: the window is open, and nothing is asked of what is staged.
LEMMA StartStep ==
    ASSUME MirrorInv, OnResyncStart
    PROVE  MirrorInv'
<1>1. Good(sink', inbox')
  <2> DEFINE f == [FreshSink EXCEPT !.synced = sink.synced]
             g == [f EXCEPT !.window = TRUE]
  <2>1. sink.synced \in BOOLEAN /\ inbox \in Seq(InboxRow) /\ InOrder(inbox)
    BY DEF MirrorInv, Good, Sinks
  <2>2. f \in Sinks /\ f.phase = "READ" /\ f.buf = <<>>
    BY <2>1, FreshFacts DEF Sinks
  <2> HIDE DEF f
  <2>3. g \in Sinks /\ g.phase = "READ" /\ g.buf = <<>> /\ g.window
    BY <2>2 DEF Sinks
  <2>4. sink' = [g EXCEPT !.todo = Rooms] /\ inbox' = inbox
    BY DEF OnResyncStart, dbVars, f
  <2> HIDE DEF g
  <2>5. sink' \in Sinks /\ sink'.phase = "READ" /\ sink'.buf = <<>> /\ sink'.window
    BY <2>3, <2>4 DEF Sinks
  <2> QED
    BY <2>1, <2>4, <2>5, Bounds DEF Good
<1>2. HotelTypes'
  BY HotelStill DEF OnResyncStart, MirrorInv, counters
<1>3. OtherTypes' /\ stay' \in [Reservations -> Stays] /\ Lodged'
  BY DEF OnResyncStart, MirrorInv, OtherTypes, dbVars, counters, Lodged
<1> QED
  BY <1>1, <1>2, <1>3 DEF MirrorInv

\* The records a sweep sends of one room.
LEMMA SweepRecords ==
    ASSUME NEW here \in SUBSET Reservations, NEW room \in Rooms
    PROVE  (IF here = {} THEN <<GO(NoRes, room)>>
            ELSE LET order == SetToSeq(here) IN [i \in DOMAIN order |-> GI(order[i], room)]) \in Seq(Record)
<1>1. CASE here = {}
  BY <1>1, RecordsMade, OneRecord
<1>2. CASE here # {}
  <2>1. IsFiniteSet(here)
    BY StayMirrorAssumption, FS_Subset
  <2>2. PICK order \in Seq(here) : order = SetToSeq(here)
    BY <2>1, OrderOfSet
  <2>3. \A i \in 1 .. Len(order) : GI(order[i], room) \in Record
    BY RecordsMade
  <2>4. [i \in DOMAIN order |-> GI(order[i], room)] \in Seq(Record)
    BY <2>3
  <2> QED
    BY <1>2, <2>2, <2>4
<1> QED
  BY <1>1, <1>2

\* The sweep of one room keeps the invariant.
LEMMA SweepStep ==
    ASSUME MirrorInv, NEW room \in Rooms, SweepRoom(room)
    PROVE  MirrorInv'
<1>1. Good(sink', inbox')
  <2>1. PICK here \in SUBSET Reservations : here = {r \in Reservations : guest[r] = room}
    OBVIOUS
  <2>2. PICK recs : recs = IF here = {} THEN <<GO(NoRes, room)>>
                           ELSE LET order == SetToSeq(here) IN [i \in DOMAIN order |-> GI(order[i], room)]
    OBVIOUS
  <2>3. recs \in Seq(Record)
    BY <2>2, SweepRecords
  <2>4. /\ sink' = [ReadAll(recs).sink EXCEPT !.todo = @ \ {room}]
        /\ inbox' = ReadAll(recs).inbox
        /\ sink.window
    BY <2>1, <2>2 DEF SweepRoom
  <2>5. Good(ReadAll(recs).sink, ReadAll(recs).inbox) /\ SameGates(sink, ReadAll(recs).sink)
    BY <2>3, ReadAllGood DEF MirrorInv
  <2>6. PICK s : s = ReadAll(recs).sink
    OBVIOUS
  <2>7. s \in Sinks
    BY <2>5, <2>6 DEF Good
  <2>8. /\ [s EXCEPT !.todo = @ \ {room}] \in Sinks
        /\ [s EXCEPT !.todo = @ \ {room}].buf = s.buf
        /\ [s EXCEPT !.todo = @ \ {room}].synced = s.synced
        /\ [s EXCEPT !.todo = @ \ {room}].window = s.window
        /\ [s EXCEPT !.todo = @ \ {room}].phase = s.phase
    BY <2>7 DEF Sinks
  <2> QED
    BY <2>4, <2>5, <2>6, <2>8 DEF Good
<1>2. HotelTypes'
  BY HotelStill DEF SweepRoom, MirrorInv, hotelVars, counters
<1>3. OtherTypes' /\ stay' \in [Reservations -> Stays] /\ Lodged'
  BY DEF SweepRoom, MirrorInv, OtherTypes, hotelVars, counters, Lodged
<1> QED
  BY <1>1, <1>2, <1>3 DEF MirrorInv

\* DE keeps the invariant: nothing is staged any more, and only then is pmsd synced.
LEMMA CompleteStep ==
    ASSUME MirrorInv, OnResyncComplete
    PROVE  MirrorInv'
<1>1. Good(sink', inbox')
  <2>1. sink \in Sinks /\ inbox \in Seq(InboxRow) /\ InOrder(inbox) /\ sink.buf \in Seq(Record)
    BY DEF MirrorInv, Good, Sinks
  <2>2. PICK all : all = inbox \o Rows(sink.buf, FALSE)
    OBVIOUS
  <2>3. all \in Seq(InboxRow)
    BY <2>1, <2>2, StagedFollow
  <2>4. inbox' = [i \in DOMAIN all |-> [all[i] EXCEPT !.claimable = TRUE]]
    BY <2>2 DEF OnResyncComplete
  <2>5. inbox' \in Seq(InboxRow) /\ NoneStaged(inbox')
    BY <2>3, <2>4, Published
  <2>6. InOrder(inbox')
    BY <2>5, NoneStagedInOrder
  <2>0. PICK e \in Seq(Record) : e = <<>>
    BY EmptySeq
  <2> DEFINE f == [sink EXCEPT !.window = FALSE]
             g == [f EXCEPT !.synced = TRUE]
             h == [g EXCEPT !.buf = e]
  <2>7. f \in Sinks /\ ~f.window
    BY <2>1 DEF Sinks
  <2> HIDE DEF f
  <2>8. g \in Sinks /\ ~g.window /\ g.synced
    BY <2>7 DEF Sinks
  <2> HIDE DEF g
  <2>9. h \in Sinks /\ ~h.window /\ h.synced /\ h.buf = e
    BY <2>8 DEF Sinks
  <2>10. sink' = [h EXCEPT !.phase = "PUBLISHED"]
    BY <2>0 DEF OnResyncComplete, f, g
  <2> HIDE DEF h
  <2>11. sink' \in Sinks /\ ~sink'.window /\ sink'.synced /\ sink'.buf = e
    BY <2>9, <2>10 DEF Sinks
  <2> QED
    BY <2>0, <2>5, <2>6, <2>11, Bounds DEF Good
<1>2. HotelTypes'
  BY HotelStill DEF OnResyncComplete, MirrorInv, hotelVars, counters
<1>3. asked' \in BOOLEAN
  BY DEF OnResyncComplete
<1>4. OtherTypes' /\ stay' \in [Reservations -> Stays] /\ Lodged'
  BY <1>3 DEF OnResyncComplete, MirrorInv, OtherTypes, hotelVars, counters, Lodged
<1> QED
  BY <1>1, <1>2, <1>4 DEF MirrorInv

\* The check-outs a roster adds are records: only a stay in the hotel is closed, and it has a room.
LEMMA CheckoutRecords ==
    ASSUME MirrorInv
    PROVE  RosterCheckouts \in Seq(Record)
<1>1. PICK T : T = {r \in AbsentFromRoster : ~CheckoutWaits(r)}
  OBVIOUS
<1>2. T \in SUBSET Reservations /\ \A r \in T : stay[r].room \in Rooms
  BY <1>1 DEF AbsentFromRoster, MirrorInv, Lodged
<1>3. IsFiniteSet(T)
  BY <1>2, StayMirrorAssumption, FS_Subset
<1>4. PICK order \in Seq(T) : order = SetToSeq(T)
  BY <1>3, OrderOfSet
<1>5. \A i \in 1 .. Len(order) : GO(order[i], stay[order[i]].room) \in Record
  BY <1>2, RecordsMade
<1>6. [i \in DOMAIN order |-> GO(order[i], stay[order[i]].room)] \in Seq(Record)
  BY <1>5
<1> QED
  BY <1>1, <1>4, <1>6 DEF RosterCheckouts

\* The reconciliation of a roster keeps the invariant: it runs when nothing is staged.
LEMMA ReconcileStep ==
    ASSUME MirrorInv, Reconcile
    PROVE  MirrorInv'
<1>1. sink \in Sinks /\ inbox \in Seq(InboxRow) /\ NoneStaged(inbox)
  BY DEF Reconcile, MirrorInv, Good
<1>2. inbox' \in Seq(InboxRow) /\ NoneStaged(inbox')
  <2>1. CASE Completed
    <3>1. inbox' = inbox \o Rows(RosterCheckouts, TRUE)
      BY <2>1 DEF Reconcile
    <3> QED
      BY <3>1, <1>1, CheckoutRecords, ClaimableFollow
  <2>2. CASE ~Completed
    BY <2>2, <1>1 DEF Reconcile
  <2> QED
    BY <2>1, <2>2
<1>3. Good(sink', inbox')
  <2>1. sink' = [FreshSink EXCEPT !.synced = TRUE]
    BY DEF Reconcile
  <2>2. sink' \in Sinks /\ sink'.phase = "READ" /\ sink'.buf = <<>>
    BY <2>1, FreshFacts DEF Sinks
  <2>3. InOrder(inbox')
    BY <1>2, NoneStagedInOrder
  <2> QED
    BY <1>2, <2>2, <2>3, Bounds DEF Good
<1>4. HotelTypes'
  BY HotelStill DEF Reconcile, MirrorInv, hotelVars, counters
<1>5. known' \in SUBSET Rooms
  <2>1. Swept \in SUBSET Rooms
    BY <1>1 DEF Swept, Sinks
  <2>2. known \in SUBSET Rooms
    BY DEF MirrorInv, OtherTypes
  <2> QED
    BY <2>1, <2>2 DEF Reconcile, Building
<1>6. OtherTypes' /\ stay' \in [Reservations -> Stays] /\ Lodged'
  BY <1>5 DEF Reconcile, MirrorInv, OtherTypes, hotelVars, counters, Lodged
<1> QED
  BY <1>3, <1>4, <1>6 DEF MirrorInv

\* What an event makes of a stay is a stay, with a room if it began.
LEMMA ResolveTypes ==
    ASSUME NEW s \in Stays, s.status # "NONE" => s.room \in Rooms, NEW rec \in Record
    PROVE  /\ Resolve(s, rec) \in Stays
           /\ Resolve(s, rec).status # "NONE" => Resolve(s, rec).room \in Rooms
<1>1. rec.room \in Rooms /\ s.version \in Nat /\ s.room \in Rooms \cup {Away}
  BY DEF Record, Stays
<1>2. CASE rec.type = "GI" /\ s.status = "NONE"
  BY <1>1, <1>2 DEF Resolve, Stays
<1>3. CASE rec.type = "GI" /\ s.status = "CHECKED_OUT"
  <2>1. PICK room \in Rooms : room = IF MovedRoom(s, rec) THEN rec.room ELSE s.room
    BY <1>1, <1>3
  <2>2. Resolve(s, rec) = [status |-> "IN_HOUSE", version |-> s.version + 1, room |-> room]
    BY <1>3, <2>1 DEF Resolve
  <2> QED
    BY <1>1, <2>2 DEF Stays
<1>4. CASE rec.type \in {"GI", "GC"} /\ s.status = "IN_HOUSE"
  <2>1. Resolve(s, rec) = [s EXCEPT !.room = rec.room]
    BY <1>4 DEF Resolve
  <2> QED
    BY <1>1, <2>1 DEF Stays
<1>5. CASE rec.type = "GO" /\ s.status = "IN_HOUSE" /\ ~MovedRoom(s, rec)
  <2>1. Resolve(s, rec) = [s EXCEPT !.status = "CHECKED_OUT"]
    BY <1>5 DEF Resolve
  <2> QED
    BY <1>1, <1>5, <2>1 DEF Stays
<1>6. CASE /\ ~(rec.type = "GI" /\ s.status = "NONE")
           /\ ~(rec.type = "GI" /\ s.status = "CHECKED_OUT")
           /\ ~(rec.type \in {"GI", "GC"} /\ s.status = "IN_HOUSE")
           /\ ~(rec.type = "GO" /\ s.status = "IN_HOUSE" /\ ~MovedRoom(s, rec))
  BY <1>6 DEF Resolve
<1> QED
  BY <1>2, <1>3, <1>4, <1>5, <1>6

\* The oldest claimable row is one of the inbox.
LEMMA OldestThere ==
    ASSUME inbox \in Seq(InboxRow), Claimable # {}
    PROVE  /\ Oldest \in 1 .. Len(inbox)
           /\ inbox[Oldest].claimable
           /\ \A j \in Claimable : Oldest <= j
<1>1. Claimable \in SUBSET Nat
  BY DEF Claimable
<1>2. \E x \in Claimable : \A y \in Claimable : x <= y
  BY <1>1, LeastNumber
<1>3. Oldest \in Claimable /\ \A j \in Claimable : Oldest <= j
  BY <1>2 DEF Oldest
<1> QED
  BY <1>3 DEF Claimable

\* The stay engine keeps the invariant.
LEMMA ProcessStep ==
    ASSUME MirrorInv, ProcessNext
    PROVE  MirrorInv'
<1>1. sink \in Sinks /\ inbox \in Seq(InboxRow)
  BY DEF MirrorInv, Good
<1>2. PICK k \in 1 .. Len(inbox) : k = Oldest
  BY <1>1, OldestThere DEF ProcessNext
<1>3. inbox' = RemoveAt(inbox, k) /\ sink' = sink
  BY <1>2 DEF ProcessNext, feedVars
<1>4. Good(sink', inbox')
  BY <1>1, <1>3, RowRemoved DEF MirrorInv, Good
<1>5. HotelTypes'
  BY HotelStill DEF ProcessNext, MirrorInv, hotelVars, counters
<1>6. OtherTypes'
  BY DEF ProcessNext, MirrorInv, OtherTypes, hotelVars, feedVars, counters
<1>7. PICK rec \in Record : rec = inbox[Oldest].rec
  <2>1. inbox[k] \in InboxRow
    BY <1>1
  <2>2. inbox[k].rec \in Record
    BY <2>1 DEF InboxRow
  <2> QED
    BY <1>2, <2>2
<1>8. stay' = [r \in Reservations |-> IF r \in Named(rec) THEN Resolve(stay[r], rec) ELSE stay[r]]
  BY <1>7 DEF ProcessNext
<1>9. ASSUME NEW r \in Reservations
      PROVE  stay'[r] \in Stays /\ (stay'[r].status # "NONE" => stay'[r].room \in Rooms)
  <2>1. stay[r] \in Stays /\ (stay[r].status # "NONE" => stay[r].room \in Rooms)
    BY DEF MirrorInv, Lodged
  <2>2. stay'[r] \in {Resolve(stay[r], rec), stay[r]}
    BY <1>8
  <2> QED
    BY <2>1, <2>2, ResolveTypes
<1>10. stay' \in [Reservations -> Stays]
  <2>1. stay' = [r \in Reservations |-> stay'[r]]
    BY <1>8
  <2> QED
    BY <2>1, <1>9
<1>11. Lodged'
  BY <1>9 DEF Lodged
<1> QED
  BY <1>4, <1>5, <1>6, <1>10, <1>11 DEF MirrorInv

\* Every step keeps the invariant.
LEMMA NextMirror == MirrorInv /\ [Next]_vars => MirrorInv'
<1> SUFFICES ASSUME MirrorInv, [Next]_vars PROVE MirrorInv'
  OBVIOUS
<1>1. CASE UNCHANGED vars
  <2>1. UNCHANGED <<guest, owed, ins, outs, spoilt, link, asked, sink, inbox, known, stay, ops, drops, garbled>>
    BY <1>1 DEF vars, hotelVars, feedVars, dbVars, counters
  <2> QED
    BY <2>1 DEF MirrorInv, HotelTypes, OtherTypes, Lodged
<1>2. ASSUME NEW r \in Reservations, NEW room \in Rooms, CheckIn(r, room) PROVE MirrorInv'
  BY <1>2, CheckInStep
<1>3. ASSUME NEW r \in Reservations, NEW named \in BOOLEAN, CheckOut(r, named) PROVE MirrorInv'
  BY <1>3, CheckOutStep
<1>4. ASSUME NEW r \in Reservations, NEW room \in Rooms, NEW how \in {"CHANGE", "OUT_IN", "IN_OUT"},
             Move(r, room, how)
      PROVE  MirrorInv'
  BY <1>4, MoveStep
<1>5. ASSUME NEW r \in Reservations, NEW room \in Rooms, Garble(r, room) PROVE MirrorInv'
  BY <1>5, GarbleStep
<1>6. CASE SecondHalf
  BY <1>6, SecondHalfStep
<1>7. CASE Connect \/ Drop
  BY <1>7, LinkStep
<1>8. CASE AskForSweep
  BY <1>8, AskStep
<1>9. CASE OnResyncStart
  BY <1>9, StartStep
<1>10. ASSUME NEW room \in Rooms, SweepRoom(room) PROVE MirrorInv'
  BY <1>10, SweepStep
<1>11. CASE OnResyncComplete
  BY <1>11, CompleteStep
<1>12. CASE Reconcile
  BY <1>12, ReconcileStep
<1>13. CASE ProcessNext
  BY <1>13, ProcessStep
<1> QED
  BY <1>1, <1>2, <1>3, <1>4, <1>5, <1>6, <1>7, <1>8, <1>9, <1>10, <1>11, <1>12, <1>13 DEF Next, PmsdStep

\* The invariant that carries the mirror's safety holds always: pmsd is synced outside a window only while nothing
\* is staged, whatever is lost, unreadable, swept twice or abandoned.
THEOREM MirrorInvariance == Spec => []MirrorInv
<1>1. Init => MirrorInv
  BY InitMirror
<1>2. MirrorInv /\ [Next]_vars => MirrorInv'
  BY NextMirror
<1> QED
  BY <1>1, <1>2, PTL DEF Spec

-----------------------------------------------------------------------------
(* What follows from it *)

\* Types; a sweep never holds StageBatchSize rows back (OnDomainEvent's flush).
THEOREM MirrorTypes == Spec => []TypeOK
<1>1. MirrorInv => TypeOK
  <2> SUFFICES ASSUME MirrorInv PROVE TypeOK
    OBVIOUS
  <2>1. sink \in Sinks /\ inbox \in Seq(InboxRow) /\ Len(sink.buf) < StageBatchSize
    BY DEF MirrorInv, Good
  <2>2. sink.synced \in BOOLEAN /\ sink.window \in BOOLEAN
    BY <2>1 DEF Sinks
  <2>3. sink.phase \in {"READ", "PUBLISHED"}
    BY <2>1 DEF Sinks
  <2>4. sink.todo \subseteq Rooms /\ Swept \subseteq Rooms /\ sink.roster \subseteq Reservations
    BY <2>1 DEF Sinks, Swept
  <2>5. \A i \in DOMAIN inbox : inbox[i].rec \in Record /\ inbox[i].claimable \in BOOLEAN
    <3>1. \A row \in InboxRow : row.rec \in Record /\ row.claimable \in BOOLEAN
      BY DEF InboxRow
    <3>2. \A i \in DOMAIN inbox : inbox[i] \in InboxRow
      BY <2>1
    <3> QED
      BY <3>1, <3>2
  <2>6. ins \in [Reservations -> 0 .. MaxHappenings + 1] /\ outs \in [Reservations -> 0 .. MaxHappenings]
    <3>1. /\ ins \in [Reservations -> Nat] /\ outs \in [Reservations -> Nat] /\ ops \in 0 .. MaxHappenings
          /\ \A r \in Reservations : ins[r] <= ops + 1 /\ outs[r] <= ops
      BY DEF MirrorInv, HotelTypes
    <3>2. \A r \in Reservations : ins[r] \in 0 .. MaxHappenings + 1 /\ outs[r] \in 0 .. MaxHappenings
      BY <3>1, Bounds
    <3> QED
      BY <3>1, <3>2
  <2>7. spoilt \in BOOLEAN /\ asked \in BOOLEAN
    BY DEF MirrorInv, OtherTypes
  <2>8. /\ guest \in [Reservations -> Rooms \cup {Away}] /\ owed \in {<<>>} \cup {<<rec>> : rec \in Record}
        /\ ops \in 0 .. MaxHappenings
    BY DEF MirrorInv, HotelTypes
  <2>9. /\ link \in {"UP", "DOWN"} /\ known \subseteq Rooms
        /\ drops \in 0 .. MaxDrops /\ garbled \in 0 .. MaxGarbled
    BY DEF MirrorInv, OtherTypes
  <2>10. stay \in [Reservations -> [status : {"NONE", "IN_HOUSE", "CHECKED_OUT"},
                                    room : Rooms \cup {Away}, version : Nat]]
    BY DEF MirrorInv, Stays
  <2> QED
    BY <2>1, <2>2, <2>3, <2>4, <2>5, <2>6, <2>7, <2>8, <2>9, <2>10 DEF TypeOK
<1> QED
  BY <1>1, MirrorInvariance, PTL

\* Events of one interface are applied in the order they were received, however many sweeps were abandoned: no row
\* the engine may claim stands behind one that is still staged (the LIVE barrier and PublishGeneration together).
THEOREM EventsInOrder == Spec => []AppliedInOrder
<1>1. MirrorInv => AppliedInOrder
  BY DEF MirrorInv, Good, InOrder, AppliedInOrder
<1> QED
  BY <1>1, MirrorInvariance, PTL

-----------------------------------------------------------------------------
(* Episodes.  What the mirror will be when the rows that wait are applied  *)
(* can be said now, row by row: none of those mirrors, the present one     *)
(* included, has more departures or arrivals of a guest than there were.   *)
(* A row that closes an episode its guest has not left would break that;   *)
(* there is none, because where pmsd is synced the last of these mirrors   *)
(* has every such guest in the room he is in, and because the roster of a  *)
(* sweep has every such guest.                                             *)

\* The stays that record rec names when the mirror is st, and the mirror that it leaves.
NamedIn(st, rec) ==
    IF rec.res # NoRes THEN {rec.res}
    ELSE LET there == {r \in Reservations : st[r].status = "IN_HOUSE" /\ st[r].room = rec.room}
         IN  IF Cardinality(there) = 1 THEN there ELSE {}

After(st, rec) == [r \in Reservations |-> IF r \in NamedIn(st, rec) THEN Resolve(st[r], rec) ELSE st[r]]

\* The records that wait, in the order they will be applied: the inbox, then pmsd's buffer.
Recs(box) == [i \in DOMAIN box |-> box[i].rec]
Waiting(s, box) == Recs(box) \o s.buf

\* f has the mirrors from st on, one for each record that waits, every stay of reservation r in ok[r].
Foretells(f, st, recs, ok) ==
    /\ f[0] = st
    /\ \A k \in 1 .. Len(recs) : f[k] = After(f[k - 1], recs[k])
    /\ \A k \in 0 .. Len(recs) : f[k] \in [Reservations -> Stays] /\ \A r \in Reservations : f[k][r] \in ok[r]

\* The mirror comes from st through recs to last.
Foreseen(st, recs, ok, last) == \E f : Foretells(f, st, recs, ok) /\ f[Len(recs)] = last

\* The mirror has an episode open that the guest, who left out times, has not left.
Owns(x, out) == x.status = "IN_HOUSE" /\ x.version > out

\* No more arrivals and departures than there were.
Fits(x, in, out) == x.version <= in /\ (IF x.status = "IN_HOUSE" THEN x.version - 1 ELSE x.version) <= out

\* A departure from the old room is still owed for a guest who moved.
OwesOut(w, r) == w # <<>> /\ w[1].type = "GO" /\ w[1].res = r

\* The stays a reservation may have in the mirror, now or later; an owed departure closes none that its guest has not left.
Allowed(in, out, w) ==
    [r \in Reservations |-> {x \in Stays : /\ Fits(x, in[r], out[r])
                                           /\ OwesOut(w, r) /\ Owns(x, out[r]) => x.room # w[1].room}]

\* What the last mirror must have right of a guest it holds for present: his room where pmsd is synced and outside a
\* window; that the roster lists him once it is published; and both within a window, unless his room is yet to be swept.
RightOf(x, r, s, place, out) ==
    Owns(x, out[r]) =>
        /\ s.synced /\ ~s.window => x.room = place[r]
        /\ s.phase = "PUBLISHED" => r \in s.roster
        /\ s.window => place[r] \in s.todo \/ (r \in s.roster /\ x.room = place[r])

Right(last, s, place, out) == \A r \in Reservations : RightOf(last[r], r, s, place, out)

\* A guest is in the hotel when he came once more than he left.
HotelCounts == \A r \in Reservations : ins[r] = outs[r] + IF guest[r] = Away THEN 0 ELSE 1

\* The second record of a move says where the guest is now, or where he is not.
OwedIsTrue ==
    owed # <<>> =>
        /\ owed[1].res \in Reservations /\ guest[owed[1].res] # Away
        /\ \/ owed[1].type = "GI" /\ owed[1].room = guest[owed[1].res]
           \/ owed[1].type = "GO" /\ owed[1].room # guest[owed[1].res]

\* A window is open only in a sweep that was asked for, on a link; rows are buffered only in a window.
SinkShape ==
    /\ sink.window => asked /\ link = "UP"
    /\ ~sink.window => sink.buf = <<>>
    /\ link = "DOWN" => ~sink.synced /\ sink.phase = "READ"

OkStays == Allowed(ins, outs, owed)

Follows(s, box) == \E last : Foreseen(stay, Waiting(s, box), OkStays, last) /\ Right(last, s, guest, outs)

EpisodeInv ==
    /\ HotelCounts /\ OwedIsTrue /\ SinkShape
    /\ ~spoilt => Follows(sink, inbox)

-----------------------------------------------------------------------------
(* Mirrors that are foreseen *)

\* What a record makes of a mirror is a mirror.
LEMMA AfterTypes ==
    ASSUME NEW st \in [Reservations -> Stays], NEW rec \in Record
    PROVE  /\ After(st, rec) \in [Reservations -> Stays]
           /\ \A r \in Reservations : After(st, rec)[r] = IF r \in NamedIn(st, rec) THEN Resolve(st[r], rec) ELSE st[r]
<1>1. ASSUME NEW s \in Stays PROVE Resolve(s, rec) \in Stays
  <2>1. rec.room \in Rooms /\ s.version \in Nat /\ s.room \in Rooms \cup {Away}
    BY DEF Record, Stays
  <2>2. CASE rec.type = "GI" /\ s.status = "NONE"
    BY <2>1, <2>2 DEF Resolve, Stays
  <2>3. CASE rec.type = "GI" /\ s.status = "CHECKED_OUT"
    <3>1. PICK room \in Rooms \cup {Away} : room = IF MovedRoom(s, rec) THEN rec.room ELSE s.room
      BY <2>1
    <3>2. Resolve(s, rec) = [status |-> "IN_HOUSE", version |-> s.version + 1, room |-> room]
      BY <2>3, <3>1 DEF Resolve
    <3> QED
      BY <2>1, <3>2 DEF Stays
  <2>4. CASE rec.type \in {"GI", "GC"} /\ s.status = "IN_HOUSE"
    <3>1. Resolve(s, rec) = [s EXCEPT !.room = rec.room]
      BY <2>4 DEF Resolve
    <3> QED
      BY <2>1, <3>1 DEF Stays
  <2>5. CASE rec.type = "GO" /\ s.status = "IN_HOUSE" /\ ~MovedRoom(s, rec)
    <3>1. Resolve(s, rec) = [s EXCEPT !.status = "CHECKED_OUT"]
      BY <2>5 DEF Resolve
    <3> QED
      BY <2>1, <3>1 DEF Stays
  <2>6. CASE /\ ~(rec.type = "GI" /\ s.status = "NONE")
             /\ ~(rec.type = "GI" /\ s.status = "CHECKED_OUT")
             /\ ~(rec.type \in {"GI", "GC"} /\ s.status = "IN_HOUSE")
             /\ ~(rec.type = "GO" /\ s.status = "IN_HOUSE" /\ ~MovedRoom(s, rec))
    BY <2>6 DEF Resolve
  <2> QED
    BY <2>2, <2>3, <2>4, <2>5, <2>6
<1>2. \A r \in Reservations : (IF r \in NamedIn(st, rec) THEN Resolve(st[r], rec) ELSE st[r]) \in Stays
  BY <1>1
<1> QED
  BY <1>2 DEF After

\* One record more waits.
LEMMA ForeseenNext ==
    ASSUME NEW st, NEW recs \in Seq(Record), NEW ok, NEW last, Foreseen(st, recs, ok, last), NEW rec \in Record,
           NEW wide, \A r \in Reservations : ok[r] \subseteq wide[r],
           \A r \in Reservations : After(last, rec)[r] \in wide[r]
    PROVE  Foreseen(st, Append(recs, rec), wide, After(last, rec))
<1>1. PICK f : Foretells(f, st, recs, ok) /\ f[Len(recs)] = last
  BY DEF Foreseen
<1>2. PICK n \in Nat : n = Len(recs)
  OBVIOUS
<1> DEFINE more == Append(recs, rec)
           g == [k \in 0 .. n + 1 |-> IF k <= n THEN f[k] ELSE After(last, rec)]
<1>3. Len(more) = n + 1 /\ more[n + 1] = rec /\ \A k \in 1 .. n : more[k] = recs[k]
  BY <1>2
<1>4. (\A k \in 0 .. n : g[k] = f[k]) /\ g[n + 1] = After(last, rec)
  OBVIOUS
<1>5. last \in [Reservations -> Stays]
  BY <1>1, <1>2 DEF Foretells
<1>6. After(last, rec) \in [Reservations -> Stays]
  BY <1>5, AfterTypes
<1> HIDE DEF g, more
<1>7. g[0] = st
  BY <1>1, <1>2, <1>4 DEF Foretells
<1>8. ASSUME NEW k \in 1 .. n + 1 PROVE g[k] = After(g[k - 1], more[k])
  <2>1. CASE k <= n
    BY <2>1, <1>1, <1>2, <1>3, <1>4 DEF Foretells
  <2>2. CASE k = n + 1
    <3>1. k - 1 = n /\ n \in 0 .. n
      BY <2>2
    <3>2. g[k - 1] = last
      BY <3>1, <1>1, <1>2, <1>4
    <3> QED
      BY <2>2, <3>2, <1>3, <1>4
  <2> QED
    BY <2>1, <2>2
<1>9. ASSUME NEW k \in 0 .. n + 1
      PROVE  g[k] \in [Reservations -> Stays] /\ \A r \in Reservations : g[k][r] \in wide[r]
  <2>1. CASE k <= n
    BY <2>1, <1>1, <1>2, <1>4 DEF Foretells
  <2>2. CASE k = n + 1
    BY <2>2, <1>4, <1>6
  <2> QED
    BY <2>1, <2>2
<1>10. Foretells(g, st, more, wide)
  BY <1>3, <1>7, <1>8, <1>9 DEF Foretells
<1> QED
  BY <1>3, <1>4, <1>10 DEF Foreseen, more

\* More stays are allowed.
LEMMA ForeseenWide ==
    ASSUME NEW st, NEW recs \in Seq(Record), NEW ok, NEW last, Foreseen(st, recs, ok, last),
           NEW wide, \A r \in Reservations : ok[r] \subseteq wide[r]
    PROVE  Foreseen(st, recs, wide, last)
BY DEF Foreseen, Foretells

\* The first and the last of the mirrors.
LEMMA ForeseenEnds ==
    ASSUME NEW st, NEW recs \in Seq(Record), NEW ok, NEW last, Foreseen(st, recs, ok, last)
    PROVE  /\ last \in [Reservations -> Stays]
           /\ \A r \in Reservations : st[r] \in ok[r] /\ last[r] \in ok[r]
<1>1. Len(recs) \in Nat
  OBVIOUS
<1> QED
  BY <1>1 DEF Foreseen, Foretells

\* Rows that were only buffered are lost.
LEMMA ForeseenCut ==
    ASSUME NEW st, NEW recs \in Seq(Record), NEW ok, NEW last, Foreseen(st, recs, ok, last),
           NEW less \in Seq(Record), Len(less) <= Len(recs), \A k \in 1 .. Len(less) : less[k] = recs[k]
    PROVE  \E end : Foreseen(st, less, ok, end)
<1>1. PICK f : Foretells(f, st, recs, ok)
  BY DEF Foreseen
<1>2. Len(less) \in Nat /\ Len(recs) \in Nat
  OBVIOUS
<1>3. Foretells(f, st, less, ok)
  BY <1>1, <1>2 DEF Foretells
<1> QED
  BY <1>3 DEF Foreseen

\* The oldest row is applied.
LEMMA ForeseenApplied ==
    ASSUME NEW st, NEW recs \in Seq(Record), NEW ok, NEW last, Foreseen(st, recs, ok, last),
           NEW rest \in Seq(Record), Len(recs) = Len(rest) + 1, \A k \in 1 .. Len(rest) : rest[k] = recs[k + 1]
    PROVE  Foreseen(After(st, recs[1]), rest, ok, last)
<1>1. PICK f : Foretells(f, st, recs, ok) /\ f[Len(recs)] = last
  BY DEF Foreseen
<1>2. PICK n \in Nat : n = Len(rest)
  OBVIOUS
<1> DEFINE g == [k \in 0 .. n |-> f[k + 1]]
<1>3. \A k \in 0 .. n : g[k] = f[k + 1]
  OBVIOUS
<1> HIDE DEF g
<1>4. g[0] = After(st, recs[1])
  <2>1. g[0] = f[1] /\ 1 \in 1 .. Len(recs)
    BY <1>2, <1>3
  <2> QED
    BY <2>1, <1>1 DEF Foretells
<1>5. ASSUME NEW k \in 1 .. n PROVE g[k] = After(g[k - 1], rest[k])
  <2>1. g[k] = f[k + 1] /\ g[k - 1] = f[k] /\ rest[k] = recs[k + 1] /\ k + 1 \in 1 .. Len(recs)
    BY <1>2, <1>3
  <2> QED
    BY <2>1, <1>1 DEF Foretells
<1>6. ASSUME NEW k \in 0 .. n
      PROVE  g[k] \in [Reservations -> Stays] /\ \A r \in Reservations : g[k][r] \in ok[r]
  <2>1. g[k] = f[k + 1] /\ k + 1 \in 0 .. Len(recs)
    BY <1>2, <1>3
  <2> QED
    BY <2>1, <1>1 DEF Foretells
<1>7. Foretells(g, After(st, recs[1]), rest, ok)
  BY <1>2, <1>4, <1>5, <1>6 DEF Foretells
<1>8. g[n] = last
  BY <1>1, <1>2, <1>3
<1> QED
  BY <1>2, <1>7, <1>8 DEF Foreseen

-----------------------------------------------------------------------------
(* One record *)

\* A record of a guest who is there: an episode he has not left is in his room.
LEMMA ResolvePresent ==
    ASSUME NEW x \in Stays, NEW rec \in Record, rec.type \in {"GI", "GC"}, rec.res # NoRes,
           NEW in \in Nat, NEW out \in Nat, in = out + 1, Fits(x, in, out)
    PROVE  /\ Fits(Resolve(x, rec), in, out)
           /\ Owns(Resolve(x, rec), out) => Resolve(x, rec).room = rec.room
<1>1. x.version \in Nat /\ x.status \in {"NONE", "IN_HOUSE", "CHECKED_OUT"}
  BY DEF Stays
<1>2. CASE rec.type = "GI" /\ x.status = "NONE"
  BY <1>1, <1>2 DEF Resolve, Fits, Owns
<1>3. CASE rec.type = "GI" /\ x.status = "CHECKED_OUT"
  <2>1. rec.room = IF MovedRoom(x, rec) THEN rec.room ELSE x.room
    BY DEF MovedRoom, RoomChanged
  <2>2. Resolve(x, rec) = [status |-> "IN_HOUSE", version |-> x.version + 1, room |-> rec.room]
    BY <1>3, <2>1 DEF Resolve
  <2> QED
    BY <1>1, <1>3, <2>2 DEF Fits, Owns
<1>4. CASE x.status = "IN_HOUSE"
  <2>1. Resolve(x, rec) = [x EXCEPT !.room = rec.room]
    BY <1>4 DEF Resolve
  <2>2. Resolve(x, rec).version = x.version /\ Resolve(x, rec).status = x.status /\ Resolve(x, rec).room = rec.room
    BY <2>1 DEF Stays
  <2> QED
    BY <2>2 DEF Fits, Owns
<1>5. CASE rec.type = "GC" /\ x.status # "IN_HOUSE"
  <2>1. Resolve(x, rec) = x
    BY <1>5 DEF Resolve
  <2> QED
    BY <1>5, <2>1 DEF Owns
<1> QED
  BY <1>1, <1>2, <1>3, <1>4, <1>5

\* A departure: it closes no episode that the guest has not left.
LEMMA ResolveGone ==
    ASSUME NEW x \in Stays, NEW rec \in Record, rec.type = "GO",
           rec.res = NoRes => x.room = rec.room,
           NEW in \in Nat, NEW out \in Nat, Fits(x, in, out), Owns(x, out) => x.room # rec.room
    PROVE  /\ Fits(Resolve(x, rec), in, out)
           /\ Owns(Resolve(x, rec), out) => Resolve(x, rec) = x
<1>1. x.version \in Nat /\ x.status \in {"NONE", "IN_HOUSE", "CHECKED_OUT"}
  BY DEF Stays
<1>2. CASE x.status = "IN_HOUSE" /\ ~MovedRoom(x, rec)
  <2>1. Resolve(x, rec) = [x EXCEPT !.status = "CHECKED_OUT"]
    BY <1>2 DEF Resolve
  <2>2. Resolve(x, rec).version = x.version /\ Resolve(x, rec).status = "CHECKED_OUT"
    BY <2>1 DEF Stays
  <2>3. x.room = rec.room
    BY <1>2 DEF MovedRoom, RoomChanged
  <2>4. x.version <= out
    BY <1>1, <1>2, <2>3 DEF Owns
  <2> QED
    BY <2>2, <2>4 DEF Fits, Owns
<1>3. CASE ~(x.status = "IN_HOUSE" /\ ~MovedRoom(x, rec))
  <2>1. Resolve(x, rec) = x
    BY <1>3 DEF Resolve
  <2> QED
    BY <2>1
<1> QED
  BY <1>2, <1>3

\* What is not owned any less is right as before.
LEMMA RightKept ==
    ASSUME NEW last, NEW new, NEW place, NEW out, NEW s, NEW t, SameGates(s, t), t.roster = s.roster,
           Right(last, s, place, out), \A q \in Reservations : Owns(new[q], out[q]) => new[q] = last[q]
    PROVE  Right(new, t, place, out)
<1> SUFFICES ASSUME NEW q \in Reservations, Owns(new[q], out[q])
             PROVE  RightOf(new[q], q, t, place, out)
  BY DEF Right, RightOf
<1>1. new[q] = last[q] /\ RightOf(last[q], q, s, place, out)
  BY DEF Right
<1> QED
  BY <1>1 DEF RightOf, SameGates

\* Behind the barrier and outside a sweep nothing is asked of the last mirror.
LEMMA RightBarred ==
    ASSUME NEW last, NEW place, NEW out, NEW s, ~s.synced, ~s.window, s.phase # "PUBLISHED"
    PROVE  Right(last, s, place, out)
BY DEF Right, RightOf

\* More arrivals and departures allow more.
Grows(in, out, inn, outt, ww) ==
    /\ in \in [Reservations -> Nat] /\ out \in [Reservations -> Nat]
    /\ inn \in [Reservations -> Nat] /\ outt \in [Reservations -> Nat]
    /\ \A q \in Reservations : in[q] <= inn[q] /\ out[q] <= outt[q] /\ (OwesOut(ww, q) => in[q] <= outt[q])

\* What was allowed is allowed then.
LEMMA AllowedGrows ==
    ASSUME NEW in, NEW out, NEW inn, NEW outt, NEW ww, Grows(in, out, inn, outt, ww)
    PROVE  \A w : \A q \in Reservations : Allowed(in, out, w)[q] \subseteq Allowed(inn, outt, ww)[q]
<1> SUFFICES ASSUME NEW w, NEW q \in Reservations, NEW x \in Allowed(in, out, w)[q]
             PROVE  x \in Allowed(inn, outt, ww)[q]
  OBVIOUS
<1>1. x \in Stays /\ Fits(x, in[q], out[q])
  BY DEF Allowed
<1>2. /\ x.version \in Nat /\ in[q] \in Nat /\ out[q] \in Nat /\ inn[q] \in Nat /\ outt[q] \in Nat
      /\ in[q] <= inn[q] /\ out[q] <= outt[q] /\ (OwesOut(ww, q) => in[q] <= outt[q])
  BY <1>1 DEF Stays, Grows
<1>3. Fits(x, inn[q], outt[q])
  BY <1>1, <1>2 DEF Fits
<1>4. OwesOut(ww, q) => ~Owns(x, outt[q])
  BY <1>1, <1>2 DEF Fits, Owns
<1> QED
  BY <1>1, <1>3, <1>4 DEF Allowed

\* Whoever is away, or left once more than was known, has left every episode.
LEMMA NotOwned ==
    ASSUME NEW x \in Stays, NEW in \in Nat, NEW out \in Nat, Fits(x, in, out), NEW outt \in Nat, in <= outt
    PROVE  ~Owns(x, outt)
BY DEF Fits, Owns, Stays

-----------------------------------------------------------------------------
(* Records that are read *)

\* The records of inbox rows.
LEMMA RecsMade ==
    ASSUME NEW box \in Seq(InboxRow)
    PROVE  /\ Recs(box) \in Seq(Record) /\ Len(Recs(box)) = Len(box)
           /\ \A i \in 1 .. Len(box) : Recs(box)[i] = box[i].rec
<1>1. \A i \in 1 .. Len(box) : box[i].rec \in Record
  <2>1. \A row \in InboxRow : row.rec \in Record
    BY DEF InboxRow
  <2>2. \A i \in 1 .. Len(box) : box[i] \in InboxRow
    OBVIOUS
  <2> QED
    BY <2>1, <2>2
<1> QED
  BY <1>1 DEF Recs

\* The records that wait are records.
LEMMA WaitingRecords ==
    ASSUME NEW s, s.buf \in Seq(Record), NEW box \in Seq(InboxRow)
    PROVE  Waiting(s, box) \in Seq(Record)
BY RecsMade, ConcatProperties DEF Waiting

\* Records that become rows keep their order.
LEMMA RecsOfRows ==
    ASSUME NEW box \in Seq(InboxRow), NEW recs \in Seq(Record), NEW c \in BOOLEAN
    PROVE  Recs(box \o Rows(recs, c)) = Recs(box) \o recs
<1>1. PICK rows \in Seq(InboxRow) : rows = Rows(recs, c)
  BY RowsMade
<1>2. Len(rows) = Len(recs) /\ \A i \in 1 .. Len(recs) : rows[i].rec = recs[i]
  BY <1>1, RowsMade
<1>3. PICK n \in Nat, m \in Nat : n = Len(box) /\ m = Len(recs)
  OBVIOUS
<1>4. PICK all \in Seq(InboxRow) : all = box \o rows
  BY ConcatProperties
<1>5. /\ Len(all) = n + m /\ \A i \in 1 .. n : all[i] = box[i]
      /\ \A i \in n + 1 .. n + m : all[i] = rows[i - n]
  <2>1. Len(box) = n /\ Len(rows) = m
    BY <1>2, <1>3
  <2>2. /\ Len(box \o rows) = Len(box) + Len(rows)
        /\ \A i \in 1 .. Len(box) + Len(rows) : (box \o rows)[i] = IF i <= Len(box) THEN box[i] ELSE rows[i - Len(box)]
    BY ConcatProperties
  <2>3. /\ Len(box \o rows) = n + m
        /\ \A i \in 1 .. n + m : (box \o rows)[i] = IF i <= n THEN box[i] ELSE rows[i - n]
    BY <2>1, <2>2, Zenon
  <2>4. Len(all) = n + m /\ \A i \in 1 .. n + m : all[i] = IF i <= n THEN box[i] ELSE rows[i - n]
    BY <2>3, <1>4, Zenon
  <2>5. ASSUME NEW i \in 1 .. n PROVE all[i] = box[i]
    <3>1. i \in 1 .. n + m /\ i <= n
      OBVIOUS
    <3> QED
      BY <2>4, <3>1
  <2>6. ASSUME NEW i \in n + 1 .. n + m PROVE all[i] = rows[i - n]
    <3>1. i \in 1 .. n + m /\ ~(i <= n)
      OBVIOUS
    <3> QED
      BY <2>4, <3>1
  <2> QED
    BY <2>4, <2>5, <2>6
<1>6. PICK a \in Seq(Record) : a = Recs(all)
  BY RecsMade
<1>7. Len(a) = n + m /\ \A i \in 1 .. n + m : a[i] = all[i].rec
  BY <1>5, <1>6, RecsMade
<1>8. PICK b \in Seq(Record) : b = Recs(box)
  BY RecsMade
<1>9. Len(b) = n /\ \A i \in 1 .. n : b[i] = box[i].rec
  BY <1>3, <1>8, RecsMade
<1>10. PICK d \in Seq(Record) : d = b \o recs
  BY ConcatProperties
<1>11. /\ Len(d) = n + m /\ \A i \in 1 .. n : d[i] = b[i]
       /\ \A i \in n + 1 .. n + m : d[i] = recs[i - n]
  <2>1. Len(b) = n /\ Len(recs) = m
    BY <1>3, <1>9
  <2>2. /\ Len(b \o recs) = Len(b) + Len(recs)
        /\ \A i \in 1 .. Len(b) + Len(recs) : (b \o recs)[i] = IF i <= Len(b) THEN b[i] ELSE recs[i - Len(b)]
    BY ConcatProperties
  <2>3. /\ Len(b \o recs) = n + m
        /\ \A i \in 1 .. n + m : (b \o recs)[i] = IF i <= n THEN b[i] ELSE recs[i - n]
    BY <2>1, <2>2, Zenon
  <2>4. Len(d) = n + m /\ \A i \in 1 .. n + m : d[i] = IF i <= n THEN b[i] ELSE recs[i - n]
    BY <2>3, <1>10, Zenon
  <2>5. ASSUME NEW i \in 1 .. n PROVE d[i] = b[i]
    <3>1. i \in 1 .. n + m /\ i <= n
      OBVIOUS
    <3> QED
      BY <2>4, <3>1
  <2>6. ASSUME NEW i \in n + 1 .. n + m PROVE d[i] = recs[i - n]
    <3>1. i \in 1 .. n + m /\ ~(i <= n)
      OBVIOUS
    <3> QED
      BY <2>4, <3>1
  <2> QED
    BY <2>4, <2>5, <2>6
<1>12. ASSUME NEW i \in 1 .. n + m PROVE a[i] = d[i]
  <2>0. a[i] = all[i].rec
    BY <1>7
  <2>1. CASE i \in 1 .. n
    <3>1. all[i] = box[i] /\ b[i] = box[i].rec /\ d[i] = b[i]
      BY <2>1, <1>5, <1>9, <1>11
    <3> QED
      BY <3>1, <2>0
  <2>2. CASE i \in n + 1 .. n + m
    <3>1. i - n \in 1 .. m
      BY <2>2
    <3>2. all[i] = rows[i - n] /\ d[i] = recs[i - n]
      BY <2>2, <1>5, <1>11
    <3>3. rows[i - n].rec = recs[i - n]
      BY <3>1, <1>2, <1>3
    <3> QED
      BY <2>0, <3>2, <3>3
  <2> QED
    BY <2>1, <2>2
<1>13. a = d
  BY <1>7, <1>11, <1>12, SeqEqual
<1> QED
  BY <1>1, <1>4, <1>6, <1>8, <1>10, <1>13

\* To append to the second part is to append to the whole.
LEMMA AppendBehind ==
    ASSUME NEW a \in Seq(Record), NEW b \in Seq(Record), NEW rec \in Record
    PROVE  a \o Append(b, rec) = Append(a \o b, rec)
<1>1. <<rec>> \in Seq(Record) /\ a \o b \in Seq(Record)
  BY ConcatProperties
<1>2. Append(b, rec) = b \o <<rec>>
  BY AppendIsConcat
<1>3. Append(a \o b, rec) = (a \o b) \o <<rec>>
  BY <1>1, AppendIsConcat
<1>4. (a \o b) \o <<rec>> = a \o (b \o <<rec>>)
  BY <1>1, ConcatAssociative
<1> QED
  BY <1>2, <1>3, <1>4

\* A record that is admitted, staged or LIVE.
Heard(s, rec) == ~IsVacancy(rec) /\ (s.window \/ s.synced)

\* What the roster lists after it.
RosterAfter(s, rec) ==
    IF Heard(s, rec) /\ s.window /\ rec.type \in {"GI", "GC"} /\ rec.res # NoRes THEN s.roster \cup {rec.res}
    ELSE s.roster

\* A record that is staged waits last, whether or not the buffer is written now.
LEMMA StagedWaits ==
    ASSUME NEW b \in Seq(Record), NEW box \in Seq(InboxRow), NEW rec \in Record
    PROVE  Recs(box \o Rows(Flushed(Append(b, rec)), FALSE))
             \o (IF Flushed(Append(b, rec)) = <<>> THEN Append(b, rec) ELSE <<>>) = Append(Recs(box) \o b, rec)
<1>1. PICK buf \in Seq(Record) : buf = Append(b, rec)
  BY AppendProperties
<1>2. buf # <<>>
  BY <1>1, AppendProperties
<1>3. PICK a \in Seq(Record) : a = Recs(box)
  BY RecsMade
<1>4. Append(Recs(box) \o b, rec) = a \o buf
  BY <1>1, <1>3, AppendBehind
<1>5. CASE Len(buf) >= StageBatchSize
  <2>1. Flushed(buf) = buf
    BY <1>5 DEF Flushed
  <2>2. Recs(box \o Rows(buf, FALSE)) = a \o buf
    BY <1>3, RecsOfRows
  <2>3. (a \o buf) \o <<>> = a \o buf
    BY ConcatProperties, ConcatEmptySeq
  <2> QED
    BY <1>1, <1>2, <1>4, <2>1, <2>2, <2>3
<1>6. CASE ~(Len(buf) >= StageBatchSize)
  <2>1. Flushed(buf) = <<>>
    BY <1>6 DEF Flushed
  <2>2. PICK none \in Seq(Record) : none = <<>>
    BY EmptySeq
  <2>3. Recs(box \o Rows(none, FALSE)) = a \o none
    BY <1>3, RecsOfRows
  <2>4. a \o none = a
    BY <2>2, ConcatEmptySeq
  <2> QED
    BY <1>1, <1>4, <2>1, <2>2, <2>3, <2>4
<1> QED
  BY <1>5, <1>6

\* A LIVE record waits last.
LEMMA LiveWaits ==
    ASSUME NEW s, s.buf = <<>>, NEW box \in Seq(InboxRow), NEW rec \in Record
    PROVE  Waiting(s, Append(box, Row(rec, TRUE))) = Append(Waiting(s, box), rec)
<1>1. PICK row \in InboxRow : row = Row(rec, TRUE)
  BY DEF Row, InboxRow
<1>2. PICK one \in Seq(Record) : one = <<rec>>
  BY OneRecord
<1>3. Rows(one, TRUE) = <<row>>
  <2>1. Len(one) = 1 /\ one[1] = rec /\ DOMAIN one = {1}
    BY <1>2
  <2>2. Rows(one, TRUE) = [i \in {1} |-> row]
    BY <1>1, <2>1 DEF Rows
  <2>3. <<row>> = [i \in {1} |-> row]
    <3>1. DOMAIN <<row>> = {1} /\ <<row>>[1] = row
      OBVIOUS
    <3>2. <<row>> = [i \in DOMAIN <<row>> |-> <<row>>[i]]
      OBVIOUS
    <3> QED
      BY <3>1, <3>2
  <2> QED
    BY <2>2, <2>3
<1>4. Append(box, row) = box \o <<row>>
  BY AppendIsConcat
<1>5. PICK a \in Seq(Record) : a = Recs(box)
  BY RecsMade
<1>6. Recs(Append(box, row)) = a \o one
  BY <1>3, <1>4, <1>5, RecsOfRows
<1>7. a \o one = Append(a, rec)
  BY <1>2, AppendIsConcat
<1>8. a \o <<>> = a /\ Append(a, rec) \o <<>> = Append(a, rec)
  BY AppendProperties, ConcatEmptySeq
<1> QED
  BY <1>1, <1>5, <1>6, <1>7, <1>8 DEF Waiting

-----------------------------------------------------------------------------
(* What one record adds to the rows that wait *)

\* Counting a room changes neither buffer nor roster.
LEMMA ObserveKeeps ==
    ASSUME NEW s \in Sinks, NEW rec \in Record
    PROVE  Observe(s, rec).buf = s.buf /\ Observe(s, rec).roster = s.roster
<1>1. ASSUME NEW X
      PROVE  [s EXCEPT !.vacant = X].buf = s.buf /\ [s EXCEPT !.vacant = X].roster = s.roster
  BY DEF Sinks
<1>2. ASSUME NEW X
      PROVE  [s EXCEPT !.occupied = X].buf = s.buf /\ [s EXCEPT !.occupied = X].roster = s.roster
  BY DEF Sinks
<1>3. CASE s.window /\ IsVacancy(rec)
  BY <1>1, <1>3 DEF Observe
<1>4. CASE s.window /\ ~IsVacancy(rec)
  BY <1>2, <1>4 DEF Observe
<1>5. CASE ~s.window
  BY <1>5 DEF Observe
<1> QED
  BY <1>3, <1>4, <1>5

\* Listing a reservation puts it on the roster.
LEMMA ListedRoster ==
    ASSUME NEW s \in Sinks, NEW rec \in Record
    PROVE  Listed(s, rec).roster = IF rec.type \in {"GI", "GC"} /\ rec.res # NoRes THEN s.roster \cup {rec.res}
                                   ELSE s.roster
<1>1. ASSUME NEW X PROVE [s EXCEPT !.roster = X].roster = X
  BY DEF Sinks
<1> QED
  BY <1>1 DEF Listed

\* A record that reaches the handler waits last, unless the barrier drops it.
LEMMA EventWaits ==
    ASSUME NEW s, NEW box, Good(s, box), ~s.window => s.buf = <<>>, NEW rec \in Record, ~IsVacancy(rec)
    PROVE  /\ ~s.window => OnDomainEvent(s, rec, box).sink.buf = <<>>
           /\ OnDomainEvent(s, rec, box).sink.roster = RosterAfter(s, rec)
           /\ Waiting(OnDomainEvent(s, rec, box).sink, OnDomainEvent(s, rec, box).inbox) =
                 IF Heard(s, rec) THEN Append(Waiting(s, box), rec) ELSE Waiting(s, box)
<1> SUFFICES ASSUME NEW t, NEW out, t = OnDomainEvent(s, rec, box).sink, out = OnDomainEvent(s, rec, box).inbox
             PROVE  /\ ~s.window => t.buf = <<>>
                    /\ t.roster = RosterAfter(s, rec)
                    /\ Waiting(t, out) = IF Heard(s, rec) THEN Append(Waiting(s, box), rec) ELSE Waiting(s, box)
  OBVIOUS
<1>0. s \in Sinks /\ box \in Seq(InboxRow) /\ s.buf \in Seq(Record)
  BY DEF Good, Sinks
<1>1. CASE s.window
  <2>1. PICK l : l = Listed(s, rec)
    OBVIOUS
  <2>2. l \in Sinks /\ l.roster = RosterAfter(s, rec)
    <3>1. l \in Sinks
      BY <2>1, ListedGood DEF Good
    <3>2. l.roster = RosterAfter(s, rec)
      BY <1>0, <1>1, <2>1, ListedRoster DEF RosterAfter, Heard
    <3> QED
      BY <3>1, <3>2
  <2>3. PICK buf : buf = Append(s.buf, rec)
    OBVIOUS
  <2>4. PICK kept : kept = IF Flushed(buf) = <<>> THEN buf ELSE <<>>
    OBVIOUS
  <2>5. t = [l EXCEPT !.buf = kept] /\ out = box \o Rows(Flushed(buf), FALSE)
    BY <1>1, <2>1, <2>3, <2>4 DEF OnDomainEvent
  <2>6. t.buf = kept /\ t.roster = l.roster
    BY <2>2, <2>5 DEF Sinks
  <2>7. Waiting(t, out) = Append(Waiting(s, box), rec)
    <3>1. PICK b \in Seq(Record) : b = s.buf
      BY <1>0
    <3>2. box \in Seq(InboxRow)
      BY <1>0
    <3>3. Recs(box \o Rows(Flushed(Append(b, rec)), FALSE))
            \o (IF Flushed(Append(b, rec)) = <<>> THEN Append(b, rec) ELSE <<>>) = Append(Recs(box) \o b, rec)
      BY <3>2, StagedWaits
    <3>4. Recs(out) \o t.buf = Append(Recs(box) \o s.buf, rec)
      BY <2>3, <2>4, <2>5, <2>6, <3>1, <3>3
    <3> QED
      BY <3>4 DEF Waiting
  <2> QED
    BY <1>1, <2>2, <2>6, <2>7 DEF Heard
<1>2. CASE ~s.window /\ ~s.synced
  <2>1. t = s /\ out = box
    BY <1>2 DEF OnDomainEvent
  <2> QED
    BY <1>2, <2>1 DEF Heard, RosterAfter
<1>3. CASE ~s.window /\ s.synced
  <2>1. t = s /\ out = Append(box, Row(rec, TRUE))
    BY <1>3 DEF OnDomainEvent
  <2>2. Waiting(s, Append(box, Row(rec, TRUE))) = Append(Waiting(s, box), rec)
    BY <1>0, <1>3, LiveWaits
  <2> QED
    BY <1>3, <2>1, <2>2 DEF Heard, RosterAfter
<1> QED
  BY <1>1, <1>2, <1>3

\* The Serve loop on one record: it waits last, unless it is a vacancy or the barrier drops it.
LEMMA ReadOneWaits ==
    ASSUME NEW st, Good(st.sink, st.inbox), ~st.sink.window => st.sink.buf = <<>>, NEW rec \in Record
    PROVE  /\ ~st.sink.window => ReadOne(st, rec).sink.buf = <<>>
           /\ ReadOne(st, rec).sink.roster = RosterAfter(st.sink, rec)
           /\ Waiting(ReadOne(st, rec).sink, ReadOne(st, rec).inbox) =
                 IF Heard(st.sink, rec) THEN Append(Waiting(st.sink, st.inbox), rec) ELSE Waiting(st.sink, st.inbox)
<1> SUFFICES ASSUME NEW t, NEW out, t = ReadOne(st, rec).sink, out = ReadOne(st, rec).inbox
             PROVE  /\ ~st.sink.window => t.buf = <<>>
                    /\ t.roster = RosterAfter(st.sink, rec)
                    /\ Waiting(t, out) = IF Heard(st.sink, rec) THEN Append(Waiting(st.sink, st.inbox), rec)
                                         ELSE Waiting(st.sink, st.inbox)
  OBVIOUS
<1>1. PICK s : s = Observe(st.sink, rec)
  OBVIOUS
<1>2. st.sink \in Sinks
  BY DEF Good
<1>3. Good(s, st.inbox) /\ SameGates(st.sink, s) /\ s.buf = st.sink.buf /\ s.roster = st.sink.roster
  BY <1>1, <1>2, ObserveGood, ObserveKeeps
<1>4. /\ Waiting(s, st.inbox) = Waiting(st.sink, st.inbox)
      /\ RosterAfter(s, rec) = RosterAfter(st.sink, rec)
      /\ Heard(s, rec) <=> Heard(st.sink, rec)
  BY <1>3 DEF Waiting, RosterAfter, Heard, SameGates
<1>5. CASE IsVacancy(rec)
  <2>1. t = s /\ out = st.inbox
    BY <1>1, <1>5 DEF ReadOne
  <2> QED
    BY <1>3, <1>4, <1>5, <2>1 DEF Heard, RosterAfter
<1>6. CASE ~IsVacancy(rec)
  <2>1. t = OnDomainEvent(s, rec, st.inbox).sink /\ out = OnDomainEvent(s, rec, st.inbox).inbox
    BY <1>1, <1>6 DEF ReadOne
  <2>2. ~s.window => s.buf = <<>>
    BY <1>3 DEF SameGates
  <2>3. /\ ~s.window => t.buf = <<>>
        /\ t.roster = RosterAfter(s, rec)
        /\ Waiting(t, out) = IF Heard(s, rec) THEN Append(Waiting(s, st.inbox), rec) ELSE Waiting(s, st.inbox)
    <3>1. PICK box : box = st.inbox
      OBVIOUS
    <3>2. Good(s, box)
      BY <1>3, <3>1
    <3>3. /\ ~s.window => OnDomainEvent(s, rec, box).sink.buf = <<>>
          /\ OnDomainEvent(s, rec, box).sink.roster = RosterAfter(s, rec)
          /\ Waiting(OnDomainEvent(s, rec, box).sink, OnDomainEvent(s, rec, box).inbox) =
                IF Heard(s, rec) THEN Append(Waiting(s, box), rec) ELSE Waiting(s, box)
      BY <1>6, <2>2, <3>2, EventWaits
    <3> QED
      BY <2>1, <3>1, <3>3
  <2> QED
    BY <1>3, <1>4, <2>3 DEF SameGates
<1> QED
  BY <1>5, <1>6

-----------------------------------------------------------------------------
(* What the hotel sends *)

\* One record that the hotel sends, or that is lost on a link that is down.
LEMMA SendOne ==
    ASSUME Good(sink, inbox), SinkShape, link \in {"UP", "DOWN"}, NEW rec \in Record, Send(<<rec>>)
    PROVE  /\ SameGates(sink, sink') /\ sink.phase = "READ"
           /\ ~sink'.window => sink'.buf = <<>>
           /\ sink'.roster = RosterAfter(sink, rec)
           /\ Waiting(sink', inbox') = IF Heard(sink, rec) THEN Append(Waiting(sink, inbox), rec)
                                       ELSE Waiting(sink, inbox)
<1>1. CASE link = "UP"
  <2>1. PICK recs \in Seq(Record) : recs = <<rec>>
    BY OneRecord
  <2>2. Len(recs) = 1 /\ recs[1] = rec
    BY <2>1
  <2>3. Reads(Passed(recs), recs, 1)
    BY <2>2, ReadsExists DEF Reads, Passed, Before
  <2>4. ReadAll(recs) = Passed(recs)[1]
    BY <2>2 DEF ReadAll, Passed
  <2>5. ReadAll(recs) = ReadOne(Before, rec)
    <3>1. Passed(recs)[0] = Before
      BY <2>3 DEF Reads
    <3>2. Passed(recs)[1] = ReadOne(Passed(recs)[0], recs[1])
      BY <2>3 DEF Reads
    <3> QED
      BY <2>2, <2>4, <3>1, <3>2
  <2>6. PICK st : st = Before
    OBVIOUS
  <2>7. st.sink = sink /\ st.inbox = inbox
    BY <2>6 DEF Before
  <2>8. Good(st.sink, st.inbox) /\ (~st.sink.window => st.sink.buf = <<>>)
    BY <2>7 DEF SinkShape
  <2>9. SameGates(st.sink, ReadOne(st, rec).sink)
    BY <2>8, ReadOneGood
  <2>10. /\ ~st.sink.window => ReadOne(st, rec).sink.buf = <<>>
         /\ ReadOne(st, rec).sink.roster = RosterAfter(st.sink, rec)
         /\ Waiting(ReadOne(st, rec).sink, ReadOne(st, rec).inbox) =
               IF Heard(st.sink, rec) THEN Append(Waiting(st.sink, st.inbox), rec) ELSE Waiting(st.sink, st.inbox)
    BY <2>8, ReadOneWaits
  <2>11. sink' = ReadOne(st, rec).sink /\ inbox' = ReadOne(st, rec).inbox /\ sink.phase = "READ"
    BY <1>1, <2>1, <2>5, <2>6 DEF Send
  <2> QED
    BY <2>7, <2>9, <2>10, <2>11 DEF SameGates
<1>2. CASE link = "DOWN"
  <2>1. sink' = sink /\ inbox' = inbox
    BY <1>2 DEF Send
  <2>2. ~sink.window /\ ~sink.synced /\ sink.phase = "READ" /\ sink.buf = <<>>
    BY <1>2 DEF SinkShape
  <2> QED
    BY <2>1, <2>2 DEF SameGates, RosterAfter, Heard
<1> QED
  BY <1>1, <1>2

\* The shape of pmsd's state is kept by what the hotel sends.
LEMMA SendShape ==
    ASSUME SinkShape, SameGates(sink, sink'), sink.phase = "READ", ~sink'.window => sink'.buf = <<>>,
           UNCHANGED <<link, asked>>
    PROVE  SinkShape'
BY DEF SinkShape, SameGates

\* The record of a guest who is there is admitted.
PresentCase(st, recs, ok, last, in, out, w, place, r, rec, s, t) ==
    /\ recs \in Seq(Record) /\ Foreseen(st, recs, ok, last)
    /\ in \in [Reservations -> Nat] /\ out \in [Reservations -> Nat]
    /\ \A q \in Reservations : ok[q] \subseteq Allowed(in, out, w)[q]
    /\ r \in Reservations /\ rec \in Record /\ rec.type \in {"GI", "GC"} /\ rec.res = r /\ rec.room = place[r]
    /\ in[r] = out[r] + 1 /\ (OwesOut(w, r) => w[1].room # place[r])
    /\ SameGates(s, t) /\ s.phase # "PUBLISHED"
    /\ t.roster = IF s.window THEN s.roster \cup {r} ELSE s.roster
    /\ \A q \in Reservations \ {r} : RightOf(last[q], q, s, place, out)

\* Then the last mirror has him in his room, if it has him.
LEMMA PresentFollows ==
    ASSUME NEW st, NEW recs, NEW ok, NEW last, NEW in, NEW out, NEW w, NEW place, NEW r, NEW rec, NEW s, NEW t,
           PresentCase(st, recs, ok, last, in, out, w, place, r, rec, s, t)
    PROVE  /\ Foreseen(st, Append(recs, rec), Allowed(in, out, w), After(last, rec))
           /\ Right(After(last, rec), t, place, out)
           /\ Owns(After(last, rec)[r], out[r]) => After(last, rec)[r].room = place[r]
           /\ \A q \in Reservations \ {r} : After(last, rec)[q] = last[q]
<1> USE DEF PresentCase
<1> DEFINE new == After(last, rec)
<1>1. last \in [Reservations -> Stays] /\ \A q \in Reservations : last[q] \in ok[q]
  BY ForeseenEnds
<1>2. \A q \in Reservations : last[q] \in Allowed(in, out, w)[q]
  BY <1>1
<1>3. rec.res # NoRes /\ NamedIn(last, rec) = {r}
  BY StayMirrorAssumption DEF NamedIn
<1>4. new \in [Reservations -> Stays] /\ new[r] = Resolve(last[r], rec) /\ \A q \in Reservations \ {r} : new[q] = last[q]
  BY <1>1, <1>3, AfterTypes
<1> HIDE DEF new
<1>5. Fits(new[r], in[r], out[r]) /\ (Owns(new[r], out[r]) => new[r].room = place[r])
  <2>1. Fits(last[r], in[r], out[r]) /\ last[r] \in Stays /\ in[r] \in Nat /\ out[r] \in Nat
    BY <1>2 DEF Allowed
  <2>2. PICK x \in Stays, i \in Nat, o \in Nat : x = last[r] /\ i = in[r] /\ o = out[r]
    BY <2>1
  <2>3. /\ rec \in Record /\ rec.type \in {"GI", "GC"} /\ rec.res # NoRes
        /\ i = o + 1 /\ Fits(x, i, o) /\ rec.room = place[r]
    BY <1>3, <2>1, <2>2
  <2> HIDE DEF PresentCase
  <2>4. Fits(Resolve(x, rec), i, o) /\ (Owns(Resolve(x, rec), o) => Resolve(x, rec).room = rec.room)
    BY <2>3, ResolvePresent
  <2> QED
    BY <1>4, <2>2, <2>3, <2>4
<1>6. new[r] \in Allowed(in, out, w)[r]
  BY <1>4, <1>5 DEF Allowed
<1>7. \A q \in Reservations : new[q] \in Allowed(in, out, w)[q]
  BY <1>2, <1>4, <1>6
<1>8. RightOf(new[r], r, t, place, out)
  BY <1>5 DEF RightOf, SameGates
<1>9. ASSUME NEW q \in Reservations \ {r} PROVE RightOf(new[q], q, t, place, out)
  BY <1>4 DEF RightOf, SameGates
<1>10. Foreseen(st, Append(recs, rec), Allowed(in, out, w), new)
  <2>1. PICK wide : wide = Allowed(in, out, w)
    OBVIOUS
  <2>2. (\A q \in Reservations : ok[q] \subseteq wide[q]) /\ \A q \in Reservations : After(last, rec)[q] \in wide[q]
    BY <1>7, <2>1 DEF new
  <2>3. Foreseen(st, Append(recs, rec), wide, After(last, rec))
    BY <2>2, ForeseenNext
  <2> QED
    BY <2>1, <2>3 DEF new
<1> QED
  BY <1>4, <1>5, <1>8, <1>9, <1>10 DEF Right, new

\* A departure is admitted that closes no episode whose guest is there.
GoneCase(st, recs, ok, last, in, out, w, rec) ==
    /\ recs \in Seq(Record) /\ Foreseen(st, recs, ok, last)
    /\ in \in [Reservations -> Nat] /\ out \in [Reservations -> Nat]
    /\ \A q \in Reservations : ok[q] \subseteq Allowed(in, out, w)[q]
    /\ rec \in Record /\ rec.type = "GO"
    /\ \A q \in NamedIn(last, rec) : Owns(last[q], out[q]) => last[q].room # rec.room

\* Then the last mirror keeps every episode whose guest is there.
LEMMA GoneFollows ==
    ASSUME NEW st, NEW recs, NEW ok, NEW last, NEW in, NEW out, NEW w, NEW rec,
           GoneCase(st, recs, ok, last, in, out, w, rec)
    PROVE  /\ Foreseen(st, Append(recs, rec), Allowed(in, out, w), After(last, rec))
           /\ \A q \in Reservations : Owns(After(last, rec)[q], out[q]) => After(last, rec)[q] = last[q]
<1> USE DEF GoneCase
<1> DEFINE new == After(last, rec)
<1>1. last \in [Reservations -> Stays] /\ \A q \in Reservations : last[q] \in ok[q]
  BY ForeseenEnds
<1>2. \A q \in Reservations : last[q] \in Allowed(in, out, w)[q]
  BY <1>1
<1>3. /\ new \in [Reservations -> Stays]
      /\ \A q \in Reservations : new[q] = IF q \in NamedIn(last, rec) THEN Resolve(last[q], rec) ELSE last[q]
  BY <1>1, AfterTypes
<1> HIDE DEF new
<1>4. ASSUME NEW q \in Reservations
      PROVE  new[q] \in Allowed(in, out, w)[q] /\ (Owns(new[q], out[q]) => new[q] = last[q])
  <2>1. CASE q \notin NamedIn(last, rec)
    BY <1>2, <1>3, <2>1
  <2>2. CASE q \in NamedIn(last, rec)
    <3>1. rec.res = NoRes => last[q].room = rec.room
      BY <2>2 DEF NamedIn
    <3>2. /\ Fits(last[q], in[q], out[q]) /\ last[q] \in Stays /\ in[q] \in Nat /\ out[q] \in Nat
          /\ OwesOut(w, q) /\ Owns(last[q], out[q]) => last[q].room # w[1].room
      BY <1>2 DEF Allowed
    <3>3. Fits(new[q], in[q], out[q]) /\ (Owns(new[q], out[q]) => new[q] = last[q])
      BY <1>3, <2>2, <3>1, <3>2, ResolveGone
    <3> QED
      BY <1>3, <3>2, <3>3 DEF Allowed
  <2> QED
    BY <2>1, <2>2
<1>5. Foreseen(st, Append(recs, rec), Allowed(in, out, w), new)
  <2>1. PICK wide : wide = Allowed(in, out, w)
    OBVIOUS
  <2>2. (\A q \in Reservations : ok[q] \subseteq wide[q]) /\ \A q \in Reservations : After(last, rec)[q] \in wide[q]
    BY <1>4, <2>1 DEF new
  <2>3. Foreseen(st, Append(recs, rec), wide, After(last, rec))
    BY <2>2, ForeseenNext
  <2> QED
    BY <2>1, <2>3 DEF new
<1> QED
  BY <1>4, <1>5 DEF new

-----------------------------------------------------------------------------
(* The steps of the hotel keep the episodes real *)

\* The mirror that waits for the records on their way is right in the next state.
FollowsNext ==
    \E new : /\ Foreseen(stay', Waiting(sink', inbox'), Allowed(ins', outs', owed'), new)
             /\ Right(new, sink', guest', outs')

\* What waits now.
LEMMA WaitingNow ==
    ASSUME MirrorInv
    PROVE  Waiting(sink, inbox) \in Seq(Record)
<1>1. sink.buf \in Seq(Record) /\ inbox \in Seq(InboxRow)
  BY DEF MirrorInv, Good, Sinks
<1> QED
  BY <1>1, WaitingRecords

\* A record of a guest who is there is sent.
LEMMA PresentSent ==
    ASSUME MirrorInv, SinkShape, Follows(sink, inbox), stay' = stay, Grows(ins, outs, ins', outs', owed'),
           NEW r \in Reservations, NEW rec \in Record, rec.type \in {"GI", "GC"}, rec.res = r, rec.room = guest'[r],
           Send(<<rec>>), ins'[r] = outs'[r] + 1, OwesOut(owed', r) => owed'[1].room # guest'[r],
           \A q \in Reservations \ {r} : guest'[q] = guest[q] /\ outs'[q] = outs[q]
    PROVE  FollowsNext
<1>1. PICK last : Foreseen(stay, Waiting(sink, inbox), OkStays, last) /\ Right(last, sink, guest, outs)
  BY DEF Follows
<1>2. PICK recs \in Seq(Record) : recs = Waiting(sink, inbox)
  BY WaitingNow
<1>3. Foreseen(stay, recs, OkStays, last)
  BY <1>1, <1>2
<1>4. \A q \in Reservations : OkStays[q] \subseteq Allowed(ins', outs', owed')[q]
  BY AllowedGrows DEF OkStays
<1>5. /\ SameGates(sink, sink') /\ sink.phase = "READ" /\ sink'.roster = RosterAfter(sink, rec)
      /\ Waiting(sink', inbox') = IF Heard(sink, rec) THEN Append(recs, rec) ELSE recs
  BY <1>2, SendOne DEF MirrorInv, OtherTypes
<1>6. ~IsVacancy(rec) /\ rec.res # NoRes
  BY StayMirrorAssumption DEF IsVacancy
<1>7. CASE Heard(sink, rec)
  <2>1. sink'.roster = IF sink.window THEN sink.roster \cup {r} ELSE sink.roster
    BY <1>5, <1>6, <1>7 DEF RosterAfter
  <2>2. ASSUME NEW q \in Reservations \ {r} PROVE RightOf(last[q], q, sink, guest', outs')
    <3>1. RightOf(last[q], q, sink, guest, outs)
      BY <1>1 DEF Right
    <3> QED
      BY <3>1 DEF RightOf
  <2>3. ins' \in [Reservations -> Nat] /\ outs' \in [Reservations -> Nat]
    BY DEF Grows
  <2>4. PresentCase(stay, recs, OkStays, last, ins', outs', owed', guest', r, rec, sink, sink')
    BY <1>3, <1>4, <1>5, <2>1, <2>2, <2>3 DEF PresentCase
  <2>5. /\ Foreseen(stay, Append(recs, rec), Allowed(ins', outs', owed'), After(last, rec))
        /\ Right(After(last, rec), sink', guest', outs')
    BY <2>4, PresentFollows
  <2> QED
    BY <1>5, <1>7, <2>5 DEF FollowsNext
<1>8. CASE ~Heard(sink, rec)
  <2>1. ~sink'.synced /\ ~sink'.window /\ sink'.phase # "PUBLISHED"
    BY <1>5, <1>6, <1>8 DEF Heard, SameGates
  <2>2. Right(last, sink', guest', outs')
    BY <2>1, RightBarred
  <2>3. Foreseen(stay, recs, Allowed(ins', outs', owed'), last)
    BY <1>3, <1>4, ForeseenWide
  <2> QED
    BY <1>5, <1>8, <2>2, <2>3 DEF FollowsNext
<1> QED
  BY <1>7, <1>8

\* A departure is sent that closes no episode whose guest is there.
LEMMA GoneSent ==
    ASSUME MirrorInv, SinkShape, stay' = stay, Grows(ins, outs, ins', outs', owed'),
           NEW rec \in Record, rec.type = "GO", Send(<<rec>>),
           NEW last, Foreseen(stay, Waiting(sink, inbox), OkStays, last), Right(last, sink, guest', outs'),
           Heard(sink, rec) => \A q \in NamedIn(last, rec) : Owns(last[q], outs'[q]) => last[q].room # rec.room
    PROVE  FollowsNext
<1>2. PICK recs \in Seq(Record) : recs = Waiting(sink, inbox)
  BY WaitingNow
<1>3. Foreseen(stay, recs, OkStays, last)
  BY <1>2
<1>4. \A q \in Reservations : OkStays[q] \subseteq Allowed(ins', outs', owed')[q]
  BY AllowedGrows DEF OkStays
<1>5. /\ SameGates(sink, sink') /\ sink'.roster = RosterAfter(sink, rec)
      /\ Waiting(sink', inbox') = IF Heard(sink, rec) THEN Append(recs, rec) ELSE recs
  BY <1>2, SendOne DEF MirrorInv, OtherTypes
<1>6. sink'.roster = sink.roster
  BY <1>5 DEF RosterAfter
<1>7. CASE Heard(sink, rec)
  <2>1. ins' \in [Reservations -> Nat] /\ outs' \in [Reservations -> Nat]
    BY DEF Grows
  <2>2. GoneCase(stay, recs, OkStays, last, ins', outs', owed', rec)
    BY <1>3, <1>4, <1>7, <2>1 DEF GoneCase
  <2>3. /\ Foreseen(stay, Append(recs, rec), Allowed(ins', outs', owed'), After(last, rec))
        /\ \A q \in Reservations : Owns(After(last, rec)[q], outs'[q]) => After(last, rec)[q] = last[q]
    BY <2>2, GoneFollows
  <2>4. Right(After(last, rec), sink', guest', outs')
    BY <1>5, <1>6, <2>3, RightKept
  <2> QED
    BY <1>5, <1>7, <2>3, <2>4 DEF FollowsNext
<1>8. CASE ~Heard(sink, rec)
  <2>1. Right(last, sink', guest', outs')
    BY <1>5, <1>6, RightKept
  <2>2. Foreseen(stay, recs, Allowed(ins', outs', owed'), last)
    BY <1>3, <1>4, ForeseenWide
  <2> QED
    BY <1>5, <1>8, <2>1, <2>2 DEF FollowsNext
<1> QED
  BY <1>7, <1>8

\* A guest who left, or moved, has left every episode that the last mirror has of him.
LEMMA LeftIsRight ==
    ASSUME NEW last, Foreseen(stay, Waiting(sink, inbox), OkStays, last), Right(last, sink, guest, outs), MirrorInv,
           NEW r \in Reservations, outs' \in [Reservations -> Nat], ins[r] <= outs'[r],
           \A q \in Reservations \ {r} : guest'[q] = guest[q] /\ outs'[q] = outs[q]
    PROVE  Right(last, sink, guest', outs') /\ ~Owns(last[r], outs'[r])
<1>1. last[r] \in OkStays[r]
  BY WaitingNow, ForeseenEnds
<1>2. last[r] \in Stays /\ Fits(last[r], ins[r], outs[r])
  BY <1>1 DEF OkStays, Allowed
<1>3. ins[r] \in Nat /\ outs[r] \in Nat /\ outs'[r] \in Nat
  BY DEF MirrorInv, HotelTypes
<1>4. ~Owns(last[r], outs'[r])
  BY <1>2, <1>3, NotOwned
<1>5. ASSUME NEW q \in Reservations \ {r} PROVE RightOf(last[q], q, sink, guest', outs')
  <2>1. RightOf(last[q], q, sink, guest, outs)
    BY DEF Right
  <2> QED
    BY <2>1 DEF RightOf
<1>6. RightOf(last[r], r, sink, guest', outs')
  BY <1>4 DEF RightOf
<1> QED
  BY <1>4, <1>5, <1>6 DEF Right

\* The parts of the invariant, in the next state.
LEMMA EpisodeParts ==
    ASSUME HotelCounts', OwedIsTrue', SinkShape', ~spoilt' => FollowsNext
    PROVE  EpisodeInv'
BY DEF EpisodeInv, Follows, FollowsNext, OkStays

\* What the hotel counts are numbers, now and after one more happening of guest r.
LEMMA Counts ==
    ASSUME MirrorInv, HotelCounts
    PROVE  /\ ins \in [Reservations -> Nat] /\ outs \in [Reservations -> Nat]
           /\ guest \in [Reservations -> Rooms \cup {Away}]
           /\ \A q \in Reservations : ins[q] = outs[q] + IF guest[q] = Away THEN 0 ELSE 1
BY DEF MirrorInv, HotelTypes, HotelCounts

\* A check-in.
LEMMA CheckInEpisode ==
    ASSUME MirrorInv, EpisodeInv, NEW r \in Reservations, NEW room \in Rooms, CheckIn(r, room)
    PROVE  EpisodeInv'
<1>1. /\ guest[r] = Away /\ guest' = [guest EXCEPT ![r] = room] /\ ins' = [ins EXCEPT ![r] = @ + 1]
      /\ outs' = outs /\ owed' = owed /\ owed = <<>> /\ stay' = stay /\ Send(<<GI(r, room)>>)
      /\ UNCHANGED <<link, asked, spoilt>>
  BY DEF CheckIn, Happens, Announce
<1>2. HotelCounts /\ SinkShape /\ (~spoilt => Follows(sink, inbox))
  BY DEF EpisodeInv
<1>3. room # Away
  BY StayMirrorAssumption
<1>4. /\ ins' \in [Reservations -> Nat] /\ guest'[r] = room /\ ins'[r] = outs'[r] + 1
      /\ \A q \in Reservations \ {r} : guest'[q] = guest[q] /\ ins'[q] = ins[q]
      /\ \A q \in Reservations : ins[q] <= ins'[q]
  BY <1>1, <1>2, Counts
<1>5. HotelCounts'
  BY <1>1, <1>2, <1>3, <1>4 DEF HotelCounts
<1>6. OwedIsTrue'
  BY <1>1 DEF OwedIsTrue
<1>7. PICK rec \in Record : rec = GI(r, room)
  BY RecordsMade
<1>8. rec.type = "GI" /\ rec.res = r /\ rec.room = guest'[r]
  BY <1>4, <1>7 DEF GI
<1>9. SinkShape'
  BY <1>1, <1>2, <1>7, SendOne, SendShape DEF MirrorInv, OtherTypes
<1>10. Grows(ins, outs, ins', outs', owed')
  <2>1. \A q \in Reservations : ~OwesOut(owed', q)
    BY <1>1 DEF OwesOut
  <2>2. \A q \in Reservations : outs[q] <= outs'[q]
    BY <1>1, <1>2, Counts
  <2> QED
    BY <1>1, <1>2, <1>4, <2>1, <2>2, Counts DEF Grows
<1>11. ~spoilt' => FollowsNext
  <2>1. ~OwesOut(owed', r)
    BY <1>1 DEF OwesOut
  <2> QED
    BY <1>1, <1>2, <1>4, <1>7, <1>8, <1>10, <2>1, PresentSent
<1> QED
  BY <1>5, <1>6, <1>9, <1>11, EpisodeParts

\* A check-out; one that names only the room closes nobody else's episode, unless two guests shared it.
LEMMA CheckOutEpisode ==
    ASSUME MirrorInv, EpisodeInv, NEW r \in Reservations, NEW named \in BOOLEAN, CheckOut(r, named)
    PROVE  EpisodeInv'
<1>0. PICK who : who = IF named THEN r ELSE NoRes
  OBVIOUS
<1>1. /\ guest[r] # Away /\ guest' = [guest EXCEPT ![r] = Away] /\ outs' = [outs EXCEPT ![r] = @ + 1]
      /\ ins' = ins /\ owed' = owed /\ owed = <<>> /\ stay' = stay /\ Send(<<GO(who, guest[r])>>)
      /\ UNCHANGED <<link, asked>>
  BY <1>0 DEF CheckOut, Happens
<1>2. HotelCounts /\ SinkShape /\ (~spoilt => Follows(sink, inbox))
  BY DEF EpisodeInv
<1>4. /\ outs' \in [Reservations -> Nat] /\ guest'[r] = Away /\ ins[r] = outs'[r] /\ ins[r] <= outs'[r]
      /\ \A q \in Reservations \ {r} : guest'[q] = guest[q] /\ outs'[q] = outs[q]
      /\ \A q \in Reservations : outs[q] <= outs'[q]
  BY <1>1, <1>2, Counts
<1>5. HotelCounts'
  BY <1>1, <1>2, <1>4 DEF HotelCounts
<1>6. OwedIsTrue'
  BY <1>1 DEF OwedIsTrue
<1>7. PICK rec \in Record : rec = GO(who, guest[r])
  <2>1. guest[r] \in Rooms /\ who \in Reservations \cup {NoRes}
    BY <1>0, <1>1, <1>2, Counts
  <2> QED
    BY <2>1, RecordsMade
<1>8. rec.type = "GO" /\ rec.res = who /\ rec.room = guest[r]
  BY <1>7 DEF GO
<1>9. SinkShape'
  BY <1>1, <1>2, <1>7, SendOne, SendShape DEF MirrorInv, OtherTypes
<1>10. Grows(ins, outs, ins', outs', owed')
  <2>1. \A q \in Reservations : ~OwesOut(owed', q)
    BY <1>1 DEF OwesOut
  <2>2. \A q \in Reservations : ins[q] <= ins'[q]
    BY <1>1, <1>2, Counts
  <2> QED
    BY <1>1, <1>2, <1>4, <2>1, <2>2, Counts DEF Grows
<1>11. ASSUME ~spoilt' PROVE FollowsNext
  <2>1. ~spoilt /\ (named \/ \A q \in Reservations \ {r} : guest[q] # guest[r])
    BY <1>11 DEF CheckOut
  <2>2. PICK last : Foreseen(stay, Waiting(sink, inbox), OkStays, last) /\ Right(last, sink, guest, outs)
    BY <1>2, <2>1 DEF Follows
  <2>3. Right(last, sink, guest', outs') /\ ~Owns(last[r], outs'[r])
    BY <1>4, <2>2, LeftIsRight
  <2>4. ASSUME Heard(sink, rec), NEW q \in NamedIn(last, rec), Owns(last[q], outs'[q]) PROVE last[q].room # rec.room
    <3>1. q # r
      BY <2>3, <2>4
    <3>2. rec.res = NoRes /\ ~named
      <4>1. who \in {r, NoRes} /\ (named => who = r) /\ r # NoRes
        BY <1>0, StayMirrorAssumption
      <4>2. who # NoRes => NamedIn(last, rec) = {who}
        BY <1>8 DEF NamedIn
      <4>3. who = NoRes
        BY <3>1, <4>1, <4>2
      <4> QED
        BY <1>8, <4>1, <4>3
    <3>3. q \in Reservations \ {r}
      BY <3>1, <3>2, <2>4 DEF NamedIn
    <3>4. ~asked
      BY <2>4, <1>8, <3>2 DEF Heard, IsVacancy
    <3>5. ~sink.window /\ sink.synced
      BY <1>2, <2>4, <3>4 DEF SinkShape, Heard
    <3>6. RightOf(last[q], q, sink, guest', outs')
      BY <2>3, <3>3 DEF Right
    <3>7. last[q].room = guest[q]
      BY <1>4, <2>4, <3>3, <3>5, <3>6 DEF RightOf
    <3> QED
      BY <1>8, <2>1, <3>2, <3>3, <3>7
  <2>5. Heard(sink, rec) => \A q \in NamedIn(last, rec) : Owns(last[q], outs'[q]) => last[q].room # rec.room
    BY <2>4
  <2> QED
    BY <1>1, <1>2, <1>7, <1>8, <1>10, <2>2, <2>3, <2>5, GoneSent
<1> QED
  BY <1>5, <1>6, <1>9, <1>11, EpisodeParts

\* A move, announced by one record or by the first of two.
LEMMA MoveEpisode ==
    ASSUME MirrorInv, EpisodeInv, NEW r \in Reservations, NEW room \in Rooms,
           NEW how \in {"CHANGE", "OUT_IN", "IN_OUT"}, Move(r, room, how)
    PROVE  EpisodeInv'
<1>1. /\ guest[r] # Away /\ guest[r] # room /\ guest' = [guest EXCEPT ![r] = room]
      /\ owed = <<>> /\ stay' = stay /\ link' = link
  BY DEF Move, Happens
<1>2. HotelCounts /\ SinkShape /\ (~spoilt => Follows(sink, inbox))
  BY DEF EpisodeInv
<1>3. /\ room # Away /\ guest[r] \in Rooms
      /\ guest'[r] = room /\ \A q \in Reservations \ {r} : guest'[q] = guest[q]
  BY <1>1, <1>2, Counts, StayMirrorAssumption
<1>4. CASE how = "CHANGE"
  <2>1. Send(<<GC(r, room)>>) /\ UNCHANGED <<asked, spoilt>> /\ owed' = <<>> /\ ins' = ins /\ outs' = outs
    BY <1>4 DEF Move, Announce
  <2>2. HotelCounts'
    BY <1>1, <1>2, <1>3, <2>1 DEF HotelCounts
  <2>3. OwedIsTrue'
    BY <2>1 DEF OwedIsTrue
  <2>4. PICK rec \in Record : rec = GC(r, room)
    BY RecordsMade
  <2>5. rec.type = "GC" /\ rec.res = r /\ rec.room = guest'[r]
    BY <1>3, <2>4 DEF GC
  <2>6. SinkShape'
    BY <1>1, <1>2, <2>1, <2>4, SendOne, SendShape DEF MirrorInv, OtherTypes
  <2>7. \A q \in Reservations : ~OwesOut(owed', q)
    BY <2>1 DEF OwesOut
  <2>8. Grows(ins, outs, ins', outs', owed')
    BY <1>2, <2>1, <2>7, Counts DEF Grows
  <2>9. ins'[r] = outs'[r] + 1
    BY <1>1, <1>2, <2>1, Counts
  <2>10. ~spoilt' => FollowsNext
    BY <1>1, <1>2, <1>3, <2>1, <2>4, <2>5, <2>7, <2>8, <2>9, PresentSent
  <2> QED
    BY <2>2, <2>3, <2>6, <2>10, EpisodeParts
<1>5. CASE how # "CHANGE"
  <2>1. ins' = [ins EXCEPT ![r] = @ + 1] /\ outs' = [outs EXCEPT ![r] = @ + 1]
    BY <1>5 DEF Move
  <2>2. /\ ins' \in [Reservations -> Nat] /\ outs' \in [Reservations -> Nat]
        /\ ins'[r] = ins[r] + 1 /\ outs'[r] = outs[r] + 1 /\ ins[r] = outs'[r] /\ ins'[r] = outs'[r] + 1
        /\ \A q \in Reservations \ {r} : ins'[q] = ins[q] /\ outs'[q] = outs[q]
        /\ \A q \in Reservations : ins[q] <= ins'[q] /\ outs[q] <= outs'[q]
    BY <1>1, <1>2, <2>1, Counts
  <2>3. HotelCounts'
    BY <1>1, <1>2, <1>3, <2>2, Counts DEF HotelCounts
  <2>4. CASE how = "IN_OUT"
    <3>1. Send(<<GI(r, room)>>) /\ UNCHANGED <<asked, spoilt>> /\ owed' = <<GO(r, guest[r])>>
      BY <2>4 DEF Move, Announce
    <3>2. PICK rec \in Record : rec = GI(r, room)
      BY RecordsMade
    <3>3. rec.type = "GI" /\ rec.res = r /\ rec.room = guest'[r]
      BY <1>3, <3>2 DEF GI
    <3>4. PICK due : due = GO(r, guest[r])
      OBVIOUS
    <3>5. owed' # <<>> /\ owed'[1] = due /\ due.type = "GO" /\ due.res = r /\ due.room = guest[r]
      BY <3>1, <3>4 DEF GO
    <3>6. OwedIsTrue'
      BY <1>1, <1>3, <3>5 DEF OwedIsTrue
    <3>7. SinkShape'
      BY <1>1, <1>2, <3>1, <3>2, SendOne, SendShape DEF MirrorInv, OtherTypes
    <3>8. \A q \in Reservations : OwesOut(owed', q) => q = r /\ ins[q] <= outs'[q]
      BY <1>2, <2>2, <3>5, Counts DEF OwesOut
    <3>9. Grows(ins, outs, ins', outs', owed')
      BY <1>2, <2>2, <3>8, Counts DEF Grows
    <3>10. owed'[1].room # guest'[r]
      BY <1>1, <1>3, <3>5
    <3>11. ~spoilt' => FollowsNext
      BY <1>1, <1>2, <1>3, <2>2, <3>1, <3>2, <3>3, <3>9, <3>10, PresentSent
    <3> QED
      BY <2>3, <3>6, <3>7, <3>11, EpisodeParts
  <2>5. CASE how = "OUT_IN"
    <3>1. Send(<<GO(r, guest[r])>>) /\ UNCHANGED <<asked, spoilt>> /\ owed' = <<GI(r, room)>>
      BY <2>5 DEF Move, Announce
    <3>2. PICK rec \in Record : rec = GO(r, guest[r])
      BY <1>3, RecordsMade
    <3>3. rec.type = "GO" /\ rec.res = r
      BY <3>2 DEF GO
    <3>4. PICK due : due = GI(r, room)
      OBVIOUS
    <3>5. owed' # <<>> /\ owed'[1] = due /\ due.type = "GI" /\ due.res = r /\ due.room = room
      BY <3>1, <3>4 DEF GI
    <3>6. OwedIsTrue'
      BY <1>1, <1>3, <3>5 DEF OwedIsTrue
    <3>7. SinkShape'
      BY <1>1, <1>2, <3>1, <3>2, SendOne, SendShape DEF MirrorInv, OtherTypes
    <3>8. \A q \in Reservations : ~OwesOut(owed', q)
      BY <3>5 DEF OwesOut
    <3>9. Grows(ins, outs, ins', outs', owed')
      BY <1>2, <2>2, <3>8, Counts DEF Grows
    <3>10. ASSUME ~spoilt' PROVE FollowsNext
      <4>1. PICK last : Foreseen(stay, Waiting(sink, inbox), OkStays, last) /\ Right(last, sink, guest, outs)
        BY <1>2, <3>1, <3>10 DEF Follows
      <4>2. ins[r] <= outs'[r]
        BY <1>2, <2>2, Counts
      <4>3. Right(last, sink, guest', outs') /\ ~Owns(last[r], outs'[r])
        BY <1>3, <2>2, <4>1, <4>2, LeftIsRight
      <4>4. NamedIn(last, rec) = {r}
        BY <3>3, StayMirrorAssumption DEF NamedIn
      <4>5. Heard(sink, rec) => \A q \in NamedIn(last, rec) : Owns(last[q], outs'[q]) => last[q].room # rec.room
        BY <4>3, <4>4
      <4> QED
        BY <1>1, <1>2, <3>1, <3>2, <3>3, <3>9, <4>1, <4>3, <4>5, GoneSent
    <3> QED
      BY <2>3, <3>6, <3>7, <3>10, EpisodeParts
  <2> QED
    BY <1>5, <2>4, <2>5
<1> QED
  BY <1>4, <1>5

\* The second record of a move.
LEMMA SecondHalfEpisode ==
    ASSUME MirrorInv, EpisodeInv, SecondHalf
    PROVE  EpisodeInv'
<1>1. /\ owed # <<>> /\ Send(owed) /\ owed' = <<>>
      /\ UNCHANGED <<guest, ins, outs, link, asked, spoilt, stay>>
  BY DEF SecondHalf, Announce
<1>2. HotelCounts /\ OwedIsTrue /\ SinkShape /\ (~spoilt => Follows(sink, inbox))
  BY DEF EpisodeInv
<1>3. PICK rec \in Record : owed = <<rec>>
  BY <1>1 DEF MirrorInv, HotelTypes
<1>4. /\ rec.res \in Reservations /\ guest[rec.res] # Away
      /\ \/ rec.type = "GI" /\ rec.room = guest[rec.res]
         \/ rec.type = "GO" /\ rec.room # guest[rec.res]
  BY <1>1, <1>2, <1>3 DEF OwedIsTrue
<1>5. PICK r \in Reservations : r = rec.res
  BY <1>4
<1>6. HotelCounts'
  BY <1>1, <1>2 DEF HotelCounts
<1>7. OwedIsTrue'
  BY <1>1 DEF OwedIsTrue
<1>8. SinkShape'
  BY <1>1, <1>2, <1>3, SendOne, SendShape DEF MirrorInv, OtherTypes
<1>9. \A q \in Reservations : ~OwesOut(owed', q)
  BY <1>1 DEF OwesOut
<1>10. Grows(ins, outs, ins', outs', owed')
  BY <1>1, <1>2, <1>9, Counts DEF Grows
<1>11. ins'[r] = outs'[r] + 1
  BY <1>1, <1>2, <1>4, <1>5, Counts
<1>12. CASE rec.type = "GI"
  <2>1. rec.room = guest'[r] /\ \A q \in Reservations \ {r} : guest'[q] = guest[q] /\ outs'[q] = outs[q]
    BY <1>1, <1>4, <1>5, <1>12
  <2>2. ~spoilt' => FollowsNext
    BY <1>1, <1>2, <1>3, <1>5, <1>9, <1>10, <1>11, <1>12, <2>1, PresentSent
  <2> QED
    BY <1>6, <1>7, <1>8, <2>2, EpisodeParts
<1>13. CASE rec.type = "GO"
  <2>1. ASSUME ~spoilt' PROVE FollowsNext
    <3>1. PICK last : Foreseen(stay, Waiting(sink, inbox), OkStays, last) /\ Right(last, sink, guest, outs)
      BY <1>1, <1>2, <2>1 DEF Follows
    <3>2. NamedIn(last, rec) = {r}
      BY <1>5, StayMirrorAssumption DEF NamedIn
    <3>3. last[r] \in OkStays[r]
      BY <3>1, WaitingNow, ForeseenEnds
    <3>4. OwesOut(owed, r)
      BY <1>3, <1>5, <1>13 DEF OwesOut
    <3>5. Owns(last[r], outs[r]) => last[r].room # rec.room
      BY <1>3, <3>3, <3>4 DEF OkStays, Allowed
    <3>6. Heard(sink, rec) => \A q \in NamedIn(last, rec) : Owns(last[q], outs'[q]) => last[q].room # rec.room
      BY <1>1, <3>2, <3>5
    <3>7. Right(last, sink, guest', outs')
      BY <1>1, <3>1
    <3> QED
      BY <1>1, <1>2, <1>3, <1>10, <1>13, <3>1, <3>6, <3>7, GoneSent
  <2> QED
    BY <1>6, <1>7, <1>8, <2>1, EpisodeParts
<1> QED
  BY <1>4, <1>12, <1>13

\* A happening of which no readable record arrives.
LEMMA GarbleEpisode ==
    ASSUME MirrorInv, EpisodeInv, NEW r \in Reservations, NEW room \in Rooms, Garble(r, room)
    PROVE  EpisodeInv'
<1>1. /\ guest' = [guest EXCEPT ![r] = room] /\ ins' = (IF guest[r] = Away THEN [ins EXCEPT ![r] = @ + 1] ELSE ins)
      /\ outs' = outs /\ owed' = owed /\ owed = <<>> /\ stay' = stay /\ link' = link /\ inbox' = inbox
      /\ spoilt' = (spoilt \/ sink.window)
  BY DEF Garble, Happens, OnContinuityFault
<1>2. HotelCounts /\ SinkShape /\ (~spoilt => Follows(sink, inbox))
  BY DEF EpisodeInv
<1>3. room # Away /\ sink \in Sinks /\ link \in {"UP", "DOWN"}
  BY StayMirrorAssumption DEF MirrorInv, Good, OtherTypes
<1>4. ins' \in [Reservations -> Nat] /\ \A q \in Reservations : ins[q] <= ins'[q]
  BY <1>1, <1>2, Counts
<1>5. HotelCounts'
  BY <1>1, <1>2, <1>3, Counts DEF HotelCounts
<1>6. OwedIsTrue'
  BY <1>1 DEF OwedIsTrue
<1>7. /\ sink'.buf = sink.buf /\ ~sink'.synced /\ sink'.phase = "READ" /\ (sink'.window <=> sink.window)
      /\ (asked => asked')
  <2>1. CASE link = "UP"
    <3>1. sink' = [sink EXCEPT !.synced = FALSE] /\ sink.phase = "READ"
      BY <2>1 DEF Garble, OnContinuityFault
    <3>2. asked'
      BY <2>1 DEF Garble, OnContinuityFault
    <3>3. sink'.buf = sink.buf /\ ~sink'.synced /\ sink'.phase = sink.phase /\ (sink'.window <=> sink.window)
      BY <1>3, <3>1 DEF Sinks
    <3> QED
      BY <3>1, <3>2, <3>3
  <2>2. CASE link = "DOWN"
    <3>1. sink' = sink /\ asked' = asked
      BY <2>2 DEF Garble, OnContinuityFault
    <3> QED
      BY <1>2, <2>2, <3>1 DEF SinkShape
  <2> QED
    BY <1>3, <2>1, <2>2
<1>8. SinkShape'
  BY <1>1, <1>2, <1>7 DEF SinkShape
<1>9. Grows(ins, outs, ins', outs', owed')
  <2>1. \A q \in Reservations : ~OwesOut(owed', q)
    BY <1>1 DEF OwesOut
  <2>2. \A q \in Reservations : outs[q] <= outs'[q]
    BY <1>1, <1>2, Counts
  <2> QED
    BY <1>1, <1>2, <1>4, <2>1, <2>2, Counts DEF Grows
<1>10. ASSUME ~spoilt' PROVE FollowsNext
  <2>1. ~spoilt /\ ~sink.window
    BY <1>1, <1>10
  <2>2. PICK last : Foreseen(stay, Waiting(sink, inbox), OkStays, last)
    BY <1>2, <2>1 DEF Follows
  <2>3. PICK recs \in Seq(Record) : recs = Waiting(sink, inbox)
    BY WaitingNow
  <2>4. \A q \in Reservations : OkStays[q] \subseteq Allowed(ins', outs', owed')[q]
    BY <1>9, AllowedGrows DEF OkStays
  <2>5. Foreseen(stay, recs, Allowed(ins', outs', owed'), last)
    BY <2>2, <2>3, <2>4, ForeseenWide
  <2>6. Waiting(sink', inbox') = recs
    BY <1>1, <1>7, <2>3 DEF Waiting
  <2>7. Right(last, sink', guest', outs')
    BY <1>7, <2>1, RightBarred
  <2> QED
    BY <1>1, <2>5, <2>6, <2>7 DEF FollowsNext
<1> QED
  BY <1>5, <1>6, <1>8, <1>10, EpisodeParts

\* Where the hotel is as it was.
LEMMA HotelSame ==
    ASSUME EpisodeInv, UNCHANGED hotelVars
    PROVE  /\ HotelCounts' /\ OwedIsTrue' /\ (~spoilt' => Follows(sink, inbox))
           /\ guest' = guest /\ outs' = outs /\ Allowed(ins', outs', owed') = OkStays
BY DEF EpisodeInv, hotelVars, HotelCounts, OwedIsTrue, OkStays

\* The link comes up or goes down: what was buffered is gone, and nothing is asked of the mirror until a sweep.
LEMMA LinkEpisode ==
    ASSUME MirrorInv, EpisodeInv, Connect \/ Drop
    PROVE  EpisodeInv'
<1>1. sink' = FreshSink /\ inbox' = inbox /\ stay' = stay /\ UNCHANGED hotelVars
  BY DEF Connect, Drop, dbVars
<1>2. /\ HotelCounts' /\ OwedIsTrue' /\ (~spoilt' => Follows(sink, inbox))
      /\ guest' = guest /\ outs' = outs /\ Allowed(ins', outs', owed') = OkStays
  BY <1>1, HotelSame
<1>3. ~sink'.synced /\ ~sink'.window /\ sink'.phase = "READ" /\ sink'.buf = <<>>
  BY <1>1 DEF FreshSink
<1>4. SinkShape'
  BY <1>3 DEF SinkShape
<1>5. ASSUME ~spoilt' PROVE FollowsNext
  <2>1. PICK last : Foreseen(stay, Waiting(sink, inbox), OkStays, last)
    BY <1>2, <1>5 DEF Follows
  <2>2. PICK recs \in Seq(Record) : recs = Waiting(sink, inbox)
    BY WaitingNow
  <2>3. PICK a \in Seq(Record), b \in Seq(Record) : a = Recs(inbox) /\ b = sink.buf
    BY RecsMade DEF MirrorInv, Good, Sinks
  <2>4. recs = a \o b
    BY <2>2, <2>3 DEF Waiting
  <2>5. Len(a) <= Len(recs) /\ \A k \in 1 .. Len(a) : a[k] = recs[k]
    <3>1. /\ Len(a \o b) = Len(a) + Len(b)
          /\ \A k \in 1 .. Len(a) + Len(b) : (a \o b)[k] = IF k <= Len(a) THEN a[k] ELSE b[k - Len(a)]
      BY ConcatProperties
    <3>2. Len(a) \in Nat /\ Len(b) \in Nat
      OBVIOUS
    <3> QED
      BY <2>4, <3>1, <3>2
  <2>6. PICK end : Foreseen(stay, a, OkStays, end)
    BY <2>1, <2>2, <2>5, ForeseenCut
  <2>7. Waiting(sink', inbox') = a
    BY <1>1, <1>3, <2>3, ConcatEmptySeq DEF Waiting
  <2>8. Right(end, sink', guest', outs')
    BY <1>3, RightBarred
  <2> QED
    BY <1>1, <1>2, <2>6, <2>7, <2>8 DEF FollowsNext
<1> QED
  BY <1>2, <1>4, <1>5, EpisodeParts

\* A sweep is asked for.
LEMMA AskEpisode ==
    ASSUME MirrorInv, EpisodeInv, AskForSweep
    PROVE  EpisodeInv'
<1>1. UNCHANGED <<sink, inbox, stay, link>> /\ UNCHANGED hotelVars
  BY DEF AskForSweep, dbVars
<1>2. asked'
  BY DEF AskForSweep
<1>3. /\ HotelCounts' /\ OwedIsTrue' /\ (~spoilt' => Follows(sink, inbox))
      /\ guest' = guest /\ outs' = outs /\ Allowed(ins', outs', owed') = OkStays
  BY <1>1, HotelSame
<1>4. SinkShape'
  BY <1>1, <1>2 DEF EpisodeInv, SinkShape
<1>5. ~spoilt' => FollowsNext
  BY <1>1, <1>3 DEF Follows, FollowsNext
<1> QED
  BY <1>3, <1>4, <1>5, EpisodeParts

\* DS: every room is to be swept, so whoever the mirror holds for present is in one of them.
LEMMA StartEpisode ==
    ASSUME MirrorInv, EpisodeInv, OnResyncStart
    PROVE  EpisodeInv'
<1>1. /\ ~sink.window /\ link = "UP" /\ inbox' = inbox /\ stay' = stay /\ link' = link /\ UNCHANGED hotelVars
      /\ sink' = [FreshSink EXCEPT !.synced = sink.synced, !.window = TRUE, !.todo = Rooms]
  BY DEF OnResyncStart, hotelVars, dbVars
<1>2. asked'
  BY DEF OnResyncStart
<1>3. /\ HotelCounts' /\ OwedIsTrue' /\ (~spoilt' => Follows(sink, inbox))
      /\ guest' = guest /\ outs' = outs /\ Allowed(ins', outs', owed') = OkStays
  BY <1>1, HotelSame
<1>4. sink'.window /\ sink'.phase = "READ" /\ sink'.buf = <<>> /\ sink'.todo = Rooms
  BY <1>1 DEF FreshSink
<1>5. SinkShape'
  BY <1>1, <1>2, <1>4 DEF SinkShape
<1>6. ASSUME ~spoilt' PROVE FollowsNext
  <2>1. PICK last : Foreseen(stay, Waiting(sink, inbox), OkStays, last)
    BY <1>3, <1>6 DEF Follows
  <2>2. Waiting(sink', inbox') = Waiting(sink, inbox)
    BY <1>1, <1>4 DEF Waiting, EpisodeInv, SinkShape
  <2>3. ASSUME NEW q \in Reservations, Owns(last[q], outs[q]) PROVE guest[q] \in Rooms
    <3>1. last[q] \in OkStays[q]
      BY <2>1, WaitingNow, ForeseenEnds
    <3>2. last[q] \in Stays /\ Fits(last[q], ins[q], outs[q])
      BY <3>1 DEF OkStays, Allowed
    <3>3. /\ ins[q] \in Nat /\ outs[q] \in Nat /\ guest[q] \in Rooms \cup {Away}
          /\ ins[q] = outs[q] + IF guest[q] = Away THEN 0 ELSE 1
      BY Counts DEF EpisodeInv
    <3>4. guest[q] = Away => ~Owns(last[q], outs[q])
      BY <3>2, <3>3, NotOwned
    <3> QED
      BY <2>3, <3>3, <3>4
  <2>4. Right(last, sink', guest', outs')
    BY <1>3, <1>4, <2>3 DEF Right, RightOf
  <2> QED
    BY <1>1, <1>3, <2>1, <2>2, <2>4 DEF FollowsNext
<1> QED
  BY <1>3, <1>5, <1>6, EpisodeParts

\* Publishing changes no record.
LEMMA RecsPublished ==
    ASSUME NEW box \in Seq(InboxRow)
    PROVE  Recs([i \in DOMAIN box |-> [box[i] EXCEPT !.claimable = TRUE]]) = Recs(box)
<1>1. ASSUME NEW row \in InboxRow PROVE [row EXCEPT !.claimable = TRUE].rec = row.rec
  BY DEF InboxRow
<1>2. \A i \in DOMAIN box : box[i] \in InboxRow
  OBVIOUS
<1> DEFINE out == [i \in DOMAIN box |-> [box[i] EXCEPT !.claimable = TRUE]]
<1>3. DOMAIN out = DOMAIN box /\ \A i \in DOMAIN box : out[i].rec = box[i].rec
  BY <1>1, <1>2
<1> HIDE DEF out
<1>4. Recs(out) = Recs(box)
  BY <1>3 DEF Recs
<1> QED
  BY <1>4 DEF out

\* DE: what was buffered waits in the inbox; every room has been swept, so the roster has whoever the mirror holds for
\* present, and the mirror his room.
LEMMA CompleteEpisode ==
    ASSUME MirrorInv, EpisodeInv, OnResyncComplete
    PROVE  EpisodeInv'
<1>1. sink.window /\ sink.todo = {} /\ link = "UP" /\ stay' = stay /\ link' = link /\ UNCHANGED hotelVars
  BY DEF OnResyncComplete
<1>2. /\ HotelCounts' /\ OwedIsTrue' /\ (~spoilt' => Follows(sink, inbox))
      /\ guest' = guest /\ outs' = outs /\ Allowed(ins', outs', owed') = OkStays
  BY <1>1, HotelSame
<1>3. sink \in Sinks /\ inbox \in Seq(InboxRow) /\ InOrder(inbox) /\ sink.buf \in Seq(Record)
  BY DEF MirrorInv, Good, Sinks
<1>4. ~sink'.window /\ sink'.buf = <<>> /\ sink'.roster = sink.roster
  <2> DEFINE f == [sink EXCEPT !.window = FALSE]
             g == [f EXCEPT !.synced = TRUE]
             h == [g EXCEPT !.buf = <<>>]
  <2>1. f \in Sinks /\ ~f.window /\ f.roster = sink.roster
    BY <1>3 DEF Sinks
  <2>2. sink' = [h EXCEPT !.phase = "PUBLISHED"]
    BY DEF OnResyncComplete
  <2> HIDE DEF f
  <2>3. g \in Sinks /\ ~g.window /\ g.roster = f.roster
    BY <2>1 DEF Sinks
  <2> HIDE DEF g
  <2>4. ~h.window /\ h.buf = <<>> /\ h.roster = g.roster /\ h = [h EXCEPT !.buf = <<>>]
    BY <2>3 DEF Sinks
  <2>5. ~[h EXCEPT !.phase = "PUBLISHED"].window /\ [h EXCEPT !.phase = "PUBLISHED"].buf = <<>>
    BY <2>3, <2>4 DEF Sinks
  <2>6. [h EXCEPT !.phase = "PUBLISHED"].roster = g.roster
    BY <2>3, <2>4 DEF Sinks
  <2> HIDE DEF h
  <2> QED
    BY <2>1, <2>2, <2>3, <2>5, <2>6
<1>5. SinkShape'
  BY <1>1, <1>4 DEF SinkShape
<1>6. ASSUME ~spoilt' PROVE FollowsNext
  <2>1. PICK last : Foreseen(stay, Waiting(sink, inbox), OkStays, last) /\ Right(last, sink, guest, outs)
    BY <1>2, <1>6 DEF Follows
  <2>2. PICK all \in Seq(InboxRow) : all = inbox \o Rows(sink.buf, FALSE)
    BY <1>3, StagedFollow
  <2>3. inbox' = [i \in DOMAIN all |-> [all[i] EXCEPT !.claimable = TRUE]]
    BY <2>2 DEF OnResyncComplete
  <2>4. Recs(inbox') = Recs(all)
    BY <2>3, RecsPublished
  <2>5. Recs(all) = Waiting(sink, inbox)
    BY <1>3, <2>2, RecsOfRows DEF Waiting
  <2>6. Waiting(sink, inbox) \o <<>> = Waiting(sink, inbox)
    BY WaitingNow, ConcatEmptySeq
  <2>7. Waiting(sink', inbox') = Waiting(sink, inbox)
    BY <1>4, <2>4, <2>5, <2>6 DEF Waiting
  <2>8. ASSUME NEW q \in Reservations PROVE RightOf(last[q], q, sink', guest, outs)
    <3>1. RightOf(last[q], q, sink, guest, outs)
      BY <2>1 DEF Right
    <3>2. Owns(last[q], outs[q]) => q \in sink.roster /\ last[q].room = guest[q]
      BY <1>1, <3>1 DEF RightOf
    <3> QED
      BY <1>4, <3>2 DEF RightOf
  <2>9. Right(last, sink', guest', outs')
    BY <1>2, <2>8 DEF Right
  <2> QED
    BY <1>1, <1>2, <2>1, <2>7, <2>9 DEF FollowsNext
<1> QED
  BY <1>2, <1>5, <1>6, EpisodeParts

\* The first row taken out.
LEMMA FirstRemoved ==
    ASSUME NEW box \in Seq(InboxRow), Len(box) > 0
    PROVE  /\ RemoveAt(box, 1) \in Seq(InboxRow)
           /\ Len(box) = Len(RemoveAt(box, 1)) + 1
           /\ \A i \in 1 .. Len(RemoveAt(box, 1)) : RemoveAt(box, 1)[i] = box[i + 1]
<1>1. PICK k \in 1 .. Len(box) : k = 1
  OBVIOUS
<1> DEFINE a == SubSeq(box, 1, k - 1)
           b == SubSeq(box, k + 1, Len(box))
<1>2. a \in Seq(InboxRow) /\ Len(a) = k - 1
  OBVIOUS
<1>3. b \in Seq(InboxRow) /\ Len(b) = Len(box) - k /\ \A i \in 1 .. Len(box) - k : b[i] = box[k + i]
  OBVIOUS
<1>4. RemoveAt(box, k) = a \o b
  BY DEF RemoveAt
<1> HIDE DEF a, b
<1>5. a = <<>>
  BY <1>1, <1>2, EmptySeq
<1>6. RemoveAt(box, 1) = b
  BY <1>1, <1>3, <1>4, <1>5, ConcatEmptySeq
<1>7. Len(box) = Len(b) + 1 /\ \A i \in 1 .. Len(b) : b[i] = box[i + 1]
  BY <1>1, <1>3
<1> QED
  BY <1>3, <1>6, <1>7

\* The stay engine: the mirror is the next one that was foreseen.
LEMMA ProcessEpisode ==
    ASSUME MirrorInv, EpisodeInv, ProcessNext
    PROVE  EpisodeInv'
<1>1. UNCHANGED <<sink, link, asked>> /\ UNCHANGED hotelVars /\ Claimable # {}
  BY DEF ProcessNext, feedVars
<1>2. /\ HotelCounts' /\ OwedIsTrue' /\ (~spoilt' => Follows(sink, inbox))
      /\ guest' = guest /\ outs' = outs /\ Allowed(ins', outs', owed') = OkStays
  BY <1>1, HotelSame
<1>3. sink \in Sinks /\ inbox \in Seq(InboxRow) /\ InOrder(inbox) /\ sink.buf \in Seq(Record)
  BY DEF MirrorInv, Good, Sinks
<1>4. Oldest = 1 /\ Len(inbox) > 0
  <2>1. Oldest \in 1 .. Len(inbox) /\ inbox[Oldest].claimable /\ \A j \in Claimable : Oldest <= j
    BY <1>1, <1>3, OldestThere
  <2>2. 1 \in DOMAIN inbox /\ Oldest \in DOMAIN inbox /\ Len(inbox) > 0
    BY <1>3, <2>1
  <2>3. inbox[1].claimable
    <3>1. CASE Oldest = 1
      BY <2>1, <3>1
    <3>2. CASE Oldest # 1
      <4>1. 1 < Oldest
        BY <2>1, <3>2
      <4> QED
        BY <1>3, <2>1, <2>2, <4>1 DEF InOrder
    <3> QED
      BY <3>1, <3>2
  <2>4. 1 \in Claimable
    BY <2>2, <2>3 DEF Claimable
  <2> QED
    BY <2>1, <2>2, <2>4
<1>5. SinkShape'
  BY <1>1 DEF EpisodeInv, SinkShape
<1>6. ASSUME ~spoilt' PROVE FollowsNext
  <2>1. PICK last : Foreseen(stay, Waiting(sink, inbox), OkStays, last) /\ Right(last, sink, guest, outs)
    BY <1>2, <1>6 DEF Follows
  <2>2. PICK recs \in Seq(Record) : recs = Waiting(sink, inbox)
    BY WaitingNow
  <2>3. PICK box \in Seq(InboxRow) : box = inbox'
    BY <1>3, <1>4, FirstRemoved DEF ProcessNext
  <2>4. Len(inbox) = Len(box) + 1 /\ \A i \in 1 .. Len(box) : box[i] = inbox[i + 1]
    BY <1>3, <1>4, <2>3, FirstRemoved DEF ProcessNext
  <2>5. PICK a \in Seq(Record), b \in Seq(Record), c \in Seq(Record) : a = Recs(inbox) /\ b = Recs(box) /\ c = sink.buf
    BY <1>3, RecsMade
  <2>6. PICK n \in Nat, m \in Nat : n = Len(box) /\ m = Len(c)
    OBVIOUS
  <2>7. Len(a) = n + 1 /\ \A i \in 1 .. n + 1 : a[i] = inbox[i].rec
    BY <1>3, <2>4, <2>5, <2>6, RecsMade
  <2>8. Len(b) = n /\ \A i \in 1 .. n : b[i] = box[i].rec
    BY <2>5, <2>6, RecsMade
  <2>9. \A i \in 1 .. n : b[i] = a[i + 1]
    BY <2>4, <2>6, <2>7, <2>8
  <2>10. PICK rest \in Seq(Record) : rest = b \o c
    BY ConcatProperties
  <2>11. recs = a \o c /\ rest = Waiting(sink', inbox')
    BY <1>1, <2>2, <2>3, <2>5, <2>10 DEF Waiting
  <2>12. Len(rest) = n + m /\ \A i \in 1 .. n + m : rest[i] = IF i <= n THEN b[i] ELSE c[i - n]
    <3>1. /\ Len(b \o c) = Len(b) + Len(c)
          /\ \A i \in 1 .. Len(b) + Len(c) : (b \o c)[i] = IF i <= Len(b) THEN b[i] ELSE c[i - Len(b)]
      BY ConcatProperties
    <3>2. /\ Len(b \o c) = n + m
          /\ \A i \in 1 .. n + m : (b \o c)[i] = IF i <= n THEN b[i] ELSE c[i - n]
      BY <2>6, <2>8, <3>1, Zenon
    <3> QED
      BY <2>10, <3>2, Zenon
  <2>13. Len(recs) = n + 1 + m /\ \A i \in 1 .. n + 1 + m : recs[i] = IF i <= n + 1 THEN a[i] ELSE c[i - (n + 1)]
    <3>1. /\ Len(a \o c) = Len(a) + Len(c)
          /\ \A i \in 1 .. Len(a) + Len(c) : (a \o c)[i] = IF i <= Len(a) THEN a[i] ELSE c[i - Len(a)]
      BY ConcatProperties
    <3>2. /\ Len(a \o c) = n + 1 + m
          /\ \A i \in 1 .. n + 1 + m : (a \o c)[i] = IF i <= n + 1 THEN a[i] ELSE c[i - (n + 1)]
      BY <2>6, <2>7, <3>1, Zenon
    <3> QED
      BY <2>11, <3>2, Zenon
  <2>14. Len(recs) = Len(rest) + 1
    BY <2>12, <2>13
  <2>15. ASSUME NEW k \in 1 .. Len(rest) PROVE rest[k] = recs[k + 1]
    <3>1. k \in 1 .. n + m
      BY <2>12
    <3>2. CASE k <= n
      <4>1. k \in 1 .. n /\ k + 1 \in 1 .. n + 1 + m /\ k + 1 <= n + 1
        BY <3>1, <3>2
      <4>2. rest[k] = b[k]
        BY <3>1, <3>2, <2>12
      <4>3. recs[k + 1] = a[k + 1]
        BY <4>1, <2>13
      <4> QED
        BY <4>1, <4>2, <4>3, <2>9
    <3>3. CASE ~(k <= n)
      <4>1. (k + 1) - (n + 1) = k - n /\ k + 1 \in 1 .. n + 1 + m /\ ~(k + 1 <= n + 1)
        BY <3>1, <3>3
      <4>2. rest[k] = c[k - n]
        BY <3>1, <3>3, <2>12
      <4>3. recs[k + 1] = c[(k + 1) - (n + 1)]
        BY <4>1, <2>13
      <4> QED
        BY <4>1, <4>2, <4>3
    <3> QED
      BY <3>2, <3>3
  <2>16. Foreseen(After(stay, recs[1]), rest, OkStays, last)
    BY <2>1, <2>2, <2>14, <2>15, ForeseenApplied
  <2>17. recs[1] = inbox[1].rec
    <3>1. 1 \in 1 .. n + 1 /\ 1 \in 1 .. n + 1 + m /\ 1 <= n + 1
      OBVIOUS
    <3> QED
      BY <3>1, <2>7, <2>13
  <2>18. stay' = After(stay, recs[1])
    BY <1>4, <2>17 DEF ProcessNext, After, Named, NamedIn
  <2>19. Right(last, sink', guest', outs')
    BY <1>1, <1>2, <2>1
  <2> QED
    BY <1>2, <2>11, <2>16, <2>18, <2>19 DEF FollowsNext
<1> QED
  BY <1>2, <1>5, <1>6, EpisodeParts

-----------------------------------------------------------------------------
(* The reconciliation *)

\* Check-outs are admitted of guests who have left what the last mirror has of them.
ClosedCase(st, recs, last, ok, in, out, w, more) ==
    /\ recs \in Seq(Record) /\ more \in Seq(Record) /\ ok = Allowed(in, out, w)
    /\ Foreseen(st, recs, ok, last)
    /\ in \in [Reservations -> Nat] /\ out \in [Reservations -> Nat]
    /\ \A i \in 1 .. Len(more) : /\ more[i].type = "GO" /\ more[i].res \in Reservations
                                 /\ ~Owns(last[more[i].res], out[more[i].res])

\* The mirror after them keeps every episode whose guest is there.
Closes(st, recs, ok, last, out) ==
    \E new : Foreseen(st, recs, ok, new) /\ \A q \in Reservations : Owns(new[q], out[q]) => new[q] = last[q]

\* One check-out more.
LEMMA ClosesNext ==
    ASSUME NEW st, NEW recs \in Seq(Record), NEW in \in [Reservations -> Nat], NEW out \in [Reservations -> Nat], NEW w,
           NEW last, NEW rec \in Record, rec.type = "GO", rec.res \in Reservations, ~Owns(last[rec.res], out[rec.res]),
           Closes(st, recs, Allowed(in, out, w), last, out)
    PROVE  Closes(st, Append(recs, rec), Allowed(in, out, w), last, out)
<1>1. PICK ok : ok = Allowed(in, out, w)
  OBVIOUS
<1>2. PICK new : Foreseen(st, recs, ok, new) /\ \A q \in Reservations : Owns(new[q], out[q]) => new[q] = last[q]
  BY <1>1 DEF Closes
<1>3. NamedIn(new, rec) = {rec.res}
  BY StayMirrorAssumption DEF NamedIn
<1>4. \A q \in NamedIn(new, rec) : ~Owns(new[q], out[q])
  BY <1>2, <1>3
<1>5. GoneCase(st, recs, ok, new, in, out, w, rec)
  BY <1>1, <1>2, <1>4 DEF GoneCase
<1>6. /\ Foreseen(st, Append(recs, rec), Allowed(in, out, w), After(new, rec))
      /\ \A q \in Reservations : Owns(After(new, rec)[q], out[q]) => After(new, rec)[q] = new[q]
  BY <1>5, GoneFollows
<1>7. PICK next : next = After(new, rec)
  OBVIOUS
<1>8. \A q \in Reservations : Owns(next[q], out[q]) => next[q] = last[q]
  <2>1. ASSUME NEW q \in Reservations, Owns(next[q], out[q]) PROVE next[q] = last[q]
    <3>1. next[q] = new[q]
      BY <1>6, <1>7, <2>1
    <3>2. Owns(new[q], out[q])
      BY <2>1, <3>1
    <3> QED
      BY <1>2, <3>1, <3>2
  <2> QED
    BY <2>1
<1> QED
  BY <1>6, <1>7, <1>8 DEF Closes

\* All of them.
LEMMA ClosesAll ==
    ASSUME NEW st, NEW recs, NEW last, NEW ok, NEW in, NEW out, NEW w, NEW more,
           ClosedCase(st, recs, last, ok, in, out, w, more)
    PROVE  Closes(st, recs \o more, ok, last, out)
<1> DEFINE S == {k \in Nat : k <= Len(more) => Closes(st, recs \o SubSeq(more, 1, k), ok, last, out)}
<1>0. /\ recs \in Seq(Record) /\ more \in Seq(Record) /\ ok = Allowed(in, out, w) /\ Foreseen(st, recs, ok, last)
      /\ in \in [Reservations -> Nat] /\ out \in [Reservations -> Nat] /\ Len(more) \in Nat
  BY DEF ClosedCase
<1>1. 0 \in S
  <2>1. SubSeq(more, 1, 0) = <<>>
    <3>1. 1 \in Int /\ 0 \in Int /\ 0 < 1
      OBVIOUS
    <3> QED
      BY <3>1, SubSeqEmpty
  <2>2. recs \o SubSeq(more, 1, 0) = recs
    BY <1>0, <2>1, ConcatEmptySeq
  <2>3. Closes(st, recs, ok, last, out)
    BY <1>0 DEF Closes
  <2> QED
    BY <2>2, <2>3
<1>2. ASSUME NEW k \in S PROVE k + 1 \in S
  <2> SUFFICES ASSUME k + 1 <= Len(more) PROVE Closes(st, recs \o SubSeq(more, 1, k + 1), ok, last, out)
    OBVIOUS
  <2>0. k \in Nat /\ k <= Len(more)
    BY <1>0
  <2>1. PICK front \in Seq(Record) : front = SubSeq(more, 1, k)
    <3>1. \A i \in 1 .. k : more[i] \in Record
      BY <1>0, <2>0
    <3>2. 1 \in Int /\ k \in Int
      BY <2>0
    <3> QED
      BY <3>1, <3>2, SubSeqProperties
  <2>2. PICK rec \in Record : rec = more[k + 1]
    BY <1>0, <2>0
  <2>3. rec.type = "GO" /\ rec.res \in Reservations /\ ~Owns(last[rec.res], out[rec.res])
    <3>1. k + 1 \in 1 .. Len(more)
      BY <1>0, <2>0
    <3> QED
      BY <2>2, <3>1 DEF ClosedCase
  <2>4. SubSeq(more, 1, k + 1) = front \o <<rec>>
    <3>1. PICK n \in 1 .. Len(more) : n = k + 1
      BY <1>0, <2>0
    <3>2. 1 \in 1 .. Len(more) /\ n - 1 = k
      BY <1>0, <2>0, <3>1
    <3>3. SubSeq(more, 1, n) = SubSeq(more, 1, n - 1) \o <<more[n]>>
      BY <1>0, <3>1, <3>2, SubSeqRecursiveSecond
    <3> QED
      BY <2>1, <2>2, <3>1, <3>2, <3>3
  <2>5. PICK all \in Seq(Record) : all = recs \o front
    BY <1>0, ConcatProperties
  <2>6. recs \o SubSeq(more, 1, k + 1) = Append(all, rec)
    <3>1. front \o <<rec>> = Append(front, rec)
      BY AppendIsConcat
    <3>2. recs \o Append(front, rec) = Append(recs \o front, rec)
      BY <1>0, AppendBehind
    <3> QED
      BY <2>4, <2>5, <3>1, <3>2
  <2>7. Closes(st, all, Allowed(in, out, w), last, out)
    BY <1>0, <2>0, <2>1, <2>5
  <2>8. Closes(st, Append(all, rec), Allowed(in, out, w), last, out)
    BY <1>0, <2>3, <2>7, ClosesNext
  <2> QED
    BY <1>0, <2>6, <2>8
<1> HIDE DEF S
<1>3. S = Nat
  <2>1. S \in SUBSET Nat
    BY DEF S
  <2> QED
    BY <1>1, <1>2, <2>1, NatSetInduction
<1>4. SubSeq(more, 1, Len(more)) = more
  BY <1>0, SubSeqFull
<1>5. PICK n \in Nat : n = Len(more)
  BY <1>0
<1>6. n \in S /\ n <= Len(more)
  BY <1>3, <1>5
<1>7. Closes(st, recs \o SubSeq(more, 1, n), ok, last, out)
  BY <1>6 DEF S
<1> QED
  BY <1>4, <1>5, <1>7

\* The check-outs a roster adds are of reservations it does not list.
LEMMA CheckoutsAbsent ==
    ASSUME MirrorInv
    PROVE  \A i \in 1 .. Len(RosterCheckouts) :
              RosterCheckouts[i].type = "GO" /\ RosterCheckouts[i].res \in Reservations \ sink.roster
<1>1. PICK T : T = {r \in AbsentFromRoster : ~CheckoutWaits(r)}
  OBVIOUS
<1>2. T \in SUBSET (Reservations \ sink.roster)
  BY <1>1 DEF AbsentFromRoster
<1>3. IsFiniteSet(T)
  BY <1>2, StayMirrorAssumption, FS_Subset
<1>4. PICK order \in Seq(T) : order = SetToSeq(T)
  BY <1>3, OrderOfSet
<1>5. RosterCheckouts = [i \in DOMAIN order |-> GO(order[i], stay[order[i]].room)]
  BY <1>1, <1>4 DEF RosterCheckouts
<1>6. DOMAIN order = 1 .. Len(order) /\ Len(order) \in Nat /\ \A i \in DOMAIN order : order[i] \in T
  OBVIOUS
<1>7. Len(RosterCheckouts) = Len(order)
  BY <1>5, <1>6
<1>8. ASSUME NEW i \in DOMAIN order
      PROVE  RosterCheckouts[i].type = "GO" /\ RosterCheckouts[i].res = order[i]
  BY <1>5 DEF GO
<1> QED
  BY <1>2, <1>6, <1>7, <1>8

\* The roster lists whoever the last mirror holds for present, so what it adds closes no episode whose guest is there.
LEMMA ReconcileEpisode ==
    ASSUME MirrorInv, EpisodeInv, Reconcile
    PROVE  EpisodeInv'
<1>1. /\ sink.phase = "PUBLISHED" /\ stay' = stay /\ link' = link /\ UNCHANGED hotelVars
      /\ sink' = [FreshSink EXCEPT !.synced = TRUE]
  BY DEF Reconcile
<1>2. /\ HotelCounts' /\ OwedIsTrue' /\ (~spoilt' => Follows(sink, inbox))
      /\ guest' = guest /\ outs' = outs /\ Allowed(ins', outs', owed') = OkStays
  BY <1>1, HotelSame
<1>3. sink.synced /\ ~sink.window /\ sink.buf = <<>> /\ link # "DOWN"
  BY <1>1 DEF MirrorInv, Good, EpisodeInv, SinkShape
<1>4. ~sink'.window /\ sink'.phase = "READ" /\ sink'.buf = <<>>
  BY <1>1 DEF FreshSink
<1>5. SinkShape'
  BY <1>1, <1>3, <1>4 DEF SinkShape
<1>6. ASSUME ~spoilt' PROVE FollowsNext
  <2>1. PICK last : Foreseen(stay, Waiting(sink, inbox), OkStays, last) /\ Right(last, sink, guest, outs)
    BY <1>2, <1>6 DEF Follows
  <2>2. \A q \in Reservations : Owns(last[q], outs[q]) => q \in sink.roster /\ last[q].room = guest[q]
    BY <1>1, <1>3, <2>1 DEF Right, RightOf
  <2>3. PICK recs \in Seq(Record) : recs = Recs(inbox)
    BY RecsMade DEF MirrorInv, Good
  <2>4. Waiting(sink, inbox) = recs
    BY <1>3, <2>3, ConcatEmptySeq DEF Waiting
  <2>5. Closes(stay, Waiting(sink', inbox'), OkStays, last, outs)
    <3>1. CASE Completed
      <4>1. PICK more \in Seq(Record) : more = RosterCheckouts
        BY CheckoutRecords
      <4>2. \A i \in 1 .. Len(more) : more[i].type = "GO" /\ more[i].res \in Reservations \ sink.roster
        BY <4>1, CheckoutsAbsent
      <4>3. ins \in [Reservations -> Nat] /\ outs \in [Reservations -> Nat]
        BY DEF MirrorInv, HotelTypes
      <4>4. ClosedCase(stay, recs, last, OkStays, ins, outs, owed, more)
        BY <2>1, <2>2, <2>4, <4>2, <4>3 DEF ClosedCase, OkStays
      <4>5. Closes(stay, recs \o more, OkStays, last, outs)
        BY <4>4, ClosesAll
      <4>6. PICK box \in Seq(InboxRow) : box = inbox
        BY DEF MirrorInv, Good
      <4>7. PICK yes \in BOOLEAN : yes = TRUE
        OBVIOUS
      <4>8. Recs(box \o Rows(more, yes)) = Recs(box) \o more
        BY RecsOfRows
      <4>9. inbox' = box \o Rows(more, yes)
        BY <3>1, <4>1, <4>6, <4>7 DEF Reconcile
      <4>10. Recs(inbox') = recs \o more
        BY <2>3, <4>6, <4>8, <4>9
      <4>11. (recs \o more) \o <<>> = recs \o more
        BY ConcatProperties, ConcatEmptySeq
      <4>12. Waiting(sink', inbox') = recs \o more
        BY <1>4, <4>10, <4>11 DEF Waiting
      <4> QED
        BY <4>5, <4>12
    <3>2. CASE ~Completed
      <4>1. inbox' = inbox
        BY <3>2 DEF Reconcile
      <4>2. Waiting(sink', inbox') = recs
        BY <1>3, <1>4, <2>4, <4>1 DEF Waiting
      <4> QED
        BY <2>1, <2>4, <4>2 DEF Closes
    <3> QED
      BY <3>1, <3>2
  <2>6. PICK new : /\ Foreseen(stay, Waiting(sink', inbox'), OkStays, new)
                   /\ \A q \in Reservations : Owns(new[q], outs[q]) => new[q] = last[q]
    BY <2>5 DEF Closes
  <2>7. \A q \in Reservations : Owns(new[q], outs[q]) => new[q].room = guest[q]
    BY <2>2, <2>6
  <2>8. Right(new, sink', guest', outs')
    BY <1>2, <1>4, <2>7 DEF Right, RightOf
  <2> QED
    BY <1>1, <1>2, <2>6, <2>8 DEF FollowsNext
<1> QED
  BY <1>2, <1>5, <1>6, EpisodeParts

-----------------------------------------------------------------------------
(* The sweep of a room *)

\* The last mirror is right, and the guests done have been listed and are in their rooms.
Heeds(s, box, done) ==
    \E last : /\ Foreseen(stay, Waiting(s, box), OkStays, last) /\ Right(last, s, guest, outs)
              /\ \A q \in done : q \in s.roster /\ (Owns(last[q], outs[q]) => last[q].room = guest[q])

\* The sweep lists one guest.
LEMMA SweptOne ==
    ASSUME MirrorInv, HotelCounts, OwedIsTrue, NEW st, Good(st.sink, st.inbox), st.sink.window,
           NEW done \in SUBSET Reservations, Heeds(st.sink, st.inbox, done),
           NEW r \in Reservations, guest[r] # Away, NEW rec \in Record, rec = GI(r, guest[r])
    PROVE  Heeds(ReadOne(st, rec).sink, ReadOne(st, rec).inbox, done \cup {r})
<1>1. PICK s, t, box, out : s = st.sink /\ t = ReadOne(st, rec).sink /\ box = st.inbox /\ out = ReadOne(st, rec).inbox
  OBVIOUS
<1>2. SameGates(s, t)
  BY <1>1, ReadOneGood
<1>3. /\ t.roster = RosterAfter(s, rec)
      /\ Waiting(t, out) = IF Heard(s, rec) THEN Append(Waiting(s, box), rec) ELSE Waiting(s, box)
  BY <1>1, ReadOneWaits
<1>4. rec.type = "GI" /\ rec.res = r /\ rec.room = guest[r] /\ r # NoRes
  BY StayMirrorAssumption DEF GI
<1>5. Heard(s, rec)
  BY <1>1, <1>4 DEF Heard, IsVacancy
<1>6. t.roster = s.roster \cup {r} /\ Waiting(t, out) = Append(Waiting(s, box), rec)
  BY <1>1, <1>3, <1>4, <1>5 DEF RosterAfter
<1>7. PICK last : /\ Foreseen(stay, Waiting(s, box), OkStays, last) /\ Right(last, s, guest, outs)
                  /\ \A q \in done : q \in s.roster /\ (Owns(last[q], outs[q]) => last[q].room = guest[q])
  BY <1>1 DEF Heeds
<1>8. PICK recs \in Seq(Record) : recs = Waiting(s, box)
  BY <1>1, WaitingRecords DEF Good, Sinks
<1>9. s.phase # "PUBLISHED"
  BY <1>1 DEF Good
<1>10. ins \in [Reservations -> Nat] /\ outs \in [Reservations -> Nat] /\ ins[r] = outs[r] + 1
  BY DEF MirrorInv, HotelTypes, HotelCounts
<1>11. OwesOut(owed, r) => owed[1].room # guest[r]
  BY DEF OwedIsTrue, OwesOut
<1>12. PresentCase(stay, recs, OkStays, last, ins, outs, owed, guest, r, rec, s, t)
  <2>1. \A q \in Reservations : OkStays[q] \subseteq Allowed(ins, outs, owed)[q]
    BY DEF OkStays
  <2>2. t.roster = IF s.window THEN s.roster \cup {r} ELSE s.roster
    BY <1>1, <1>6
  <2>3. \A q \in Reservations \ {r} : RightOf(last[q], q, s, guest, outs)
    BY <1>7 DEF Right
  <2>4. rec.type \in {"GI", "GC"}
    BY <1>4
  <2> QED
    BY <1>2, <1>4, <1>7, <1>8, <1>9, <1>10, <1>11, <2>1, <2>2, <2>3, <2>4 DEF PresentCase
<1>13. PICK new : new = After(last, rec)
  OBVIOUS
<1>14. /\ Foreseen(stay, Append(recs, rec), OkStays, new)
       /\ Right(new, t, guest, outs)
       /\ Owns(new[r], outs[r]) => new[r].room = guest[r]
       /\ \A q \in Reservations \ {r} : new[q] = last[q]
  BY <1>12, <1>13, PresentFollows DEF OkStays
<1>15. \A q \in done \cup {r} : q \in t.roster /\ (Owns(new[q], outs[q]) => new[q].room = guest[q])
  BY <1>6, <1>7, <1>14
<1> QED
  BY <1>1, <1>6, <1>8, <1>14, <1>15 DEF Heeds

\* The sweep lists the guests of a room one by one.
LEMMA SweptAll ==
    ASSUME MirrorInv, HotelCounts, OwedIsTrue, sink.window, Follows(sink, inbox), NEW room \in Rooms,
           NEW here \in SUBSET Reservations, \A q \in here : guest[q] = room, NEW order \in Seq(here),
           NEW recs \in Seq(Record), Len(recs) = Len(order), \A i \in 1 .. Len(order) : recs[i] = GI(order[i], room),
           NEW f, Reads(f, recs, Len(recs))
    PROVE  \A k \in 0 .. Len(recs) : Heeds(f[k].sink, f[k].inbox, {order[i] : i \in 1 .. k})
<1> DEFINE S == {k \in Nat : k <= Len(recs) => Heeds(f[k].sink, f[k].inbox, {order[i] : i \in 1 .. k})}
<1>0. /\ \A n \in 0 .. Len(recs) : Good(f[n].sink, f[n].inbox) /\ SameGates(sink, f[n].sink)
      /\ Len(recs) \in Nat
  BY ReadsGood DEF MirrorInv
<1>1. 0 \in S
  <2>1. f[0] = Before
    BY DEF Reads
  <2>2. f[0].sink = sink /\ f[0].inbox = inbox
    BY <2>1 DEF Before
  <2>3. {order[i] : i \in 1 .. 0} = {}
    OBVIOUS
  <2>4. Heeds(sink, inbox, {})
    BY DEF Heeds, Follows
  <2> QED
    BY <2>2, <2>3, <2>4
<1>2. ASSUME NEW k \in S PROVE k + 1 \in S
  <2> SUFFICES ASSUME k + 1 <= Len(recs)
               PROVE  Heeds(f[k + 1].sink, f[k + 1].inbox, {order[i] : i \in 1 .. k + 1})
    OBVIOUS
  <2>0. k \in 0 .. Len(recs) /\ k + 1 \in 1 .. Len(recs) /\ k <= Len(recs) /\ k \in Nat
    BY <1>0
  <2>1. f[k + 1] = ReadOne(f[k], recs[k + 1])
    BY <1>0, <2>0 DEF Reads
  <2>2. PICK st : st = f[k]
    OBVIOUS
  <2>3. Good(st.sink, st.inbox) /\ st.sink.window
    BY <1>0, <2>0, <2>2 DEF SameGates
  <2>4. PICK done : done = {order[i] : i \in 1 .. k}
    OBVIOUS
  <2>5. done \in SUBSET Reservations
    BY <2>0, <2>4
  <2>6. Heeds(st.sink, st.inbox, done)
    BY <2>0, <2>2, <2>4
  <2>7. PICK r \in Reservations : r = order[k + 1]
    BY <2>0
  <2>8. guest[r] = room /\ room # Away
    BY <2>0, <2>7, StayMirrorAssumption
  <2>9. PICK rec \in Record : rec = recs[k + 1]
    BY <2>0
  <2>10. rec = GI(r, guest[r])
    BY <2>0, <2>7, <2>8, <2>9
  <2>11. Heeds(ReadOne(st, rec).sink, ReadOne(st, rec).inbox, done \cup {r})
    BY <2>3, <2>5, <2>6, <2>8, <2>10, SweptOne
  <2>12. {order[i] : i \in 1 .. k + 1} = done \cup {r}
    <3>1. 1 .. k + 1 = (1 .. k) \cup {k + 1}
      BY <2>0
    <3> QED
      BY <2>4, <2>7, <3>1
  <2> QED
    BY <2>1, <2>2, <2>9, <2>11, <2>12
<1> HIDE DEF S
<1>3. S = Nat
  <2>1. S \in SUBSET Nat
    BY DEF S
  <2> QED
    BY <1>1, <1>2, <2>1, NatSetInduction
<1> SUFFICES ASSUME NEW k \in 0 .. Len(recs) PROVE Heeds(f[k].sink, f[k].inbox, {order[i] : i \in 1 .. k})
  OBVIOUS
<1>4. k \in S /\ k <= Len(recs)
  BY <1>0, <1>3
<1> QED
  BY <1>4 DEF S

\* The order of a finite set leaves none of its members out.
LEMMA OrderHasAll ==
    ASSUME NEW T, IsFiniteSet(T)
    PROVE  /\ SetToSeq(T) \in Seq(T)
           /\ \A x \in T : \E i \in 1 .. Len(SetToSeq(T)) : SetToSeq(T)[i] = x
<1>1. Cardinality(T) \in Nat /\ ExistsBijection(1 .. Cardinality(T), T)
  BY FS_CardinalityType
<1>2. PICK f \in Bijection(1 .. Cardinality(T), T) : TRUE
  BY <1>1 DEF ExistsBijection
<1>3. f \in [1 .. Cardinality(T) -> T] /\ IsInjective(f)
  BY <1>2 DEF Bijection, Injection, IsInjective
<1>4. SetToSeq(T) \in [1 .. Cardinality(T) -> T] /\ IsInjective(SetToSeq(T))
  BY <1>3 DEF SetToSeq
<1>5. PICK g : g = SetToSeq(T)
  OBVIOUS
<1>6. PICK n \in Nat : n = Cardinality(T)
  BY <1>1
<1>7. g \in [1 .. n -> T] /\ g \in Injection(1 .. n, T)
  BY <1>4, <1>5, <1>6 DEF Injection
<1>8. Cardinality(1 .. n) = n
  BY FS_Interval
<1>9. g \in Surjection(1 .. n, T)
  <2>1. PICK A : A = 1 .. n
    OBVIOUS
  <2>2. g \in Injection(A, T) /\ Cardinality(A) = Cardinality(T)
    BY <1>6, <1>7, <1>8, <2>1
  <2>3. g \in Surjection(A, T)
    BY <2>2, FS_Injection
  <2> QED
    BY <2>1, <2>3
<1>10. \A x \in T : \E i \in 1 .. n : g[i] = x
  BY <1>9 DEF Surjection
<1>11. g \in Seq(T) /\ Len(g) = n
  BY <1>7
<1> QED
  BY <1>5, <1>10, <1>11

\* Reading one record.
LEMMA ReadAllOne ==
    ASSUME NEW rec \in Record
    PROVE  ReadAll(<<rec>>) = ReadOne(Before, rec)
<1>1. PICK recs \in Seq(Record) : recs = <<rec>>
  BY OneRecord
<1>2. Len(recs) = 1 /\ recs[1] = rec
  BY <1>1
<1>3. Reads(Passed(recs), recs, 1)
  BY <1>2, ReadsExists DEF Reads, Passed, Before
<1>4. ReadAll(recs) = Passed(recs)[1]
  BY <1>2 DEF ReadAll, Passed
<1>5. Passed(recs)[0] = Before
  BY <1>3 DEF Reads
<1>6. Passed(recs)[1] = ReadOne(Passed(recs)[0], recs[1])
  BY <1>3 DEF Reads
<1> QED
  BY <1>1, <1>2, <1>4, <1>5, <1>6

\* The sweep says that a room has no guest: nothing is added to what waits.
LEMMA SweptNone ==
    ASSUME MirrorInv, SinkShape, sink.window, Follows(sink, inbox), NEW rec \in Record, rec.type = "GO", rec.res = NoRes
    PROVE  Heeds(ReadAll(<<rec>>).sink, ReadAll(<<rec>>).inbox, {})
<1>1. PICK st : st = Before
  OBVIOUS
<1>2. st.sink = sink /\ st.inbox = inbox
  BY <1>1 DEF Before
<1>3. Good(st.sink, st.inbox) /\ st.sink.window
  BY <1>2 DEF MirrorInv
<1>4. ~Heard(sink, rec)
  BY DEF Heard, IsVacancy, SinkShape
<1>5. PICK t, out : t = ReadOne(st, rec).sink /\ out = ReadOne(st, rec).inbox
  OBVIOUS
<1>6. SameGates(sink, t)
  BY <1>2, <1>3, <1>5, ReadOneGood
<1>7. t.roster = RosterAfter(sink, rec) /\ Waiting(t, out) = Waiting(sink, inbox)
  BY <1>2, <1>3, <1>4, <1>5, ReadOneWaits
<1>8. t.roster = sink.roster
  BY <1>4, <1>7 DEF RosterAfter
<1>9. PICK last : Foreseen(stay, Waiting(sink, inbox), OkStays, last) /\ Right(last, sink, guest, outs)
  BY DEF Follows
<1>10. Right(last, t, guest, outs)
  BY <1>6, <1>8, <1>9, RightKept
<1>11. Heeds(t, out, {})
  BY <1>7, <1>9, <1>10 DEF Heeds
<1> QED
  BY <1>1, <1>5, <1>11, ReadAllOne

\* The sweep of a room: its guests are on the roster then, and in the room if the last mirror holds them for present.
LEMMA SweepEpisode ==
    ASSUME MirrorInv, EpisodeInv, NEW room \in Rooms, SweepRoom(room)
    PROVE  EpisodeInv'
<1>1. link = "UP" /\ sink.window /\ stay' = stay /\ link' = link /\ asked' = asked /\ UNCHANGED hotelVars
  BY DEF SweepRoom
<1>2. /\ HotelCounts' /\ OwedIsTrue' /\ (~spoilt' => Follows(sink, inbox))
      /\ guest' = guest /\ outs' = outs /\ Allowed(ins', outs', owed') = OkStays
  BY <1>1, HotelSame
<1>3. PICK here \in SUBSET Reservations : here = {r \in Reservations : guest[r] = room}
  OBVIOUS
<1>4. PICK recs : recs = IF here = {} THEN <<GO(NoRes, room)>>
                         ELSE LET order == SetToSeq(here) IN [i \in DOMAIN order |-> GI(order[i], room)]
  OBVIOUS
<1>5. recs \in Seq(Record)
  BY <1>4, SweepRecords
<1>6. PICK s, out : s = ReadAll(recs).sink /\ out = ReadAll(recs).inbox
  OBVIOUS
<1>7. sink' = [s EXCEPT !.todo = @ \ {room}] /\ inbox' = out
  BY <1>3, <1>4, <1>6 DEF SweepRoom
<1>8. Good(s, out) /\ SameGates(sink, s)
  BY <1>5, <1>6, ReadAllGood DEF MirrorInv
<1>9. /\ sink'.buf = s.buf /\ sink'.roster = s.roster /\ sink'.todo = s.todo \ {room}
      /\ sink'.window = s.window /\ sink'.phase = s.phase
  <2>1. s \in Sinks
    BY <1>8 DEF Good
  <2> QED
    BY <1>7, <2>1 DEF Sinks
<1>10. s.window /\ s.phase # "PUBLISHED"
  BY <1>1, <1>8 DEF SameGates, Good
<1>11. SinkShape'
  <2>1. sink'.window
    BY <1>9, <1>10
  <2>2. asked'
    BY <1>1 DEF EpisodeInv, SinkShape
  <2> QED
    BY <1>1, <2>1, <2>2 DEF SinkShape
<1>12. ASSUME ~spoilt' PROVE FollowsNext
  <2>1. Heeds(s, out, here)
    <3>1. CASE here = {}
      <4>1. PICK rec \in Record : rec = GO(NoRes, room)
        BY RecordsMade
      <4>2. rec.type = "GO" /\ rec.res = NoRes
        BY <4>1 DEF GO
      <4>3. recs = <<rec>>
        BY <1>4, <3>1, <4>1
      <4>4. SinkShape
        BY DEF EpisodeInv
      <4> QED
        BY <1>1, <1>2, <1>6, <1>12, <3>1, <4>2, <4>3, <4>4, SweptNone
    <3>2. CASE here # {}
      <4>1. IsFiniteSet(here)
        BY StayMirrorAssumption, FS_Subset
      <4>2. PICK order \in Seq(here) : /\ order = SetToSeq(here)
                                       /\ \A q \in here : \E i \in 1 .. Len(order) : order[i] = q
        BY <4>1, OrderHasAll
      <4>3. recs = [i \in DOMAIN order |-> GI(order[i], room)]
        BY <1>4, <3>2, <4>2
      <4>4. Len(recs) = Len(order) /\ \A i \in 1 .. Len(order) : recs[i] = GI(order[i], room)
        BY <1>5, <4>3
      <4>5. Len(recs) \in Nat /\ Len(recs) \in 0 .. Len(recs)
        BY <1>5
      <4>6. PICK f : f = Passed(recs)
        OBVIOUS
      <4>7. Reads(f, recs, Len(recs))
        BY <4>5, <4>6, ReadsExists DEF Reads, Passed, Before
      <4>8. ReadAll(recs) = f[Len(recs)]
        BY <4>6 DEF ReadAll, Passed
      <4>9. \A q \in here : guest[q] = room
        BY <1>3
      <4>10. \A k \in 0 .. Len(recs) : Heeds(f[k].sink, f[k].inbox, {order[i] : i \in 1 .. k})
        BY <1>1, <1>2, <1>5, <1>12, <4>4, <4>7, <4>9, SweptAll DEF EpisodeInv
      <4>11. {order[i] : i \in 1 .. Len(recs)} = here
        BY <4>2, <4>4
      <4> QED
        BY <1>6, <4>5, <4>8, <4>10, <4>11
    <3> QED
      BY <3>1, <3>2
  <2>2. PICK last : /\ Foreseen(stay, Waiting(s, out), OkStays, last) /\ Right(last, s, guest, outs)
                    /\ \A q \in here : q \in s.roster /\ (Owns(last[q], outs[q]) => last[q].room = guest[q])
    BY <2>1 DEF Heeds
  <2>3. ASSUME NEW q \in Reservations, Owns(last[q], outs[q])
        PROVE  guest[q] \in s.todo \ {room} \/ (q \in s.roster /\ last[q].room = guest[q])
    <3>1. CASE q \in here
      BY <2>2, <2>3, <3>1
    <3>2. CASE q \notin here
      <4>1. guest[q] # room
        BY <1>3, <3>2
      <4>2. guest[q] \in s.todo \/ (q \in s.roster /\ last[q].room = guest[q])
        BY <1>10, <2>2, <2>3 DEF Right, RightOf
      <4> QED
        BY <4>1, <4>2
    <3> QED
      BY <3>1, <3>2
  <2>4. Right(last, sink', guest', outs')
    BY <1>2, <1>9, <1>10, <2>3 DEF Right, RightOf
  <2>5. Waiting(sink', inbox') = Waiting(s, out)
    BY <1>7, <1>9 DEF Waiting
  <2> QED
    BY <1>1, <1>2, <2>2, <2>4, <2>5 DEF FollowsNext
<1> QED
  BY <1>2, <1>11, <1>12, EpisodeParts

-----------------------------------------------------------------------------
(* The episodes are real *)

\* Nothing waits at the start, and the mirror has no stay.
LEMMA InitEpisode == Init => EpisodeInv
<1> SUFFICES ASSUME Init PROVE EpisodeInv
  OBVIOUS
<1>1. /\ guest \in [Reservations -> Rooms \cup {Away}] /\ owed = <<>>
      /\ ins = [r \in Reservations |-> IF guest[r] = Away THEN 0 ELSE 1] /\ outs = [r \in Reservations |-> 0]
      /\ sink = FreshSink /\ inbox = <<>>
      /\ stay = [r \in Reservations |-> [status |-> "NONE", room |-> Away, version |-> 0]]
  BY DEF Init
<1>2. ~sink.synced /\ ~sink.window /\ sink.phase = "READ" /\ sink.buf = <<>>
  BY <1>1 DEF FreshSink
<1>3. HotelCounts
  BY <1>1 DEF HotelCounts
<1>4. OwedIsTrue
  BY <1>1 DEF OwedIsTrue
<1>5. SinkShape
  BY <1>2 DEF SinkShape
<1>6. Waiting(sink, inbox) = <<>>
  <2>1. PICK box \in Seq(InboxRow) : box = <<>>
    BY EmptySeq
  <2>2. Recs(box) \in Seq(Record) /\ Len(Recs(box)) = 0
    BY <2>1, RecsMade
  <2>3. Recs(box) = <<>>
    BY <2>2, EmptySeq
  <2>4. PICK none \in Seq(Record) : none = <<>>
    BY EmptySeq
  <2>5. none \o <<>> = none
    BY ConcatEmptySeq
  <2> QED
    BY <1>1, <1>2, <2>1, <2>3, <2>4, <2>5 DEF Waiting
<1>7. Foreseen(stay, <<>>, OkStays, stay)
  <2>1. ASSUME NEW r \in Reservations PROVE stay[r] \in Stays /\ stay[r] \in OkStays[r]
    <3>1. stay[r] = [status |-> "NONE", room |-> Away, version |-> 0] /\ outs[r] = 0 /\ ins[r] \in {0, 1}
      BY <1>1
    <3>2. stay[r] \in Stays /\ stay[r].status = "NONE" /\ stay[r].version = 0
      BY <3>1 DEF Stays
    <3>3. Fits(stay[r], ins[r], outs[r])
      BY <3>1, <3>2 DEF Fits
    <3>4. ~Owns(stay[r], outs[r])
      BY <3>2 DEF Owns
    <3> QED
      BY <3>2, <3>3, <3>4 DEF OkStays, Allowed
  <2>2. stay \in [Reservations -> Stays]
    BY <1>1, <2>1
  <2>3. PICK f : f = [k \in {0} |-> stay]
    OBVIOUS
  <2>4. f[0] = stay /\ Len(<<>>) = 0 /\ 0 .. 0 = {0} /\ 1 .. 0 = {}
    BY <2>3
  <2>5. Foretells(f, stay, <<>>, OkStays)
    BY <2>1, <2>2, <2>4 DEF Foretells
  <2> QED
    BY <2>4, <2>5 DEF Foreseen
<1>8. Right(stay, sink, guest, outs)
  BY <1>2, RightBarred
<1> QED
  BY <1>3, <1>4, <1>5, <1>6, <1>7, <1>8 DEF EpisodeInv, Follows

\* Every step keeps the episodes real.
LEMMA NextEpisode == MirrorInv /\ EpisodeInv /\ [Next]_vars => EpisodeInv'
<1> SUFFICES ASSUME MirrorInv, EpisodeInv, [Next]_vars PROVE EpisodeInv'
  OBVIOUS
<1>1. CASE UNCHANGED vars
  <2>1. UNCHANGED <<guest, owed, ins, outs, spoilt, link, asked, sink, inbox, stay>>
    BY <1>1 DEF vars, hotelVars, feedVars, dbVars
  <2> QED
    BY <2>1 DEF EpisodeInv, HotelCounts, OwedIsTrue, SinkShape, Follows, OkStays
<1>2. ASSUME NEW r \in Reservations, NEW room \in Rooms, CheckIn(r, room) PROVE EpisodeInv'
  BY <1>2, CheckInEpisode
<1>3. ASSUME NEW r \in Reservations, NEW named \in BOOLEAN, CheckOut(r, named) PROVE EpisodeInv'
  BY <1>3, CheckOutEpisode
<1>4. ASSUME NEW r \in Reservations, NEW room \in Rooms, NEW how \in {"CHANGE", "OUT_IN", "IN_OUT"},
             Move(r, room, how)
      PROVE  EpisodeInv'
  BY <1>4, MoveEpisode
<1>5. ASSUME NEW r \in Reservations, NEW room \in Rooms, Garble(r, room) PROVE EpisodeInv'
  BY <1>5, GarbleEpisode
<1>6. CASE SecondHalf
  BY <1>6, SecondHalfEpisode
<1>7. CASE Connect \/ Drop
  BY <1>7, LinkEpisode
<1>8. CASE AskForSweep
  BY <1>8, AskEpisode
<1>9. CASE OnResyncStart
  BY <1>9, StartEpisode
<1>10. ASSUME NEW room \in Rooms, SweepRoom(room) PROVE EpisodeInv'
  BY <1>10, SweepEpisode
<1>11. CASE OnResyncComplete
  BY <1>11, CompleteEpisode
<1>12. CASE Reconcile
  BY <1>12, ReconcileEpisode
<1>13. CASE ProcessNext
  BY <1>13, ProcessEpisode
<1> QED
  BY <1>1, <1>2, <1>3, <1>4, <1>5, <1>6, <1>7, <1>8, <1>9, <1>10, <1>11, <1>12, <1>13 DEF Next, PmsdStep

\* The invariant that carries the episodes holds always: every mirror that the waiting rows will make has no more
\* departures and arrivals of a guest than there were, and the last of them has whom it holds for present right.
THEOREM EpisodeInvariance == Spec => [](MirrorInv /\ EpisodeInv)
<1>1. Init => MirrorInv /\ EpisodeInv
  BY InitMirror, InitEpisode
<1>2. MirrorInv /\ EpisodeInv /\ [Next]_vars => (MirrorInv /\ EpisodeInv)'
  BY NextMirror, NextEpisode
<1> QED
  BY <1>1, <1>2, PTL DEF Spec

\* The mirror ends a stay only as often as its guest left and begins an episode only as often as the guest came,
\* whatever is lost, swept twice or left over from an abandoned sweep (the barrier, the roster's trust and
\* Resolve's room check together), unless a record was unreadable in an open sweep or named only a shared room.
THEOREM EpisodesReal == Spec => []EpisodesAreReal
<1>1. MirrorInv /\ EpisodeInv => EpisodesAreReal
  <2> SUFFICES ASSUME MirrorInv, EpisodeInv, ~spoilt, NEW r \in Reservations
               PROVE  Checkouts(r) <= outs[r] /\ stay[r].version <= ins[r]
    BY DEF EpisodesAreReal
  <2>1. PICK last : Foreseen(stay, Waiting(sink, inbox), OkStays, last)
    BY DEF EpisodeInv, Follows
  <2>2. stay[r] \in OkStays[r]
    BY <2>1, WaitingNow, ForeseenEnds
  <2> QED
    BY <2>2 DEF OkStays, Allowed, Fits, Checkouts
<1> QED
  BY <1>1, EpisodeInvariance, PTL

=============================================================================
