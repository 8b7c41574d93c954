-------------------------- MODULE StayAccessProofs --------------------------
(***************************************************************************)
(* Theorems about StayAccess, for every set of rooms, all life times and   *)
(* any number of events, purchases, refunds and episodes of the stay.      *)
(*                                                                         *)
(* The argument: a row that has ended keeps its time for good, a new       *)
(* package begins now and ends every other live row, so packages follow    *)
(* each other in time, unless a check-out that a leading PMS clock dated   *)
(* ahead says when the earlier one ends (InTurn, Owed); a check-out        *)
(* converts the one package it finds live and open, and its record says so *)
(* (Checkouts).                                                            *)
(***************************************************************************)
EXTENDS StayAccess, TLAPS, SequenceTheorems, FiniteSetTheorems, WellFoundedInduction

-----------------------------------------------------------------------------
(* The inductive invariant *)

Reason == {"NONE", "SUPERSEDED", "REVOKED", "TIME", "CONVERTED", "CHECKOUT"}
Kind == {"PACKAGE", "GRACE", "CONTINUATION"}
EntRow == [kind: Kind, status: {"ACTIVE", "TERMINATED"}, reason: Reason,
           from: Time, until: Time \cup {NoTime}, window: Nat \cup {NoTime}, restores: Nat, reversed: BOOLEAN]
EventRow == [type: {"GI", "GO"}, room: Rooms, at: Time \cup {NoTime}]
StayRow == [status: {"IN_HOUSE", "CHECKED_OUT"}, room: Rooms, version: Nat]
AuditRow == [at: Time, made: Time, room: Rooms, held: SUBSET Nat, grace: Nat]

Types ==
    /\ now \in Time
    /\ guest \in Rooms \cup {Away}
    /\ queue \in Seq(EventRow)
    /\ stay \in StayRow
    /\ ents \in Seq(EntRow)
    /\ audit \in Seq(AuditRow)
    /\ buying \in SUBSET (Nat \cup {NoTime})
    /\ switch \in BOOLEAN
    /\ ops \in 0 .. MaxHappenings

\* One record per episode that ended, of rows that exist; a continuation restores an earlier row.
Shapes ==
    /\ stay.version = IF stay.status = "IN_HOUSE" THEN Len(audit) + 1 ELSE Len(audit)
    /\ \A e \in Ids : ents[e].restores \in 0 .. e - 1
    /\ \A i \in DOMAIN audit : audit[i].grace \in 0 .. Len(ents)

\* A check-out applied by time t dated something at the time u.
Owed(u, t) == \E i \in DOMAIN audit : audit[i].made <= t /\ audit[i].at = u
OwedNext(u, t) == \E i \in DOMAIN audit' : audit'[i].made <= t /\ audit'[i].at = u

\* Nothing is dated further ahead than a PMS time is trusted, and what has ended has a time; a package begins in the
\* past and ends in the past, or when a check-out says.
RowPast(r) ==
    /\ r.from <= now + FutureSkew
    /\ r.status = "TERMINATED" => r.until \in 0 .. now + FutureSkew
    /\ r.kind # "GRACE" => r.from <= now /\ (r.status = "TERMINATED" => r.until <= now \/ Owed(r.until, now))

Past == \A e \in Ids : RowPast(ents[e])

\* The index ent_live_stay.
OneLive == \A e, f \in Ids : Live(e) /\ Live(f) => e = f

\* A package is over when the next one begins, or a check-out applied by then says when it is over.
Precedes(a, b) == a.status = "TERMINATED" /\ (a.until <= b.from \/ Owed(a.until, b.from))
PrecedesNext(a, b) == a.status = "TERMINATED" /\ (a.until <= b.from \/ OwedNext(a.until, b.from))
InTurn == \A e, f \in Ids : e < f /\ ents[e].kind # "GRACE" /\ ents[f].kind # "GRACE" => Precedes(ents[e], ents[f])

AccessInv == Types /\ Shapes /\ Past /\ OneLive /\ InTurn

-----------------------------------------------------------------------------
(* Rows *)

\* The end of a row: its state, the reason and the time, and nothing else.
LEMMA EndedFacts ==
    ASSUME NEW ent \in EntRow, NEW at \in Time, NEW reason \in Reason
    PROVE  LET r == Ended(ent, at, reason)
           IN  /\ r \in EntRow
               /\ r.status = "TERMINATED" /\ r.until = at /\ r.reason = reason
               /\ r.kind = ent.kind /\ r.from = ent.from /\ r.window = ent.window
               /\ r.restores = ent.restores /\ r.reversed = ent.reversed
<1> DEFINE e == [ent EXCEPT !.status = "TERMINATED", !.reason = reason]
           r == [e EXCEPT !.until = at]
<1>1. /\ e \in EntRow /\ e.status = "TERMINATED" /\ e.reason = reason
      /\ e.kind = ent.kind /\ e.from = ent.from /\ e.window = ent.window
      /\ e.restores = ent.restores /\ e.reversed = ent.reversed
  BY DEF EntRow
<1>2. Ended(ent, at, reason) = r
  BY DEF Ended, EntRow
<1> HIDE DEF e
<1>3. /\ r \in EntRow /\ r.status = e.status /\ r.reason = e.reason /\ r.until = at
      /\ r.kind = e.kind /\ r.from = e.from /\ r.window = e.window
      /\ r.restores = e.restores /\ r.reversed = e.reversed
  BY <1>1 DEF EntRow
<1> QED
  BY <1>1, <1>2, <1>3

\* A new row.
LEMMA EntFacts ==
    ASSUME NEW kind \in Kind, NEW from \in Time,
           NEW window \in Nat \cup {NoTime}, NEW restores \in Nat
    PROVE  LET r == Ent(kind, from, window, restores)
           IN  /\ r \in EntRow
               /\ r.kind = kind /\ r.status = "ACTIVE" /\ r.from = from /\ r.reason = "NONE"
               /\ r.window = window /\ r.restores = restores /\ ~r.reversed
BY DEF Ent, EntRow, Reason

-----------------------------------------------------------------------------
(* What a step may do to the rows *)

\* Row b is row a later: it keeps what it was granted as, and it may end, once.
Continues(a, b, t) ==
    /\ b.kind = a.kind /\ b.from = a.from /\ b.window = a.window /\ b.restores = a.restores
    /\ \/ b.status = a.status /\ b.reason = a.reason /\ b.until = a.until
       \/ a.status = "ACTIVE" /\ b.status = "TERMINATED" /\ b.until \in 0 .. t + FutureSkew

RowsContinue ==
    /\ ents' \in Seq(EntRow) /\ Len(ents') \in Nat /\ Len(ents) \in Nat
    /\ Len(ents) <= Len(ents')
    /\ \A e \in Ids : Continues(ents[e], ents'[e], now)
    /\ \A u, t : Owed(u, t) => OwedNext(u, t)
    /\ \A e \in Ids : Live(e) /\ ents[e].kind # "GRACE" /\ ents'[e].status = "TERMINATED"
                      => ents'[e].until <= now \/ OwedNext(ents'[e].until, now)

RowParts == OneLive /\ InTurn /\ (\A e \in Ids : RowPast(ents[e])) /\ (\A e \in Ids : ents[e].restores \in 0 .. e - 1)

\* The rows that a step finds are rows.
LEMMA RowTyped ==
    ASSUME Types, NEW e \in Ids
    PROVE  ents[e] \in EntRow /\ Len(ents) \in Nat /\ e \in Nat
BY ElementOfSeq, LenProperties DEF Types, Ids

\* A row stays dated as it should be.
LEMMA RowKept ==
    ASSUME AccessInv, RowsContinue, now' = now, NEW e \in Ids
    PROVE  RowPast(ents[e])'
<1>1. /\ Continues(ents[e], ents'[e], now) /\ RowPast(ents[e])
      /\ \A u, t : Owed(u, t) => OwedNext(u, t)
      /\ Live(e) /\ ents[e].kind # "GRACE" /\ ents'[e].status = "TERMINATED"
            => ents'[e].until <= now \/ OwedNext(ents'[e].until, now)
  BY DEF RowsContinue, AccessInv, Past
<1>2. \A u : Owed(u, now)' <=> OwedNext(u, now)
  BY DEF Owed, OwedNext
<1>3. ents'[e].from <= now + FutureSkew /\ (ents'[e].status = "TERMINATED" => ents'[e].until \in 0 .. now + FutureSkew)
  BY <1>1 DEF Continues, RowPast
<1>4. ASSUME ents'[e].kind # "GRACE" PROVE ents'[e].from <= now
  BY <1>1, <1>4 DEF Continues, RowPast
<1>5. ASSUME ents'[e].kind # "GRACE", ents'[e].status = "TERMINATED"
      PROVE  ents'[e].until <= now \/ OwedNext(ents'[e].until, now)
  BY <1>1, <1>5 DEF Continues, RowPast, Live
<1> QED
  BY <1>2, <1>3, <1>4, <1>5 DEF RowPast, Owed, OwedNext

\* Nothing is added: packages stay in turn and at most one row stays live.
LEMMA NothingAdded ==
    ASSUME AccessInv, RowsContinue, Len(ents') = Len(ents), now' = now
    PROVE  RowParts'
<1>1. Ids' = Ids
  BY DEF Ids
<1>2. \A e \in Ids : ents[e] \in EntRow /\ e \in Nat
  BY RowTyped DEF AccessInv
<1>3. \A e \in Ids : ents[e].status \in {"ACTIVE", "TERMINATED"} /\ ents'[e].status = "ACTIVE" => ents[e].status = "ACTIVE"
  BY <1>2 DEF RowsContinue, Continues, EntRow
<1>4. OneLive'
  BY <1>1, <1>3, <1>2 DEF AccessInv, OneLive, Live, EntRow
<1>5. InTurn'
  <2> SUFFICES ASSUME NEW e \in Ids, NEW f \in Ids, e < f, ents'[e].kind # "GRACE", ents'[f].kind # "GRACE"
               PROVE  PrecedesNext(ents'[e], ents'[f])
    BY <1>1 DEF InTurn, Precedes, PrecedesNext, Owed, OwedNext
  <2>1. Continues(ents[e], ents'[e], now) /\ Continues(ents[f], ents'[f], now)
    BY DEF RowsContinue
  <2>2. Precedes(ents[e], ents[f])
    BY <2>1 DEF AccessInv, InTurn, Continues
  <2>3. Precedes(ents[e], ents[f]) => \/ ents[e].until <= ents[f].from
                                     \/ OwedNext(ents[e].until, ents[f].from)
    BY DEF Precedes, RowsContinue
  <2> QED
    BY <2>1, <2>2, <2>3 DEF Continues, Precedes, PrecedesNext
<1>6. \A e \in Ids : RowPast(ents[e])'
  BY RowKept
<1>7. \A e \in Ids : ents'[e].restores \in 0 .. e - 1
  BY DEF RowsContinue, Continues, AccessInv, Shapes
<1> QED
  BY <1>1, <1>4, <1>5, <1>6, <1>7 DEF RowParts

\* One row is added, now, and nothing else is left live.
LEMMA OneAdded ==
    ASSUME AccessInv, RowsContinue, Len(ents') = Len(ents) + 1, now' = now,
           NEW r \in EntRow, ents'[Len(ents) + 1] = r,
           r.status = "ACTIVE", r.from <= now + FutureSkew, r.restores \in 0 .. Len(ents), r.kind = "GRACE" \/ r.from = now,
           \A e \in Ids : ents'[e].status = "TERMINATED"
    PROVE  RowParts'
<1>n. PICK n : n = Len(ents) + 1
  OBVIOUS
<1>0. now \in Nat /\ FutureSkew \in Nat
  BY StayAccessAssumption DEF AccessInv, Types, Time
<1>1. Ids' = Ids \cup {n} /\ n \notin Ids /\ (\A e \in Ids : e \in Nat /\ e < n) /\ n \in Nat
  BY <1>n DEF Ids, RowsContinue
<1>2. \A e \in Ids : ents[e] \in EntRow /\ ents'[e] \in EntRow
  BY RowTyped, ElementOfSeq DEF AccessInv, RowsContinue, Ids
<1>3. OneLive'
  BY <1>n, <1>1 DEF OneLive, Live
<1>4. \A e \in Ids : /\ RowPast(ents[e])'
                     /\ ents'[e].kind # "GRACE" => ents'[e].until <= now \/ OwedNext(ents'[e].until, now)
  <2> SUFFICES ASSUME NEW e \in Ids
               PROVE  /\ RowPast(ents[e])'
                      /\ ents'[e].kind # "GRACE" => ents'[e].until <= now \/ OwedNext(ents'[e].until, now)
    OBVIOUS
  <2>2. RowPast(ents[e])'
    BY RowKept
  <2> QED
    BY <2>2 DEF RowPast, Owed, OwedNext
<1>5. InTurn'
  <2> SUFFICES ASSUME NEW e \in Ids', NEW f \in Ids', e < f, ents'[e].kind # "GRACE", ents'[f].kind # "GRACE"
               PROVE  PrecedesNext(ents'[e], ents'[f])
    BY DEF InTurn, Precedes, PrecedesNext, Owed, OwedNext
  <2>1. e \in Ids
    BY <1>1
  <2>2. CASE f = n
    <3>1. ents'[f].from = now /\ (ents'[e].until <= now \/ OwedNext(ents'[e].until, now)) /\ ents'[e].status = "TERMINATED"
      BY <1>n, <1>4, <2>1, <2>2
    <3> QED
      BY <3>1 DEF PrecedesNext
  <2>3. CASE f \in Ids
    <3>1. Continues(ents[e], ents'[e], now) /\ Continues(ents[f], ents'[f], now)
      BY <2>1, <2>3 DEF RowsContinue
    <3>2. Precedes(ents[e], ents[f])
      BY <2>1, <2>3, <3>1 DEF AccessInv, InTurn, Continues
    <3>3. ents[e].until <= ents[f].from \/ OwedNext(ents[e].until, ents[f].from)
      BY <3>2 DEF Precedes, RowsContinue
    <3> QED
      BY <3>1, <3>2, <3>3 DEF Continues, Precedes, PrecedesNext
  <2> QED
    BY <1>1, <2>2, <2>3
<1>6. RowPast(ents[n])'
  BY <1>0, <1>n DEF RowPast
<1>7. \A e \in Ids : ents'[e].restores \in 0 .. e - 1
  BY DEF RowsContinue, Continues, AccessInv, Shapes
<1>8. ents'[n].restores \in 0 .. n - 1
  BY <1>n, <1>1 DEF RowsContinue
<1> QED
  BY <1>1, <1>3, <1>4, <1>5, <1>6, <1>7, <1>8 DEF RowParts

-----------------------------------------------------------------------------
(* The hotel and the clock *)

\* A function on the row numbers is a sequence of as many rows.
LEMMA MappedRows ==
    ASSUME Types, NEW g \in [Ids -> EntRow]
    PROVE  g \in Seq(EntRow) /\ Len(g) = Len(ents) /\ Len(ents) \in Nat
<1>1. Len(ents) \in Nat
  BY LenProperties DEF Types
<1> QED
  BY <1>1 DEF Ids

\* A record of the hotel.
LEMMA EventFacts ==
    ASSUME Types, NEW type \in {"GI", "GO"}, NEW room \in Rooms, NEW at \in Stamps
    PROVE  Event(type, room, at) \in EventRow
BY DEF Stamps, Time, Event, EventRow

\* Events are added to the queue and the rest of the state is left alone.
LEMMA QueueGrows ==
    ASSUME AccessInv, NEW q \in Seq(EventRow), queue' = queue \o q,
           guest' \in Rooms \cup {Away}, ops' \in 0 .. MaxHappenings,
           UNCHANGED <<now, stay, ents, audit, buying, switch>>
    PROVE  AccessInv'
<1>1. queue \in Seq(EventRow) /\ switch \in BOOLEAN
  BY DEF AccessInv, Types
<1>2. queue' \in Seq(EventRow)
  BY <1>1, ConcatProperties
<1>5. switch' \in BOOLEAN
  BY <1>1
<1>6. Types'
  BY <1>2, <1>5 DEF AccessInv, Types
<1>7. Past'
  BY DEF AccessInv, Past, RowPast, Owed, Ids
<1>8. InTurn'
  BY DEF AccessInv, InTurn, Precedes, Owed, Ids
<1> QED
  BY <1>6, <1>7, <1>8 DEF AccessInv, Shapes, OneLive, Live, Ids

\* Check-outs, check-ins and room moves happen in the hotel and are announced.
LEMMA HotelKeeps ==
    ASSUME AccessInv,
           \/ \E at \in Stamps : CheckOut(at)
           \/ \E room \in Rooms, at \in Stamps : CheckIn(room, at)
           \/ \E room \in Rooms, at \in Stamps, inFirst \in BOOLEAN : Move(room, at, inFirst)
    PROVE  AccessInv'
<1>0. Types /\ guest \in Rooms \cup {Away} /\ queue \in Seq(EventRow)
  BY DEF AccessInv, Types
<1>1. Happens => /\ ops' \in 0 .. MaxHappenings
                 /\ UNCHANGED <<now, stay, ents, audit, buying, switch>>
  BY <1>0, StayAccessAssumption DEF Happens, Types
<1>2. ASSUME NEW at \in Stamps, CheckOut(at) PROVE AccessInv'
  <2> DEFINE ev == Event("GO", guest, at)
  <2>1. ev \in EventRow
    BY <1>0, <1>2, EventFacts DEF CheckOut
  <2>2. queue' = Append(queue, ev) /\ guest' = Away /\ Happens
    BY <1>2 DEF CheckOut
  <2> HIDE DEF ev
  <2>3. queue' = queue \o <<ev>> /\ <<ev>> \in Seq(EventRow) /\ Len(<<ev>>) = 1 /\ <<ev>>[1] = ev
    BY <1>0, <2>1, <2>2, AppendIsConcat
  <2> QED
    BY <1>1, <2>2, <2>3, QueueGrows
<1>3. ASSUME NEW room \in Rooms, NEW at \in Stamps, CheckIn(room, at) PROVE AccessInv'
  <2> DEFINE ev == Event("GI", room, at)
  <2>1. ev \in EventRow
    BY <1>0, <1>3, EventFacts
  <2>2. queue' = Append(queue, ev) /\ guest' = room /\ Happens
    BY <1>3 DEF CheckIn
  <2> HIDE DEF ev
  <2>3. queue' = queue \o <<ev>> /\ <<ev>> \in Seq(EventRow) /\ Len(<<ev>>) = 1 /\ <<ev>>[1] = ev
    BY <1>0, <2>1, <2>2, AppendIsConcat
  <2> QED
    BY <1>1, <2>2, <2>3, QueueGrows
<1>4. ASSUME NEW room \in Rooms, NEW at \in Stamps, NEW inFirst \in BOOLEAN, Move(room, at, inFirst)
      PROVE  AccessInv'
  <2> DEFINE go == Event("GO", guest, at)
             gi == Event("GI", room, at)
  <2>1. go \in EventRow /\ gi \in EventRow
    BY <1>0, <1>4, EventFacts DEF Move
  <2>2. guest' = room /\ Happens
    BY <1>4 DEF Move
  <2>3. queue' = queue \o <<gi, go>> \/ queue' = queue \o <<go, gi>>
    BY <1>4 DEF Move
  <2> HIDE DEF go, gi
  <2>4. ASSUME NEW a \in {go, gi}, NEW b \in {go, gi}, queue' = queue \o <<a, b>> PROVE AccessInv'
    <3>1. <<a, b>> \in Seq(EventRow)
      BY <2>1
    <3> QED
      BY <1>1, <2>2, <2>4, <3>1, QueueGrows
  <2> QED
    BY <2>3, <2>4
<1> QED
  BY <1>2, <1>3, <1>4

\* Time passes, or a purchase is begun.
LEMMA ClockKeeps ==
    ASSUME AccessInv, Tick \/ \E window \in {NoTime, now + PackageLife} : BeginPurchase(window)
    PROVE  AccessInv'
<1>0. now \in Nat /\ now \in Time /\ PackageLife \in Nat /\ MaxTime \in Nat /\ FutureSkew \in Nat /\ switch \in BOOLEAN
  BY StayAccessAssumption DEF AccessInv, Types, Time
<1>1. CASE Tick
  <2>1. now' = now + 1 /\ now' \in Time /\ UNCHANGED <<guest, queue, stay, ents, audit, buying, switch, ops>>
    BY <1>0, <1>1 DEF Tick, Time
  <2>2. switch' \in BOOLEAN
    BY <1>0, <2>1
  <2>3. Types'
    BY <2>1, <2>2 DEF AccessInv, Types
  <2>4. \A e \in Ids : RowPast(ents[e])'
    <3> SUFFICES ASSUME NEW e \in Ids PROVE RowPast(ents[e])'
      OBVIOUS
    <3>1. RowPast(ents[e]) /\ ents[e] \in EntRow
      BY RowTyped DEF AccessInv, Past
    <3>2. ents[e].from \in Nat /\ (ents[e].status = "TERMINATED" => ents[e].until \in Nat)
      BY <3>1 DEF RowPast, EntRow, Time
    <3>3. \A u : Owed(u, now) => OwedNext(u, now + 1)
      <4> SUFFICES ASSUME NEW u, NEW i \in DOMAIN audit, audit[i].made <= now, audit[i].at = u
                   PROVE  OwedNext(u, now + 1)
        BY DEF Owed
      <4>1. audit[i] \in AuditRow
        BY ElementOfSeq, LenProperties DEF AccessInv, Types
      <4>2. audit[i].made <= now + 1
        BY <1>0, <4>1 DEF AuditRow, Time
      <4> QED
        BY <2>1, <4>2 DEF OwedNext
    <3>4. ents[e].kind # "GRACE" /\ ents[e].status = "TERMINATED"
             => ents[e].until <= now + 1 \/ OwedNext(ents[e].until, now + 1)
      BY <1>0, <3>1, <3>2, <3>3 DEF RowPast
    <3>5. ents'[e] = ents[e] /\ now' = now + 1
      BY <2>1
    <3>6. Owed(ents[e].until, now)' <=> OwedNext(ents'[e].until, now')
      BY DEF Owed, OwedNext
    <3> QED
      BY <1>0, <3>1, <3>2, <3>4, <3>5, <3>6 DEF RowPast
  <2>6. Past'
    BY <2>1, <2>4 DEF Past, Ids
  <2>7. Shapes' /\ OneLive'
    BY <2>1 DEF AccessInv, Shapes, OneLive, Live, Ids
  <2>8. InTurn'
    BY <2>1 DEF AccessInv, InTurn, Precedes, Owed, Ids
  <2> QED
    BY <2>3, <2>6, <2>7, <2>8 DEF AccessInv
<1>2. ASSUME NEW window \in {NoTime, now + PackageLife}, BeginPurchase(window) PROVE AccessInv'
  <2>1. UNCHANGED <<now, guest, queue, stay, ents, audit, switch>> /\ buying' = {window} /\ window \in Nat \cup {NoTime}
    BY <1>0, <1>2 DEF BeginPurchase
  <2>2. switch' \in BOOLEAN
    BY <1>0, <2>1
  <2>3. ops' \in 0 .. MaxHappenings
    BY <1>2, StayAccessAssumption DEF BeginPurchase, AccessInv, Types
  <2>4. Types'
    BY <2>1, <2>2, <2>3 DEF AccessInv, Types
  <2>5. Shapes' /\ OneLive'
    BY <2>1 DEF AccessInv, Shapes, OneLive, Live, Ids
  <2>6. Past'
    BY <2>1 DEF AccessInv, Past, RowPast, Owed, Ids
  <2>7. InTurn'
    BY <2>1 DEF AccessInv, InTurn, Precedes, Owed, Ids
  <2> QED
    BY <2>4, <2>5, <2>6, <2>7 DEF AccessInv
<1> QED
  BY <1>1, <1>2

-----------------------------------------------------------------------------
(* Grants, refunds and expiry *)

\* A row that is kept as it is continues; so does a live row that is ended at a time not too far ahead.
LEMMA RowContinues ==
    ASSUME AccessInv, NEW e \in Ids
    PROVE  /\ Continues(ents[e], ents[e], now)
           /\ \A at \in 0 .. now + FutureSkew, reason \in Reason :
                 at \in Time /\ Live(e) => /\ Continues(ents[e], Ended(ents[e], at, reason), now)
                            /\ Ended(ents[e], at, reason) \in EntRow
<1>1. Continues(ents[e], ents[e], now)
  BY DEF Continues
<1>2. ASSUME NEW at \in 0 .. now + FutureSkew, NEW reason \in Reason, at \in Time, Live(e)
      PROVE  Continues(ents[e], Ended(ents[e], at, reason), now) /\ Ended(ents[e], at, reason) \in EntRow
  <2>1. ents[e] \in EntRow
    BY RowTyped DEF AccessInv
  <2> QED
    BY <1>2, <2>1, EndedFacts DEF Continues, Live
<1> QED
  BY <1>1, <1>2

\* Every live row is superseded and a row is appended: grants and continuations.
LEMMA SupersedeFacts ==
    ASSUME AccessInv, NEW r \in EntRow, UNCHANGED audit,
           ents' = Append([e \in Ids |-> IF Live(e) THEN Ended(ents[e], now, "SUPERSEDED") ELSE ents[e]], r)
    PROVE  /\ RowsContinue
           /\ Len(ents') = Len(ents) + 1
           /\ ents'[Len(ents) + 1] = r
           /\ \A e \in Ids : ents'[e].status = "TERMINATED" /\ ents'[e].reversed = ents[e].reversed
           /\ \A e \in Ids : ents'[e].reason = "CONVERTED" => ents[e].reason = "CONVERTED"
<1> DEFINE g == [e \in Ids |-> IF Live(e) THEN Ended(ents[e], now, "SUPERSEDED") ELSE ents[e]]
<1>0. now \in 0 .. now + FutureSkew /\ now \in Time /\ now \in Nat /\ "SUPERSEDED" \in Reason
  BY StayAccessAssumption DEF AccessInv, Types, Time, Reason
<1>1. \A e \in Ids : g[e] \in EntRow /\ Continues(ents[e], g[e], now)
  BY <1>0, RowContinues, RowTyped DEF AccessInv
<1>u. \A e \in Ids : Live(e) => g[e].until <= now
  BY <1>0, RowTyped, EndedFacts DEF AccessInv
<1>2. \A e \in Ids : g[e].status = "TERMINATED" /\ g[e].reversed = ents[e].reversed
  <2> SUFFICES ASSUME NEW e \in Ids PROVE g[e].status = "TERMINATED" /\ g[e].reversed = ents[e].reversed
    OBVIOUS
  <2>1. ents[e] \in EntRow
    BY RowTyped DEF AccessInv
  <2> QED
    BY <1>0, <2>1, EndedFacts DEF Live, EntRow
<1>r. \A e \in Ids : g[e].reason = "CONVERTED" => ents[e].reason = "CONVERTED"
  BY <1>0, RowTyped, EndedFacts DEF AccessInv
<1>3. g \in [Ids -> EntRow]
  BY <1>1
<1> HIDE DEF g
<1>4. g \in Seq(EntRow) /\ Len(g) = Len(ents) /\ Len(ents) \in Nat
  BY <1>3, MappedRows DEF AccessInv
<1>5. ents' = Append(g, r)
  BY DEF g
<1>6. /\ ents' \in Seq(EntRow) /\ Len(ents') = Len(ents) + 1 /\ ents'[Len(ents) + 1] = r
      /\ \A e \in 1 .. Len(ents) : ents'[e] = g[e]
  BY <1>4, <1>5, AppendProperties
<1> QED
  BY <1>1, <1>2, <1>u, <1>r, <1>4, <1>6 DEF RowsContinue, Ids, Owed, OwedNext

\* The rows are updated and everything else but the number of happenings is left alone.
LEMMA RowsOnly ==
    ASSUME AccessInv, RowsContinue, RowParts', ops' \in 0 .. MaxHappenings, buying' \in {buying, {}},
           UNCHANGED <<now, guest, queue, stay, audit, switch>>
    PROVE  AccessInv'
<1>1. switch \in BOOLEAN /\ switch' \in BOOLEAN
  BY DEF AccessInv, Types
<1>2. Types'
  BY <1>1 DEF AccessInv, Types, RowsContinue
<1>3. Shapes'
  <2>1. \A i \in DOMAIN audit : audit[i].grace \in 0 .. Len(ents')
    BY DEF AccessInv, Shapes, RowsContinue
  <2> QED
    BY <2>1 DEF AccessInv, Shapes, RowParts
<1> QED
  BY <1>2, <1>3 DEF AccessInv, RowParts, Past

\* The kernel of a grant.
LEMMA GrantKeeps ==
    ASSUME AccessInv, Grant
    PROVE  AccessInv'
<1>1. PICK window \in buying :
        ents' = Append([e \in Ids |-> IF Live(e) THEN Ended(ents[e], now, "SUPERSEDED") ELSE ents[e]],
                       Ent("PACKAGE", now, window, NoEnt))
  BY DEF Grant
<1> DEFINE r == Ent("PACKAGE", now, window, NoEnt)
<1>2. r \in EntRow /\ r.status = "ACTIVE" /\ r.from = now /\ r.restores = 0 /\ now \in Nat
  <2>1. window \in Nat \cup {NoTime} /\ now \in Time /\ now \in Nat /\ NoEnt \in Nat /\ NoEnt = 0
    BY StayAccessAssumption DEF AccessInv, Types, NoEnt, Time
  <2> QED
    BY <2>1, EntFacts DEF Kind
<1> HIDE DEF r
<1>5. UNCHANGED <<now, guest, queue, stay, audit, switch, ops>> /\ buying' = {}
  BY DEF Grant
<1>3. /\ RowsContinue /\ Len(ents') = Len(ents) + 1 /\ ents'[Len(ents) + 1] = r
      /\ \A e \in Ids : ents'[e].status = "TERMINATED"
  BY <1>1, <1>2, <1>5, SupersedeFacts DEF r
<1>4. r.restores \in 0 .. Len(ents) /\ r.from <= now + FutureSkew
  BY <1>2, <1>3, StayAccessAssumption DEF RowsContinue
<1>6. RowParts'
  BY <1>2, <1>3, <1>4, <1>5, OneAdded
<1>7. ops' \in 0 .. MaxHappenings
  BY <1>5 DEF AccessInv, Types
<1> QED
  BY <1>3, <1>5, <1>6, <1>7, RowsOnly

\* A refund ends what the purchase funds and marks the purchase.
LEMMA RefundFacts ==
    ASSUME AccessInv, NEW e \in Ids, Refund(e)
    PROVE  /\ RowsContinue /\ Len(ents') = Len(ents)
           /\ \A x \in Ids :
                /\ ents'[x].reversed = IF x = e THEN TRUE ELSE ents[x].reversed
                /\ ents'[x].status = "ACTIVE" => ents[x].status = "ACTIVE" /\ Funding(x) # e
                /\ ents'[x].reason = "CONVERTED" => ents[x].reason = "CONVERTED"
<1> DEFINE Marked(x) == IF x = e THEN [ents[x] EXCEPT !.reversed = TRUE] ELSE ents[x]
           g == [x \in Ids |-> IF Live(x) /\ Funding(x) = e THEN Ended(Marked(x), now, "REVOKED") ELSE Marked(x)]
<1>0. now \in 0 .. now + FutureSkew /\ now \in Time /\ now \in Nat /\ "REVOKED" \in Reason
  BY StayAccessAssumption DEF AccessInv, Types, Time, Reason
<1>1. ents' = g
  BY DEF Refund
<1>2. ASSUME NEW x \in Ids
      PROVE  /\ Marked(x) \in EntRow /\ Marked(x).reversed = IF x = e THEN TRUE ELSE ents[x].reversed
             /\ Marked(x).status = ents[x].status /\ Marked(x).until = ents[x].until /\ Marked(x).reason = ents[x].reason
             /\ Marked(x).kind = ents[x].kind /\ Marked(x).from = ents[x].from /\ Marked(x).window = ents[x].window
             /\ Marked(x).restores = ents[x].restores
  <2>1. ents[x] \in EntRow
    BY RowTyped DEF AccessInv
  <2> QED
    BY <2>1 DEF EntRow
<1> HIDE DEF Marked
<1>3. ASSUME NEW x \in Ids
      PROVE  /\ g[x] \in EntRow /\ Continues(ents[x], g[x], now)
             /\ Live(x) /\ g[x].status = "TERMINATED" => g[x].until <= now
             /\ g[x].reversed = Marked(x).reversed
             /\ g[x].status = "ACTIVE" => ents[x].status = "ACTIVE" /\ Funding(x) # e
             /\ g[x].reason = "CONVERTED" => ents[x].reason = "CONVERTED"
  <2>1. CASE Live(x) /\ Funding(x) = e
    <3>1. g[x] = Ended(Marked(x), now, "REVOKED")
      BY <2>1
    <3>2. Marked(x) \in EntRow
      BY <1>2
    <3> HIDE DEF g
    <3>3. /\ g[x] \in EntRow /\ g[x].status = "TERMINATED" /\ g[x].until = now /\ g[x].reason = "REVOKED"
          /\ g[x].kind = Marked(x).kind /\ g[x].from = Marked(x).from /\ g[x].window = Marked(x).window
          /\ g[x].restores = Marked(x).restores /\ g[x].reversed = Marked(x).reversed
      BY <1>0, <3>1, <3>2, EndedFacts
    <3>4. Continues(ents[x], g[x], now)
      BY <1>0, <1>2, <2>1, <3>3 DEF Continues, Live
    <3> QED
      BY <1>0, <3>3, <3>4
  <2>2. CASE ~(Live(x) /\ Funding(x) = e)
    BY <1>2, <2>2 DEF Continues, Live
  <2> QED
    BY <2>1, <2>2
<1>4. g \in [Ids -> EntRow]
  BY <1>3
<1> HIDE DEF g
<1>5. g \in Seq(EntRow) /\ Len(g) = Len(ents) /\ Len(ents) \in Nat
  BY <1>4, MappedRows DEF AccessInv
<1>6. \A x \in Ids : /\ g[x].reversed = IF x = e THEN TRUE ELSE ents[x].reversed
                     /\ g[x].status = "ACTIVE" => ents[x].status = "ACTIVE" /\ Funding(x) # e
                     /\ g[x].reason = "CONVERTED" => ents[x].reason = "CONVERTED"
                     /\ Continues(ents[x], g[x], now)
  BY <1>2, <1>3
<1>a. UNCHANGED audit
  BY DEF Refund
<1>7. RowsContinue /\ Len(ents') = Len(ents)
  BY <1>1, <1>a, <1>5, <1>3 DEF RowsContinue, Owed, OwedNext
<1> QED
  BY <1>1, <1>6, <1>7, Zenon

\* A window that is over ends its row, at a past time.
LEMMA ExpireFacts ==
    ASSUME AccessInv, NEW e \in Ids, Expire(e)
    PROVE  /\ RowsContinue /\ Len(ents') = Len(ents)
           /\ \A x \in Ids : ents'[x].reversed = ents[x].reversed
           /\ \A x \in Ids \ {e} : ents'[x] = ents[x]
           /\ ents'[e].status = "TERMINATED" /\ ents'[e].reason = "TIME"
<1> DEFINE r == Ended(ents[e], DueAt(e), "TIME")
<1>1. ents \in Seq(EntRow) /\ ents[e] \in EntRow /\ now \in Nat /\ "TIME" \in Reason /\ Len(ents) \in Nat
  BY RowTyped, StayAccessAssumption DEF AccessInv, Types, Time, Reason
<1>2. ents[e].window # NoTime /\ ents[e].window \in Nat
  BY <1>1 DEF Expire, Due, EntRow
<1>3. DueAt(e) \in 0 .. now + FutureSkew /\ DueAt(e) \in Time /\ DueAt(e) <= now
  BY <1>1, <1>2, StayAccessAssumption DEF DueAt, AccessInv, Types, Time
<1>4. /\ r \in EntRow /\ Continues(ents[e], r, now) /\ r.reversed = ents[e].reversed
      /\ r.status = "TERMINATED" /\ r.reason = "TIME" /\ r.until <= now
  BY <1>1, <1>3, EndedFacts DEF Expire, Continues, Live
<1>5. ents' = [ents EXCEPT ![e] = r] /\ UNCHANGED audit
  BY DEF Expire
<1> HIDE DEF r
<1>6. ents' \in Seq(EntRow) /\ Len(ents') = Len(ents)
  BY <1>1, <1>4, <1>5 DEF Ids
<1>7. \A x \in Ids : ents'[x] = IF x = e THEN r ELSE ents[x]
  BY <1>1, <1>5 DEF Ids
<1> QED
  BY <1>1, <1>4, <1>5, <1>6, <1>7, RowContinues DEF RowsContinue, Live, Owed, OwedNext

\* Refunds and expiry keep the invariant.
LEMMA EndsKeep ==
    ASSUME AccessInv, NEW e \in Ids, Refund(e) \/ Expire(e)
    PROVE  AccessInv'
<1>1. RowsContinue /\ Len(ents') = Len(ents)
  BY RefundFacts, ExpireFacts
<1>2. UNCHANGED <<now, guest, queue, stay, audit, buying, switch>>
  BY DEF Refund, Expire
<1>3. ops' \in 0 .. MaxHappenings
  BY StayAccessAssumption DEF Refund, Expire, AccessInv, Types
<1>4. RowParts'
  BY <1>1, <1>2, NothingAdded
<1> QED
  BY <1>1, <1>2, <1>3, <1>4, RowsOnly

-----------------------------------------------------------------------------
(* The check-out conversion and the stay engine *)

\* The oldest event, and the others.
LEMMA OldestFacts ==
    ASSUME AccessInv, queue # <<>>
    PROVE  Head(queue) \in EventRow /\ Tail(queue) \in Seq(EventRow)
BY HeadTailProperties DEF AccessInv, Types

\* deriveBoundary never goes further ahead than a PMS time is trusted.
LEMMA BoundaryFacts ==
    ASSUME AccessInv, NEW ev \in EventRow
    PROVE  Boundary(ev) \in 0 .. now + FutureSkew /\ Boundary(ev) \in Time
<1>1. now \in Time /\ ev.at \in Time \cup {NoTime} /\ MaxTime \in Nat /\ FutureSkew \in Nat
  BY StayAccessAssumption DEF AccessInv, Types, EventRow
<1> QED
  BY <1>1 DEF Boundary, Time

\* The conversion adds one record to those that exist.
LEMMA ConvertWrites ==
    ASSUME AccessInv, NEW ev \in EventRow, Convert(ev)
    PROVE  /\ \A u, t : Owed(u, t) => OwedNext(u, t)
           /\ OwedNext(Boundary(ev), now)
<1>1. PICK row : audit' = Append(audit, row) /\ row.at = Boundary(ev) /\ row.made = now
  BY DEF Convert, Audited
<1>2. audit \in Seq(AuditRow) /\ Len(audit) \in Nat /\ DOMAIN audit = 1 .. Len(audit) /\ now \in Nat
  BY LenProperties, StayAccessAssumption DEF AccessInv, Types, Time
<1>3. /\ DOMAIN audit' = 1 .. Len(audit) + 1 /\ audit'[Len(audit) + 1] = row
      /\ \A i \in 1 .. Len(audit) : audit'[i] = audit[i]
  BY <1>1, <1>2
<1>4. Len(audit) + 1 \in DOMAIN audit'
  BY <1>2, <1>3
<1>5. ASSUME NEW u, NEW t, Owed(u, t) PROVE OwedNext(u, t)
  BY <1>2, <1>3, <1>5 DEF Owed, OwedNext
<1>6. OwedNext(Boundary(ev), now)
  BY <1>1, <1>2, <1>3, <1>4 DEF OwedNext
<1> QED
  BY <1>5, <1>6

\* What the conversion does to the rows: the live package ends at the boundary, and a grace row may follow.
LEMMA ConvertFacts ==
    ASSUME AccessInv, NEW ev \in EventRow, Convert(ev)
    PROVE  LET at == Boundary(ev)
               g == TerminatedAt(at)
           IN  /\ RowsContinue
               /\ \A e \in Ids : ents'[e] = g[e]
               /\ \A e \in Packages : g[e].status = "TERMINATED" /\ (Live(e) => g[e].until = at)
               /\ \A e \in Packages : Live(e) => g[e].reason = IF e \in Eligible(at) THEN "CONVERTED" ELSE "CHECKOUT"
               /\ \A e \in Ids \ Packages : g[e] = ents[e]
               /\ \A e \in Ids : ~Live(e) => g[e] = ents[e]
               /\ \A e \in Ids : g[e].reversed = ents[e].reversed
               /\ \/ Len(ents') = Len(ents) /\ ~(Eligible(at) # {} /\ switch)
                  \/ /\ Len(ents') = Len(ents) + 1 /\ Eligible(at) # {} /\ switch /\ GraceFits
                     /\ ents'[Len(ents) + 1] = Ent("GRACE", at, at + GraceLife, NoEnt)
                     /\ Ent("GRACE", at, at + GraceLife, NoEnt) \in EntRow
<1> DEFINE at == Boundary(ev)
           g == TerminatedAt(at)
           grace == Ent("GRACE", at, at + GraceLife, NoEnt)
           Why(e) == IF e \in Eligible(at) THEN "CONVERTED" ELSE "CHECKOUT"
<1>0. at \in 0 .. now + FutureSkew /\ at \in Time /\ at \in Nat
  BY BoundaryFacts
<1>a. /\ \A u, t : Owed(u, t) => OwedNext(u, t)
      /\ OwedNext(at, now)
  BY ConvertWrites
<1>1. \A e \in Ids : ents[e] \in EntRow
  BY RowTyped DEF AccessInv
<1>2. /\ \A e \in Ids : g[e] = IF e \in Packages /\ Live(e) THEN Ended(ents[e], at, Why(e)) ELSE ents[e]
      /\ g = [e \in Ids |-> g[e]]
  BY DEF TerminatedAt
<1>3. \A e : Why(e) \in Reason
  BY DEF Reason
<1> HIDE DEF g, Why, at
<1>4. \A e \in Ids : /\ g[e] \in EntRow /\ Continues(ents[e], g[e], now)
                     /\ e \in Packages => g[e].status = "TERMINATED" /\ (Live(e) => g[e].until = at)
                     /\ (e \notin Packages => g[e] = ents[e]) /\ (~Live(e) => g[e] = ents[e])
  <2> SUFFICES ASSUME NEW e \in Ids
               PROVE  /\ g[e] \in EntRow /\ Continues(ents[e], g[e], now)
                      /\ e \in Packages => g[e].status = "TERMINATED" /\ (Live(e) => g[e].until = at)
                      /\ (e \notin Packages => g[e] = ents[e]) /\ (~Live(e) => g[e] = ents[e])
    OBVIOUS
  <2>1. CASE e \in Packages /\ Live(e)
    BY <1>0, <1>1, <1>2, <1>3, <2>1, RowContinues, EndedFacts
  <2>2. CASE ~(e \in Packages /\ Live(e))
    <3>1. g[e] = ents[e]
      BY <1>2, <2>2
    <3>2. e \in Packages => ents[e].status = "TERMINATED"
      BY <1>1, <2>2 DEF Live, EntRow
    <3> QED
      BY <1>1, <2>2, <3>1, <3>2, RowContinues
  <2> QED
    BY <2>1, <2>2
<1>5. \A e \in Ids : g[e].reversed = ents[e].reversed
  BY <1>0, <1>1, <1>2, <1>3, EndedFacts
<1>r. \A e \in Packages : Live(e) => g[e].reason = Why(e)
  BY <1>0, <1>1, <1>2, <1>3, EndedFacts DEF Packages
<1>6. g \in [Ids -> EntRow]
  BY <1>2, <1>4
<1>7. g \in Seq(EntRow) /\ Len(g) = Len(ents) /\ Len(ents) \in Nat
  BY <1>6, MappedRows DEF AccessInv
<1>8. grace \in EntRow
  <2>1. at + GraceLife \in Nat \cup {NoTime} /\ NoEnt \in Nat /\ "GRACE" \in Kind
    BY <1>0, StayAccessAssumption DEF NoEnt, Kind
  <2> QED
    BY <1>0, <2>1, EntFacts
<1> HIDE DEF grace
<1>9. \/ ents' = g /\ ~(Eligible(at) # {} /\ switch)
      \/ ents' = Append(g, grace) /\ Eligible(at) # {} /\ switch /\ GraceFits
  BY DEF Convert, at, g, grace
<1>10. CASE ents' = g /\ ~(Eligible(at) # {} /\ switch)
  <2>1. RowsContinue
    BY <1>a, <1>4, <1>7, <1>10 DEF RowsContinue, Packages
  <2> QED
    BY <1>4, <1>5, <1>r, <1>7, <1>10, <2>1 DEF at, g, Why, Packages
<1>11. CASE ents' = Append(g, grace) /\ Eligible(at) # {} /\ switch /\ GraceFits
  <2>1. /\ ents' \in Seq(EntRow) /\ Len(ents') = Len(ents) + 1 /\ ents'[Len(ents) + 1] = grace
        /\ \A e \in 1 .. Len(ents) : ents'[e] = g[e]
    BY <1>7, <1>8, <1>11, AppendProperties
  <2>2. RowsContinue
    BY <1>a, <1>4, <1>7, <2>1 DEF RowsContinue, Ids, Packages
  <2> QED
    BY <1>4, <1>5, <1>r, <1>8, <1>11, <2>1, <2>2 DEF at, g, grace, Why, Packages, Ids
<1> QED
  BY <1>9, <1>10, <1>11

\* The stay engine takes the oldest event; what it leaves in the rows, the records and the stay is in shape.
LEMMA EngineKeeps ==
    ASSUME AccessInv, RowsContinue, RowParts', queue # <<>>, queue' = Tail(queue),
           UNCHANGED <<now, guest, buying, switch, ops>>,
           stay' \in StayRow, audit' \in Seq(AuditRow),
           stay'.version = IF stay'.status = "IN_HOUSE" THEN Len(audit') + 1 ELSE Len(audit'),
           \A i \in DOMAIN audit' : audit'[i].grace \in 0 .. Len(ents')
    PROVE  AccessInv'
<1>1. switch \in BOOLEAN /\ switch' \in BOOLEAN
  BY DEF AccessInv, Types
<1>2. queue' \in Seq(EventRow)
  BY OldestFacts
<1>3. Types'
  BY <1>1, <1>2 DEF AccessInv, Types, RowsContinue
<1>4. Shapes'
  BY DEF Shapes, RowParts
<1>5. Past'
  BY DEF Past, RowParts
<1> QED
  BY <1>3, <1>4, <1>5 DEF AccessInv, RowParts

\* A check-out of the room in which the stay is.
LEMMA ConvertKeeps ==
    ASSUME AccessInv, queue # <<>>, queue' = Tail(queue), UNCHANGED <<now, guest, buying, switch, ops>>,
           stay.status = "IN_HOUSE", Convert(Head(queue))
    PROVE  AccessInv'
<1> DEFINE ev == Head(queue)
<1>1. ev \in EventRow
  BY OldestFacts
<1> DEFINE at == Boundary(ev)
           g == TerminatedAt(at)
           grace == Ent("GRACE", at, at + GraceLife, NoEnt)
           held == LiveEnts \cap Packages
           row == [at |-> at, made |-> now, room |-> ev.room, held |-> held,
                   grace |-> IF Eligible(at) # {} /\ switch THEN Len(ents) + 1 ELSE NoEnt]
<1> HIDE DEF ev
<1>0. at \in 0 .. now + FutureSkew /\ at \in Time /\ at \in Nat /\ now \in Time /\ Len(ents) \in Nat
  BY <1>1, BoundaryFacts, LenProperties DEF AccessInv, Types
<1>2. /\ RowsContinue
      /\ \A e \in Ids : ents'[e] = g[e]
      /\ \A e \in Packages : g[e].status = "TERMINATED"
      /\ \A e \in Ids : ~Live(e) => g[e] = ents[e]
      /\ \/ Len(ents') = Len(ents) /\ ~(Eligible(at) # {} /\ switch)
         \/ /\ Len(ents') = Len(ents) + 1 /\ Eligible(at) # {} /\ switch /\ GraceFits
            /\ ents'[Len(ents) + 1] = grace /\ grace \in EntRow
  BY <1>1, ConvertFacts DEF ev
<1>3. RowParts'
  <2>1. CASE Len(ents') = Len(ents)
    BY <1>2, <2>1, NothingAdded
  <2>2. CASE /\ Len(ents') = Len(ents) + 1 /\ GraceFits
             /\ ents'[Len(ents) + 1] = grace /\ grace \in EntRow
    <3>1. \A e \in Ids : ents'[e].status = "TERMINATED"
      <4> SUFFICES ASSUME NEW e \in Ids PROVE ents'[e].status = "TERMINATED"
        OBVIOUS
      <4>1. ents[e].status \in {"ACTIVE", "TERMINATED"}
        BY RowTyped DEF AccessInv, EntRow
      <4>2. Live(e) => e \in Packages
        BY <2>2 DEF GraceFits, LiveEnts
      <4> QED
        BY <1>2, <4>1, <4>2 DEF Live
    <3>2. grace.status = "ACTIVE" /\ grace.from = at /\ grace.restores = 0 /\ grace.kind = "GRACE"
      BY DEF Ent, NoEnt
    <3>3. grace.from <= now + FutureSkew /\ grace.restores \in 0 .. Len(ents)
      BY <1>0, <3>2
    <3> HIDE DEF grace, g
    <3> QED
      BY <1>2, <2>2, <3>1, <3>2, <3>3, OneAdded
  <2> QED
    BY <1>2, <2>1, <2>2
<1>4. /\ audit' = Append(audit, row) /\ stay' = [stay EXCEPT !.status = "CHECKED_OUT"]
  BY DEF Convert, Audited, ev
<1>5. row \in AuditRow /\ row.grace \in 0 .. Len(ents')
  <2>1. held \in SUBSET Nat
    BY <1>0 DEF LiveEnts, Ids
  <2>2. ev.room \in Rooms
    BY <1>1 DEF EventRow
  <2> HIDE DEF held, at, g, grace
  <2> QED
    BY <1>0, <1>2, <2>1, <2>2 DEF AuditRow, NoEnt
<1> HIDE DEF row, at, g, grace, held
<1>6. audit \in Seq(AuditRow) /\ Len(audit) \in Nat /\ DOMAIN audit = 1 .. Len(audit)
  BY LenProperties DEF AccessInv, Types
<1>7. /\ audit' \in Seq(AuditRow) /\ Len(audit') = Len(audit) + 1 /\ audit'[Len(audit) + 1] = row
      /\ \A i \in 1 .. Len(audit) : audit'[i] = audit[i]
      /\ DOMAIN audit' = 1 .. Len(audit')
  BY <1>4, <1>5, <1>6, AppendProperties, LenProperties
<1>8. \A i \in DOMAIN audit' : audit'[i].grace \in 0 .. Len(ents')
  <2> SUFFICES ASSUME NEW i \in 1 .. Len(audit) + 1 PROVE audit'[i].grace \in 0 .. Len(ents')
    BY <1>7
  <2>1. CASE i = Len(audit) + 1
    BY <1>5, <1>7, <2>1
  <2>2. CASE i \in 1 .. Len(audit)
    <3>1. audit[i].grace \in 0 .. Len(ents)
      BY <1>6, <2>2 DEF AccessInv, Shapes
    <3> QED
      BY <1>2, <1>7, <2>2, <3>1 DEF RowsContinue
  <2> QED
    BY <1>6, <2>1, <2>2
<1>9. /\ stay' \in StayRow /\ stay'.status = "CHECKED_OUT" /\ stay'.version = stay.version
      /\ stay.version = Len(audit) + 1
  BY <1>4 DEF AccessInv, Types, Shapes, StayRow
<1> QED
  BY <1>2, <1>3, <1>7, <1>8, <1>9, EngineKeeps

\* The window a continuation carries on, and the row it restores.
LEMMA ContinueFacts ==
    ASSUME AccessInv, NEW o \in Converted, Continue(o), UNCHANGED audit
    PROVE  LET r == Ent("CONTINUATION", now, ents[o].window, o)
           IN  /\ o \in Ids
               /\ r \in EntRow
               /\ r.status = "ACTIVE" /\ r.from = now /\ r.restores = o /\ r.kind = "CONTINUATION" /\ ~r.reversed
               /\ RowsContinue
               /\ Len(ents') = Len(ents) + 1
               /\ ents'[Len(ents) + 1] = r
               /\ \A e \in Ids : ents'[e].status = "TERMINATED" /\ ents'[e].reversed = ents[e].reversed
               /\ \A e \in Ids : ents'[e].reason = "CONVERTED" => ents[e].reason = "CONVERTED"
               /\ r.reason = "NONE"
<1> DEFINE r == Ent("CONTINUATION", now, ents[o].window, o)
<1>1. o \in Ids /\ ents[o] \in EntRow /\ o \in Nat /\ now \in Time
  BY RowTyped DEF AccessInv, Types, Converted, Packages
<1>2. ents[o].window \in Nat \cup {NoTime} /\ "CONTINUATION" \in Kind
  BY <1>1 DEF EntRow, Kind
<1>3. r \in EntRow /\ r.status = "ACTIVE" /\ r.from = now /\ r.restores = o /\ r.kind = "CONTINUATION" /\ ~r.reversed
  BY <1>1, <1>2, EntFacts
<1>r. r.reason = "NONE"
  BY DEF Ent
<1>4. ents' = Append([e \in Ids |-> IF Live(e) THEN Ended(ents[e], now, "SUPERSEDED") ELSE ents[e]], r)
  BY DEF Continue
<1> HIDE DEF r
<1>5. /\ RowsContinue
      /\ Len(ents') = Len(ents) + 1
      /\ ents'[Len(ents) + 1] = r
      /\ \A e \in Ids : ents'[e].status = "TERMINATED" /\ ents'[e].reversed = ents[e].reversed
      /\ \A e \in Ids : ents'[e].reason = "CONVERTED" => ents[e].reason = "CONVERTED"
  BY <1>3, <1>4, SupersedeFacts
<1> QED
  BY <1>1, <1>3, <1>r, <1>5 DEF r

\* Rows left as they are continue.
LEMMA SameRows ==
    ASSUME AccessInv, UNCHANGED <<ents, audit>>
    PROVE  RowsContinue
BY LenProperties, RowContinues DEF AccessInv, Types, RowsContinue, Live, Owed, OwedNext

\* A check-in, in house or not, and everything the engine skips.
LEMMA CheckInKeeps ==
    ASSUME AccessInv, queue # <<>>, queue' = Tail(queue), UNCHANGED <<now, guest, buying, switch, ops>>,
           UNCHANGED audit, UNCHANGED ents \/ \E o \in Converted : Continue(o),
           \/ UNCHANGED stay
           \/ /\ stay.status = "CHECKED_OUT"
              /\ stay' = [status |-> "IN_HOUSE", room |-> Head(queue).room, version |-> stay.version + 1]
           \/ /\ stay.status = "IN_HOUSE"
              /\ stay' = [stay EXCEPT !.room = Head(queue).room]
    PROVE  AccessInv'
<1> DEFINE ev == Head(queue)
<1>1. ev \in EventRow
  BY OldestFacts
<1> HIDE DEF ev
<1>2. stay \in StayRow /\ audit \in Seq(AuditRow) /\ Len(audit) \in Nat
  BY LenProperties DEF AccessInv, Types
<1>3. ev.room \in Rooms
  BY <1>1 DEF EventRow
<1>4. /\ stay' \in StayRow
      /\ stay'.version = IF stay'.status = "IN_HOUSE" THEN Len(audit) + 1 ELSE Len(audit)
  <2>1. stay.version = IF stay.status = "IN_HOUSE" THEN Len(audit) + 1 ELSE Len(audit)
    BY DEF AccessInv, Shapes
  <2>2. CASE UNCHANGED stay
    BY <1>2, <2>1, <2>2
  <2>3. CASE /\ stay.status = "CHECKED_OUT"
             /\ stay' = [status |-> "IN_HOUSE", room |-> ev.room, version |-> stay.version + 1]
    BY <1>2, <1>3, <2>1, <2>3 DEF StayRow
  <2>4. CASE stay.status = "IN_HOUSE" /\ stay' = [stay EXCEPT !.room = ev.room]
    BY <1>2, <1>3, <2>1, <2>4 DEF StayRow
  <2> QED
    BY <2>2, <2>3, <2>4 DEF ev
<1>5. RowsContinue
  BY ContinueFacts, SameRows
<1>6. RowParts'
  <2>1. CASE UNCHANGED ents
    BY <1>5, <2>1, NothingAdded
  <2>2. ASSUME NEW o \in Converted, Continue(o) PROVE RowParts'
    <3> DEFINE r == Ent("CONTINUATION", now, ents[o].window, o)
    <3>1. /\ o \in Ids /\ r \in EntRow
          /\ r.status = "ACTIVE" /\ r.from = now /\ r.restores = o
          /\ Len(ents') = Len(ents) + 1 /\ ents'[Len(ents) + 1] = r
          /\ \A e \in Ids : ents'[e].status = "TERMINATED"
      BY <2>2, ContinueFacts
    <3> HIDE DEF r
    <3>2. r.from <= now + FutureSkew /\ r.restores \in 0 .. Len(ents)
      BY <3>1, RowTyped, StayAccessAssumption DEF AccessInv, Types, Time, Ids
    <3> QED
      BY <1>5, <3>1, <3>2, OneAdded
  <2> QED
    BY <2>1, <2>2
<1>7. \A i \in DOMAIN audit : audit[i].grace \in 0 .. Len(ents')
  BY <1>5 DEF AccessInv, Shapes, RowsContinue
<1> QED
  BY <1>2, <1>4, <1>5, <1>6, <1>7, EngineKeeps

\* The stay engine on the oldest event.
LEMMA EngineSteps ==
    ASSUME ProcessNext
    PROVE  /\ queue # <<>> /\ queue' = Tail(queue) /\ UNCHANGED <<now, guest, buying, switch, ops>>
           /\ \/ stay.status = "IN_HOUSE" /\ Convert(Head(queue))
              \/ /\ UNCHANGED audit
                 /\ UNCHANGED ents \/ \E o \in Converted : Restorable(o) /\ Continue(o)
                 /\ \/ UNCHANGED stay
                    \/ /\ stay.status = "CHECKED_OUT"
                       /\ stay' = [status |-> "IN_HOUSE", room |-> Head(queue).room, version |-> stay.version + 1]
                    \/ /\ stay.status = "IN_HOUSE"
                       /\ stay' = [stay EXCEPT !.room = Head(queue).room]
<1> DEFINE ev == Head(queue)
<1>1. queue # <<>> /\ queue' = Tail(queue) /\ Apply(ev) /\ UNCHANGED <<now, guest, buying, switch, ops>>
  BY DEF ProcessNext
<1> HIDE DEF ev
<1>2. RestoreRoomMove => UNCHANGED ents \/ \E o \in Converted : Restorable(o) /\ Continue(o)
  BY DEF RestoreRoomMove
<1>3. CASE ev.type = "GO" /\ stay.status = "IN_HOUSE" /\ ev.room = stay.room
  BY <1>1, <1>3 DEF Apply, ev
<1>4. CASE ev.type = "GI" /\ stay.status = "CHECKED_OUT"
  <2>1. /\ stay' = [status |-> "IN_HOUSE", room |-> ev.room, version |-> stay.version + 1]
        /\ IF ev.room # stay.room THEN RestoreRoomMove ELSE UNCHANGED ents
        /\ audit' = audit
    BY <1>1, <1>4 DEF Apply
  <2> QED
    BY <1>1, <1>2, <1>4, <2>1 DEF ev
<1>5. CASE ev.type = "GI" /\ stay.status = "IN_HOUSE"
  <2>1. stay' = [stay EXCEPT !.room = ev.room] /\ UNCHANGED <<ents, audit>>
    BY <1>1, <1>5 DEF Apply
  <2> QED
    BY <1>1, <1>5, <2>1 DEF ev
<1>6. CASE /\ ~(ev.type = "GO" /\ stay.status = "IN_HOUSE" /\ ev.room = stay.room)
           /\ ~(ev.type = "GI" /\ stay.status = "CHECKED_OUT")
           /\ ~(ev.type = "GI" /\ stay.status = "IN_HOUSE")
  <2>1. UNCHANGED <<stay, ents, audit>>
    BY <1>1, <1>6 DEF Apply
  <2> QED
    BY <1>1, <2>1
<1> QED
  BY <1>3, <1>4, <1>5, <1>6

\* The initial state: the guest is in house, with at most one package.
LEMMA InitAccess ==
    ASSUME Init
    PROVE  AccessInv
<1>0. 0 \in Time /\ PackageLife \in Nat /\ MaxHappenings \in Nat /\ MaxTime \in Nat
  BY StayAccessAssumption DEF Time
<1> DEFINE Short == /\ ents \in Seq(EntRow) /\ Len(ents) \in Nat /\ Len(ents) <= 1
                    /\ \A e \in Ids : e = 1 /\ ents[e].restores = 0 /\ ents[e].from = 0 /\ ents[e].status = "ACTIVE"
<1>s. FutureSkew \in Nat
  BY StayAccessAssumption
<1>1. Short
  <2>1. CASE ents = <<>>
    BY <2>1 DEF Ids
  <2>2. ASSUME NEW window \in {NoTime, PackageLife}, ents = <<Ent("PACKAGE", 0, window, NoEnt)>>
        PROVE  Short
    <3> DEFINE r == Ent("PACKAGE", 0, window, NoEnt)
    <3>1. window \in Nat \cup {NoTime} /\ "PACKAGE" \in Kind /\ NoEnt \in Nat /\ NoEnt = 0
      BY <1>0 DEF Kind, NoEnt
    <3>2. r \in EntRow /\ r.restores = 0 /\ r.from = 0 /\ r.status = "ACTIVE"
      BY <1>0, <3>1, EntFacts
    <3> HIDE DEF r
    <3>3. ents = <<r>> /\ Len(ents) = 1 /\ ents[1] = r /\ ents \in Seq(EntRow)
      BY <2>2, <3>2 DEF r
    <3>4. \A e \in 1 .. 1 : e = 1
      OBVIOUS
    <3> QED
      BY <3>2, <3>3, <3>4 DEF Ids
  <2> QED
    BY <2>1, <2>2 DEF Init
<1>2. switch \in BOOLEAN
  BY DEF Init
<1>3. queue \in Seq(EventRow) /\ audit \in Seq(AuditRow) /\ DOMAIN queue = {} /\ DOMAIN audit = {} /\ Len(audit) = 0
  BY DEF Init
<1>4. Types
  BY <1>0, <1>1, <1>2, <1>3 DEF Init, Types, StayRow
<1>5. Shapes
  BY <1>1, <1>3 DEF Init, Shapes
<1>6. Past
  BY <1>1, <1>3, <1>s DEF Init, Past, RowPast
<1> QED
  BY <1>1, <1>4, <1>5, <1>6 DEF AccessInv, OneLive, InTurn

\* Every step keeps the invariant.
LEMMA NextAccess ==
    ASSUME AccessInv, [Next]_vars
    PROVE  AccessInv'
<1>1. CASE UNCHANGED vars
  <2>1. switch \in BOOLEAN /\ switch' \in BOOLEAN
    BY <1>1 DEF vars, AccessInv, Types
  <2>2. Types'
    BY <1>1, <2>1 DEF vars, AccessInv, Types
  <2> QED
    BY <1>1, <2>2 DEF vars, AccessInv, Shapes, Past, RowPast, OneLive, InTurn, Precedes, Owed, Live, Ids
<1>2. CASE ProcessNext
  BY <1>2, EngineSteps, ConvertKeeps, CheckInKeeps
<1>3. CASE Next /\ ~ProcessNext
  BY <1>3, HotelKeeps, ClockKeeps, GrantKeeps, EndsKeep DEF Next
<1> QED
  BY <1>1, <1>2, <1>3

\* For all constants: the inductive invariant of the stay's access holds throughout.
THEOREM AccessInvariance == Spec => []AccessInv
<1>1. Init => AccessInv
  BY InitAccess
<1>2. AccessInv /\ [Next]_vars => AccessInv'
  BY NextAccess
<1> QED
  BY <1>1, <1>2, PTL DEF Spec

\* For all constants: the type invariant, with one check-out record per episode and continuations of earlier rows.
THEOREM AccessTypes == Spec => []TypeOK
<1>1. AccessInv => TypeOK
  <2> SUFFICES ASSUME AccessInv PROVE TypeOK
    OBVIOUS
  <2>1. now \in Time /\ ops \in 0 .. MaxHappenings /\ guest \in Rooms \cup {Away}
    BY DEF AccessInv, Types
  <2>2. switch \in BOOLEAN
    BY DEF AccessInv, Types
  <2>3. \A i \in DOMAIN queue : queue[i] \in EventRow
    BY ElementOfSeq, LenProperties DEF AccessInv, Types
  <2>4. \A i \in DOMAIN audit : audit[i] \in AuditRow
    BY ElementOfSeq, LenProperties DEF AccessInv, Types
  <2>5. \A e \in Ids : ents[e] \in EntRow /\ ents[e].restores \in 0 .. e - 1
    BY RowTyped DEF AccessInv, Shapes
  <2>6. stay \in StayRow
    BY DEF AccessInv, Types
  <2>7. \A i \in DOMAIN queue : queue[i].type \in {"GI", "GO"} /\ queue[i].room \in Rooms /\ queue[i].at \in Time \cup {NoTime}
    BY <2>3 DEF EventRow
  <2>8. stay.status \in {"IN_HOUSE", "CHECKED_OUT"} /\ stay.room \in Rooms
    BY <2>6 DEF StayRow
  <2>9. \A e \in Ids : /\ ents[e].kind \in {"PACKAGE", "GRACE", "CONTINUATION"}
                       /\ ents[e].status \in {"ACTIVE", "TERMINATED"}
                       /\ ents[e].from \in Time
                       /\ ents[e].restores \in 0 .. e - 1
    BY <2>5 DEF EntRow, Kind
  <2>10. \A i \in DOMAIN audit : {audit[i].at, audit[i].made} \subseteq Time /\ audit[i].room \in Rooms /\ audit[i].grace \in 0 .. Len(ents)
    BY <2>4 DEF AuditRow, AccessInv, Shapes
  <2>11. stay.version = IF stay.status = "IN_HOUSE" THEN Len(audit) + 1 ELSE Len(audit)
    BY DEF AccessInv, Shapes
  <2> QED
    BY <2>1, <2>2, <2>7, <2>8, <2>9, <2>10, <2>11 DEF TypeOK
<1> QED
  BY <1>1, AccessInvariance, PTL

\* At a time that no check-out leads, at most one package is active.
LEMMA OneOriginal ==
    ASSUME AccessInv, NEW at \in Time, ~Lead(at)
    PROVE  \A e, f \in ActiveOriginals(at) : e = f
<1> SUFFICES ASSUME NEW e \in ActiveOriginals(at), NEW f \in ActiveOriginals(at), e < f PROVE FALSE
  <2>1. \A e \in ActiveOriginals(at) : e \in Nat
    BY RowTyped DEF AccessInv, ActiveOriginals, Packages
  <2> QED
    BY <2>1
<1>1. e \in Ids /\ f \in Ids /\ ents[e].kind # "GRACE" /\ ents[f].kind # "GRACE"
  BY DEF ActiveOriginals, Packages
<1>2. Precedes(ents[e], ents[f])
  BY <1>1 DEF AccessInv, InTurn
<1>3. RowPast(ents[e]) /\ ents[f] \in EntRow
  BY <1>1, RowTyped DEF AccessInv, Past
<1>4. ents[e].until \in Nat /\ ents[f].from \in Nat /\ at \in Nat /\ ents[e].status # "ACTIVE"
  BY <1>2, <1>3, StayAccessAssumption DEF RowPast, Precedes, EntRow, Time
<1>5. ents[f].from <= at /\ at < ents[e].until
  BY <1>4 DEF ActiveOriginals, ActiveAt
<1>6. PICK i \in DOMAIN audit : audit[i].made <= ents[f].from /\ audit[i].at = ents[e].until
  BY <1>2, <1>4, <1>5 DEF Precedes, Owed
<1>7. audit[i] \in AuditRow
  BY ElementOfSeq, LenProperties DEF AccessInv, Types
<1>8. audit[i].made \in Nat
  BY <1>7, StayAccessAssumption DEF AuditRow, Time
<1> QED
  BY <1>8, <1>4, <1>5, <1>6, <1>7 DEF Lead

\* For all constants: no two packages of the stay were active at one time, in the history as it stands now, but for
\* the times by which a trusted PMS clock led a check-out. A package ends no later than the next one begins, even where
\* a conversion dates its end before the present; where it dates it ahead, its record was there when the next one began.
THEOREM OneActive == Spec => []OneActiveAtATime
<1>1. AccessInv => OneActiveAtATime
  <2> SUFFICES ASSUME AccessInv, NEW at \in Time, ~Lead(at) PROVE Cardinality(ActiveOriginals(at)) <= 1
    BY DEF OneActiveAtATime
  <2>1. \A e, f \in ActiveOriginals(at) : e = f
    BY OneOriginal
  <2>2. CASE ActiveOriginals(at) = {}
    BY <2>2, FS_EmptySet
  <2>3. CASE ActiveOriginals(at) # {}
    <3>1. PICK e : ActiveOriginals(at) = {e}
      BY <2>1, <2>3
    <3>2. Cardinality({e}) = 1
      BY FS_Singleton
    <3> QED
      BY <3>1, <3>2
  <2> QED
    BY <2>2, <2>3
<1> QED
  BY <1>1, AccessInvariance, PTL

-----------------------------------------------------------------------------
(* What a row goes back to *)

\* A set of numbers that has 0 and the successor of every member has every number.
LEMMA NatSetInduction ==
    ASSUME NEW S \in SUBSET Nat, 0 \in S, \A n \in S : n + 1 \in S
    PROVE  S = Nat
<1> DEFINE R == OpToRel(<, Nat)
           T == Nat \ S
<1> SUFFICES ASSUME T # {} PROVE FALSE
  OBVIOUS
<1>1. IsWellFoundedOn(R, Nat)
  BY NatLessThanWellFounded, Zenon
<1> HIDE DEF R
<1>2. PICK x \in T : \A y \in T : <<y, x>> \notin R
  BY <1>1, WFMin
<1>3. x - 1 \in T
  OBVIOUS
<1>4. <<x - 1, x>> \in R
  BY <1>3 DEF R, OpToRel
<1> QED
  BY <1>2, <1>3, <1>4

\* A set of numbers that is not empty has a least one.
LEMMA LeastNumber ==
    ASSUME NEW T \in SUBSET Nat, T # {}
    PROVE  \E x \in T : \A y \in T : x <= y
<1> DEFINE R == OpToRel(<, Nat)
<1>1. IsWellFoundedOn(R, Nat)
  BY NatLessThanWellFounded, Zenon
<1> HIDE DEF R
<1>2. PICK x \in T : \A y \in T : <<y, x>> \notin R
  BY <1>1, WFMin
<1>3. \A y \in T : ~(y < x)
  BY <1>2 DEF R, OpToRel
<1> QED
  BY <1>3

\* f follows the continuations of the first k rows of s back to the row that restores none.
GoesBack(f, s, k) == f = [n \in 0 .. k |-> IF n = 0 \/ s[n].restores = NoEnt THEN n ELSE f[s[n].restores]]

\* The rows restore earlier rows.
Backward(s) == Len(s) \in Nat /\ \A n \in 1 .. Len(s) : s[n].restores \in 0 .. n - 1

\* Following continuations back is well defined.
LEMMA GoesBackExists ==
    ASSUME NEW s, Backward(s)
    PROVE  \E f : GoesBack(f, s, Len(s))
<1> DEFINE S == {k \in Nat : k <= Len(s) => \E f : GoesBack(f, s, k)}
<1>1. 0 \in S
  <2> DEFINE f == [n \in 0 .. 0 |-> n]
  <2>1. f = [n \in 0 .. 0 |-> IF n = 0 \/ s[n].restores = NoEnt THEN n ELSE f[s[n].restores]]
    OBVIOUS
  <2> HIDE DEF f
  <2> QED
    BY <2>1 DEF GoesBack
<1>2. ASSUME NEW k \in S PROVE k + 1 \in S
  <2> SUFFICES ASSUME k + 1 <= Len(s) PROVE \E f : GoesBack(f, s, k + 1)
    OBVIOUS
  <2>1. PICK f : GoesBack(f, s, k)
    BY DEF Backward
  <2> DEFINE g == [n \in 0 .. k + 1 |-> IF n <= k THEN f[n]
                                        ELSE IF s[n].restores = NoEnt THEN n ELSE f[s[n].restores]]
  <2>2. \A n \in 0 .. k : f[n] = IF n = 0 \/ s[n].restores = NoEnt THEN n ELSE f[s[n].restores]
    BY <2>1 DEF GoesBack
  <2>3. \A n \in 1 .. k + 1 : s[n].restores \in 0 .. k /\ g[s[n].restores] = f[s[n].restores]
    BY DEF Backward
  <2>4. \A n \in 0 .. k + 1 : g[n] = IF n = 0 \/ s[n].restores = NoEnt THEN n ELSE g[s[n].restores]
    <3> SUFFICES ASSUME NEW n \in 0 .. k + 1
                 PROVE  g[n] = IF n = 0 \/ s[n].restores = NoEnt THEN n ELSE g[s[n].restores]
      OBVIOUS
    <3>1. CASE n <= k
      <4>1. g[n] = f[n]
        BY <3>1
      <4> HIDE DEF g
      <4> QED
        BY <2>2, <2>3, <3>1, <4>1
    <3>2. CASE n = k + 1
      <4>1. g[n] = IF s[n].restores = NoEnt THEN n ELSE f[s[n].restores]
        BY <3>2
      <4> HIDE DEF g
      <4> QED
        BY <2>3, <3>2, <4>1
    <3> QED
      BY <3>1, <3>2
  <2>5. g = [n \in 0 .. k + 1 |-> g[n]]
    OBVIOUS
  <2> HIDE DEF g
  <2>6. GoesBack(g, s, k + 1)
    BY <2>4, <2>5 DEF GoesBack
  <2> QED
    BY <2>6
<1> HIDE DEF S
<1>3. S = Nat
  <2>1. S \in SUBSET Nat
    BY DEF S
  <2> QED
    BY <1>1, <1>2, <2>1, NatSetInduction
<1> QED
  BY <1>3 DEF S, Backward

\* Two tables whose rows restore the same rows go back to the same rows.
LEMMA GoesBackAgrees ==
    ASSUME NEW s, NEW t, NEW f, NEW g, Backward(s), Len(t) \in Nat, Len(s) <= Len(t),
           \A n \in 1 .. Len(s) : t[n].restores = s[n].restores,
           GoesBack(f, s, Len(s)), GoesBack(g, t, Len(t))
    PROVE  \A n \in 0 .. Len(s) : f[n] = g[n]
<1> DEFINE T == {n \in 0 .. Len(s) : f[n] # g[n]}
<1> SUFFICES ASSUME T # {} PROVE FALSE
  OBVIOUS
<1>1. T \in SUBSET Nat
  BY DEF Backward
<1>2. PICK x \in T : \A y \in T : x <= y
  <2> HIDE DEF T
  <2> QED
    BY <1>1, LeastNumber
<1>3. /\ f[x] = IF x = 0 \/ s[x].restores = NoEnt THEN x ELSE f[s[x].restores]
      /\ g[x] = IF x = 0 \/ t[x].restores = NoEnt THEN x ELSE g[t[x].restores]
  BY DEF GoesBack, Backward
<1>4. x # 0 /\ x \in 1 .. Len(s) /\ f[s[x].restores] # g[s[x].restores]
  BY <1>1, <1>3
<1>5. s[x].restores \in 0 .. x - 1 /\ x \in Nat /\ Len(s) \in Nat
  BY <1>1, <1>4 DEF Backward
<1>6. s[x].restores \in T /\ s[x].restores < x
  BY <1>4, <1>5
<1> QED
  BY <1>2, <1>5, <1>6

\* A row goes back to an earlier row, or to itself.
LEMMA GoesBackBounds ==
    ASSUME NEW s, NEW f, Backward(s), GoesBack(f, s, Len(s))
    PROVE  \A n \in 1 .. Len(s) : f[n] \in 1 .. n
<1> DEFINE T == {n \in 1 .. Len(s) : f[n] \notin 1 .. n}
<1> SUFFICES ASSUME T # {} PROVE FALSE
  OBVIOUS
<1>1. T \in SUBSET Nat
  BY DEF Backward
<1>2. PICK x \in T : \A y \in T : x <= y
  <2> HIDE DEF T
  <2> QED
    BY <1>1, LeastNumber
<1>3. f[x] = IF x = 0 \/ s[x].restores = NoEnt THEN x ELSE f[s[x].restores]
  BY DEF GoesBack, Backward
<1>4. x \in 1 .. Len(s) /\ s[x].restores \in 0 .. x - 1 /\ x \in Nat /\ Len(s) \in Nat
  BY <1>1 DEF Backward
<1>5. s[x].restores # NoEnt /\ f[x] = f[s[x].restores]
  BY <1>3, <1>4
<1>6. s[x].restores \in 1 .. x - 1 /\ s[x].restores \in 1 .. Len(s)
  BY <1>4, <1>5 DEF NoEnt
<1>7. s[x].restores \notin T
  BY <1>2, <1>4, <1>6
<1>8. f[x] \in 1 .. s[x].restores
  BY <1>5, <1>6, <1>7
<1> QED
  BY <1>4, <1>6, <1>8

\* The function that follows the continuations of a table back.
RowBack(s) == CHOOSE f : f = [n \in 0 .. Len(s) |-> IF n = 0 \/ s[n].restores = NoEnt THEN n ELSE f[s[n].restores]]

\* It is what its definition says.
LEMMA RowBackFacts ==
    ASSUME NEW s, Backward(s)
    PROVE  GoesBack(RowBack(s), s, Len(s))
BY GoesBackExists DEF GoesBack, RowBack

\* A step that keeps what the rows restore keeps what they go back to.
LEMMA FundingKept ==
    ASSUME AccessInv, RowsContinue, AccessInv'
    PROVE  \A e \in Ids : Funding(e)' = Funding(e) /\ Funding(e) \in 1 .. e
<1>1. Backward(ents) /\ Backward(ents')
  BY LenProperties DEF AccessInv, Types, Shapes, Backward, Ids
<1>2. \A e : Funding(e) = RowBack(ents)[e] /\ Funding(e)' = RowBack(ents')[e]
  BY DEF Funding, RowBack
<1>3. GoesBack(RowBack(ents), ents, Len(ents)) /\ GoesBack(RowBack(ents'), ents', Len(ents'))
  BY <1>1, RowBackFacts
<1>4. \A n \in 1 .. Len(ents) : ents'[n].restores = ents[n].restores
  BY DEF RowsContinue, Continues, Ids
<1>5. Len(ents) \in Nat /\ Len(ents') \in Nat /\ Len(ents) <= Len(ents')
  BY DEF RowsContinue
<1>6. \A n \in 0 .. Len(ents) : RowBack(ents)[n] = RowBack(ents')[n]
  BY <1>1, <1>3, <1>4, <1>5, GoesBackAgrees
<1>7. \A n \in 1 .. Len(ents) : RowBack(ents)[n] \in 1 .. n
  BY <1>1, <1>3, GoesBackBounds
<1>8. \A e \in Ids : e \in 0 .. Len(ents) /\ e \in 1 .. Len(ents)
  BY <1>5 DEF Ids
<1> QED
  BY <1>2, <1>6, <1>7, <1>8

\* A row that restores none goes back to itself; a continuation goes back to where the row it restores does.
LEMMA RowBackStep ==
    ASSUME NEW s, Backward(s), NEW e \in 1 .. Len(s)
    PROVE  RowBack(s)[e] = IF s[e].restores = NoEnt THEN e ELSE RowBack(s)[s[e].restores]
<1>1. e \in 0 .. Len(s) /\ e # 0
  BY DEF Backward
<1>2. \A n \in 0 .. Len(s) : RowBack(s)[n] = IF n = 0 \/ s[n].restores = NoEnt THEN n ELSE RowBack(s)[s[n].restores]
  BY RowBackFacts DEF GoesBack
<1> QED
  BY <1>1, <1>2

-----------------------------------------------------------------------------
(* Refunds *)

\* Rows end, and no purchase is reversed but one that funds no row left live.
LEMMA EndsKeepRefunds ==
    ASSUME AccessInv, AccessInv', RowsContinue, Len(ents') = Len(ents), RefundedStaysEnded, NEW r,
           \A x \in Ids : ents'[x].status = "ACTIVE" => ents[x].status = "ACTIVE" /\ Funding(x) # r,
           \A x \in Ids \ {r} : ents'[x].reversed = ents[x].reversed
    PROVE  RefundedStaysEnded'
<1>1. Ids' = Ids
  BY DEF Ids
<1> SUFFICES ASSUME NEW e \in Ids, ents'[e].status = "ACTIVE", ents'[e].kind # "GRACE"
             PROVE  ~ents'[Funding(e)'].reversed
  BY <1>1 DEF RefundedStaysEnded, LiveEnts, Live, Packages
<1>2. Funding(e)' = Funding(e) /\ Funding(e) \in 1 .. e
  BY FundingKept
<1>3. ents[e].status = "ACTIVE" /\ Funding(e) # r /\ ents[e].kind # "GRACE"
  BY DEF RowsContinue, Continues
<1>4. ~ents[Funding(e)].reversed
  BY <1>3 DEF RefundedStaysEnded, LiveEnts, Live, Packages
<1>5. Funding(e) \in Ids
  BY <1>2 DEF Ids, RowsContinue
<1> QED
  BY <1>2, <1>3, <1>4, <1>5, Zenon

\* One row is left live, and what it goes back to is not reversed.
LEMMA AddedKeepsRefunds ==
    ASSUME AccessInv, AccessInv', RowsContinue, Len(ents') = Len(ents) + 1,
           \A x \in Ids : ents'[x].status = "TERMINATED" /\ ents'[x].reversed = ents[x].reversed,
           LET n == Len(ents) + 1
           IN  \/ ents'[n].kind = "GRACE"
               \/ ents'[n].restores = NoEnt /\ ~ents'[n].reversed
               \/ ents'[n].restores \in Ids /\ ~ents[Funding(ents'[n].restores)].reversed
    PROVE  RefundedStaysEnded'
<1>n. PICK n : n = Len(ents) + 1
  OBVIOUS
<1>1. Ids' = Ids \cup {n} /\ n \in 1 .. Len(ents')
  BY <1>n DEF Ids, RowsContinue
<1> SUFFICES ASSUME ents'[n].kind # "GRACE" PROVE ~ents'[Funding(n)'].reversed
  BY <1>1 DEF RefundedStaysEnded, LiveEnts, Live, Packages
<1>2. Backward(ents')
  BY LenProperties DEF AccessInv, Types, Shapes, Backward, Ids
<1>3. \A x : Funding(x)' = RowBack(ents')[x]
  BY DEF Funding, RowBack
<1>4. Funding(n)' = IF ents'[n].restores = NoEnt THEN n ELSE RowBack(ents')[ents'[n].restores]
  BY <1>1, <1>2, <1>3, RowBackStep
<1>5. CASE ents'[n].restores = NoEnt /\ ~ents'[n].reversed
  BY <1>4, <1>5
<1>6. CASE ents'[n].restores \in Ids /\ ~ents[Funding(ents'[n].restores)].reversed
  <2>1. PICK o \in Ids : o = ents'[n].restores
    BY <1>6
  <2>2. o # NoEnt /\ o \in Nat
    BY <2>1, RowTyped DEF AccessInv, NoEnt, Ids
  <2>3. Funding(o)' = Funding(o) /\ Funding(o) \in 1 .. o
    BY FundingKept
  <2>4. Funding(n)' = Funding(o)
    BY <1>3, <1>4, <2>1, <2>2, <2>3
  <2>5. Funding(o) \in Ids
    BY <2>2, <2>3 DEF Ids, RowsContinue
  <2>6. ents'[Funding(o)].reversed = ents[Funding(o)].reversed
    BY <2>5
  <2>7. ~ents[Funding(o)].reversed
    BY <1>6, <2>1, Zenon
  <2> QED
    BY <2>4, <2>6, <2>7, Zenon
<1> QED
  BY <1>n, <1>5, <1>6

\* Every step keeps what was refunded ended.
LEMMA NextRefunded ==
    ASSUME AccessInv, AccessInv', RefundedStaysEnded, [Next]_vars
    PROVE  RefundedStaysEnded'
<1>1. CASE UNCHANGED ents
  BY <1>1 DEF RefundedStaysEnded, LiveEnts, Live, Packages, Ids, Funding
<1>2. CASE Grant
  <2>1. PICK window \in buying :
        ents' = Append([e \in Ids |-> IF Live(e) THEN Ended(ents[e], now, "SUPERSEDED") ELSE ents[e]],
                       Ent("PACKAGE", now, window, NoEnt))
    BY <1>2 DEF Grant
  <2> DEFINE r == Ent("PACKAGE", now, window, NoEnt)
  <2>2. r \in EntRow /\ r.restores = NoEnt /\ ~r.reversed
    <3>1. window \in Nat \cup {NoTime} /\ now \in Time /\ NoEnt \in Nat
      BY DEF AccessInv, Types, NoEnt
    <3> QED
      BY <3>1, EntFacts DEF Kind
  <2> HIDE DEF r
  <2>3. /\ RowsContinue /\ Len(ents') = Len(ents) + 1 /\ ents'[Len(ents) + 1] = r
        /\ \A e \in Ids : ents'[e].status = "TERMINATED" /\ ents'[e].reversed = ents[e].reversed
    BY <1>2, <2>1, <2>2, SupersedeFacts DEF r, Grant
  <2>4. ents'[Len(ents) + 1].restores = NoEnt /\ ~ents'[Len(ents) + 1].reversed
    BY <2>2, <2>3
  <2> QED
    BY <2>3, <2>4, AddedKeepsRefunds
<1>3. ASSUME NEW e \in Ids, Refund(e) PROVE RefundedStaysEnded'
  <2>1. /\ RowsContinue /\ Len(ents') = Len(ents)
        /\ \A x \in Ids : ents'[x].status = "ACTIVE" => ents[x].status = "ACTIVE" /\ Funding(x) # e
        /\ \A x \in Ids : ents'[x].reversed = IF x = e THEN TRUE ELSE ents[x].reversed
    BY <1>3, RefundFacts, ZenonT(30)
  <2>2. \A x \in Ids \ {e} : ents'[x].reversed = ents[x].reversed
    BY <2>1
  <2> QED
    BY <2>1, <2>2, EndsKeepRefunds
<1>4. ASSUME NEW e \in Ids, Expire(e) PROVE RefundedStaysEnded'
  <2>1. /\ RowsContinue /\ Len(ents') = Len(ents)
        /\ \A x \in Ids : ents'[x].reversed = ents[x].reversed
        /\ \A x \in Ids \ {e} : ents'[x] = ents[x]
        /\ ents'[e].status = "TERMINATED"
    BY <1>4, ExpireFacts
  <2>2. \A x \in Ids : Funding(x) # 0
    BY FundingKept, <2>1
  <2>3. \A x \in Ids : ents'[x].status = "ACTIVE" => ents[x].status = "ACTIVE" /\ Funding(x) # 0
    BY <2>1, <2>2
  <2> QED
    BY <2>1, <2>3, EndsKeepRefunds
<1>5. ASSUME queue # <<>>, Convert(Head(queue)) PROVE RefundedStaysEnded'
  <2> DEFINE ev == Head(queue)
             at == Boundary(ev)
             g == TerminatedAt(at)
             grace == Ent("GRACE", at, at + GraceLife, NoEnt)
  <2>1. ev \in EventRow
    BY <1>5, OldestFacts
  <2>2. /\ RowsContinue
        /\ \A e \in Ids : ents'[e] = g[e]
        /\ \A e \in Packages : g[e].status = "TERMINATED"
        /\ \/ Len(ents') = Len(ents)
           \/ Len(ents') = Len(ents) + 1 /\ ents'[Len(ents) + 1] = grace
    BY <1>5, <2>1, ConvertFacts
  <2>3. grace.kind = "GRACE"
    BY DEF Ent
  <2> HIDE DEF ev, at, g, grace
  <2>4. \A e \in Ids' : ents'[e].kind # "GRACE" => ents'[e].status = "TERMINATED"
    <3> SUFFICES ASSUME NEW e \in Ids', ents'[e].kind # "GRACE" PROVE ents'[e].status = "TERMINATED"
      OBVIOUS
    <3>1. e \in Ids
      BY <2>2, <2>3 DEF Ids, RowsContinue
    <3>2. e \in Packages
      BY <2>2, <3>1 DEF Packages, RowsContinue, Continues
    <3> QED
      BY <2>2, <3>1, <3>2
  <2> QED
    BY <2>4 DEF RefundedStaysEnded, LiveEnts, Live, Packages
<1>6. ASSUME NEW o \in Converted, Restorable(o), Continue(o), UNCHANGED audit PROVE RefundedStaysEnded'
  <2> DEFINE r == Ent("CONTINUATION", now, ents[o].window, o)
  <2>1. /\ o \in Ids /\ r.restores = o
        /\ RowsContinue /\ Len(ents') = Len(ents) + 1 /\ ents'[Len(ents) + 1] = r
        /\ \A e \in Ids : ents'[e].status = "TERMINATED" /\ ents'[e].reversed = ents[e].reversed
    BY <1>6, ContinueFacts
  <2> HIDE DEF r
  <2>2. ents'[Len(ents) + 1].restores = o
    BY <2>1
  <2>3. ~ents[Funding(o)].reversed
    BY <1>6 DEF Restorable
  <2>4. ents'[Len(ents) + 1].restores \in Ids /\ ~ents[Funding(ents'[Len(ents) + 1].restores)].reversed
    BY <2>1, <2>2, <2>3, Zenon
  <2> QED
    BY <2>1, <2>4, AddedKeepsRefunds
<1>7. CASE ProcessNext
  BY <1>1, <1>5, <1>6, <1>7, EngineSteps
<1>8. CASE ~ProcessNext /\ ~Grant /\ (\A e \in Ids : ~Refund(e) /\ ~Expire(e))
  BY <1>1, <1>8 DEF Next, vars, CheckOut, CheckIn, Move, Happens, Tick, BeginPurchase
<1> QED
  BY <1>2, <1>3, <1>4, <1>7, <1>8

\* For all constants: what a refunded purchase funded stays ended, through any number of room moves before or after
\* the refund. Inductive beside AccessInv: a refund ends every live row that goes back to the purchase, and a room
\* move restores no row that goes back to a reversed one.
THEOREM RefundsHold == Spec => []RefundedStaysEnded
<1>1. Init => AccessInv /\ RefundedStaysEnded
  <2> SUFFICES ASSUME Init PROVE RefundedStaysEnded
    BY InitAccess
  <2>1. AccessInv
    BY InitAccess
  <2>2. \A e \in Ids : e = 1 /\ ents[e].restores = NoEnt /\ ~ents[e].reversed
    <3>1. CASE ents = <<>>
      BY <3>1 DEF Ids
    <3>2. ASSUME NEW window \in {NoTime, PackageLife}, ents = <<Ent("PACKAGE", 0, window, NoEnt)>>
          PROVE  \A e \in Ids : e = 1 /\ ents[e].restores = NoEnt /\ ~ents[e].reversed
      <4>1. \A e \in 1 .. 1 : e = 1
        OBVIOUS
      <4>2. Len(ents) = 1 /\ ents[1].restores = NoEnt /\ ~ents[1].reversed
        BY <3>2 DEF Ent
      <4> QED
        BY <4>1, <4>2 DEF Ids
    <3> QED
      BY <3>1, <3>2 DEF Init
  <2>3. \A e \in Ids : Funding(e) = e
    <3>1. Backward(ents) /\ \A x : Funding(x) = RowBack(ents)[x]
      BY <2>1, LenProperties DEF AccessInv, Types, Shapes, Backward, Ids, Funding, RowBack
    <3> QED
      BY <2>2, <3>1, RowBackStep DEF Ids
  <2> QED
    BY <2>2, <2>3 DEF RefundedStaysEnded, LiveEnts
<1>2. AccessInv /\ RefundedStaysEnded /\ [Next]_vars => (AccessInv /\ RefundedStaysEnded)'
  BY NextAccess, NextRefunded
<1> QED
  BY <1>1, <1>2, PTL DEF Spec

-----------------------------------------------------------------------------
(* Room moves *)

\* A check-out record and the rows: what it held ended at its boundary, converted if it was granted before and open
\* and no other check-out led that time;
\* only what a check-out held is converted; and after a check-out that held a package, the only After Check-out
\* Access in use is its own.
LeadNext(at) == \E i \in DOMAIN audit' : audit'[i].made <= at /\ at < audit'[i].at

Checkouts ==
    /\ \A i \in DOMAIN audit : \A e \in audit[i].held :
          /\ e \in Packages /\ ents[e].status = "TERMINATED" /\ ents[e].until = audit[i].at
          /\ ents[e].from <= audit[i].at /\ WindowOpen(ents[e], audit[i].at) /\ ~Lead(audit[i].at) => ents[e].reason = "CONVERTED"
    /\ \A e \in Ids : ents[e].reason = "CONVERTED" => \E i \in DOMAIN audit : e \in audit[i].held
    /\ \A i \in DOMAIN audit : \A e, f \in audit[i].held : e = f
    /\ stay.status = "CHECKED_OUT" =>
          /\ audit # <<>>
          /\ LastCheckout.held # {} => \A e \in Ids : Live(e) /\ ents[e].kind = "GRACE" => e = LastCheckout.grace

\* A step that converts nothing and adds no After Check-out Access keeps the records true.
LEMMA CheckoutsKept ==
    ASSUME AccessInv, Checkouts, RowsContinue, UNCHANGED audit,
           stay'.status = "CHECKED_OUT" => stay.status = "CHECKED_OUT",
           \A e \in Ids' : ents'[e].reason = "CONVERTED" => e \in Ids /\ ents[e].reason = "CONVERTED",
           \A e \in Ids' \ Ids : ents'[e].kind # "GRACE"
    PROVE  Checkouts'
<1>1. \A e \in Ids : e \in Ids'
  BY DEF Ids, RowsContinue
<1>2. \A e \in Ids : Continues(ents[e], ents'[e], now)
  BY DEF RowsContinue
<1>3. ASSUME NEW i \in DOMAIN audit, NEW e \in audit[i].held
      PROVE  /\ e \in Packages' /\ ents'[e].status = "TERMINATED" /\ ents'[e].until = audit[i].at
             /\ ents'[e].from <= audit[i].at /\ WindowOpen(ents'[e], audit[i].at) /\ ~Lead(audit[i].at) => ents'[e].reason = "CONVERTED"
  <2>1. /\ e \in Ids /\ ents[e].kind # "GRACE" /\ ents[e].status = "TERMINATED" /\ ents[e].until = audit[i].at
        /\ ents[e].from <= audit[i].at /\ WindowOpen(ents[e], audit[i].at) /\ ~Lead(audit[i].at) => ents[e].reason = "CONVERTED"
    BY <1>3 DEF Checkouts, Packages
  <2>2. /\ ents'[e].kind = ents[e].kind /\ ents'[e].from = ents[e].from /\ ents'[e].window = ents[e].window
        /\ ents'[e].status = "TERMINATED" /\ ents'[e].reason = ents[e].reason /\ ents'[e].until = ents[e].until
    BY <1>2, <2>1 DEF Continues
  <2> QED
    BY <1>1, <2>1, <2>2 DEF Packages, WindowOpen
<1>4. \A e \in Ids' : ents'[e].reason = "CONVERTED" => \E i \in DOMAIN audit : e \in audit[i].held
  BY DEF Checkouts
<1>5. \A i \in DOMAIN audit : \A e, f \in audit[i].held : e = f
  BY DEF Checkouts
<1>6. ASSUME stay'.status = "CHECKED_OUT"
      PROVE  /\ audit # <<>>
             /\ LastCheckout.held # {} =>
                   \A e \in Ids' : ents'[e].status = "ACTIVE" /\ ents'[e].kind = "GRACE" => e = LastCheckout.grace
  <2>1. /\ audit # <<>>
        /\ LastCheckout.held # {} => \A e \in Ids : Live(e) /\ ents[e].kind = "GRACE" => e = LastCheckout.grace
    BY <1>6 DEF Checkouts
  <2>2. \A e \in Ids' : ents'[e].status = "ACTIVE" /\ ents'[e].kind = "GRACE" => e \in Ids /\ Live(e) /\ ents[e].kind = "GRACE"
    BY <1>2 DEF Continues, Live
  <2> QED
    BY <2>1, <2>2
<1> QED
  BY <1>3, <1>4, <1>5, <1>6 DEF Checkouts, LastCheckout, Live, Lead

\* The package that is live at a boundary after its grant is the one package active then.
LEMMA LiveIsEligible ==
    ASSUME AccessInv, NEW at \in Time, NEW e \in Packages, Live(e), ents[e].from <= at, WindowOpen(ents[e], at), ~Lead(at)
    PROVE  e \in Eligible(at)
<1>1. e \in ActiveOriginals(at)
  BY DEF ActiveOriginals, ActiveAt, Live
<1>2. \A f \in ActiveOriginals(at) : f = e
  BY <1>1, OneOriginal
<1>3. ActiveOriginals(at) = {e}
  BY <1>1, <1>2
<1>4. Cardinality(ActiveOriginals(at)) = 1
  BY <1>3, FS_Singleton
<1> QED
  BY <1>1, <1>4 DEF Eligible

\* A check-out records what it held, and what it held ends at its boundary.
LEMMA ConvertRecords ==
    ASSUME AccessInv, AccessInv', Checkouts, queue # <<>>, Convert(Head(queue))
    PROVE  Checkouts'
<1> DEFINE ev == Head(queue)
<1>1. ev \in EventRow
  BY OldestFacts
<1> DEFINE at == Boundary(ev)
           g == TerminatedAt(at)
           new == Ent("GRACE", at, at + GraceLife, NoEnt)
           held == LiveEnts \cap Packages
           grace == IF Eligible(at) # {} /\ switch THEN Len(ents) + 1 ELSE NoEnt
           row == [at |-> at, made |-> now, room |-> ev.room, held |-> held, grace |-> grace]
<1> HIDE DEF ev
<1>2. at \in Time /\ Len(ents) \in Nat
  BY <1>1, BoundaryFacts, LenProperties DEF AccessInv, Types
<1>3. /\ RowsContinue
      /\ \A e \in Ids : ents'[e] = g[e]
      /\ \A e \in Packages : g[e].status = "TERMINATED" /\ (Live(e) => g[e].until = at)
      /\ \A e \in Packages : Live(e) => g[e].reason = IF e \in Eligible(at) THEN "CONVERTED" ELSE "CHECKOUT"
      /\ \A e \in Ids \ Packages : g[e] = ents[e]
      /\ \A e \in Ids : ~Live(e) => g[e] = ents[e]
      /\ \/ Len(ents') = Len(ents)
         \/ Len(ents') = Len(ents) + 1 /\ grace = Len(ents) + 1 /\ ents'[Len(ents) + 1] = new
  BY <1>1, ConvertFacts DEF ev
<1>4. audit' = Append(audit, row) /\ stay' = [stay EXCEPT !.status = "CHECKED_OUT"]
  BY DEF Convert, Audited, ev
<1>5. row.at = at /\ row.held = held /\ row.grace = grace /\ new.reason = "NONE"
  BY DEF Ent
<1> HIDE DEF at, g, new, grace, row
<1>6. audit \in Seq(AuditRow) /\ Len(audit) \in Nat /\ DOMAIN audit = 1 .. Len(audit)
  BY LenProperties DEF AccessInv, Types
<1>7. audit' \in Seq(AuditRow) /\ DOMAIN audit' = 1 .. Len(audit')
  BY LenProperties DEF AccessInv, Types
<1>n. PICK n : n = Len(audit) + 1
  OBVIOUS
<1>8. /\ Len(audit') = n /\ n \in Nat /\ audit'[n] = row
      /\ \A i \in DOMAIN audit : i \in DOMAIN audit' /\ i # n /\ audit'[i] = audit[i]
      /\ \A i \in DOMAIN audit' : i \in DOMAIN audit \/ i = n
      /\ n \in DOMAIN audit'
  <2>1. /\ Len(audit') = Len(audit) + 1
        /\ \A i \in 1 .. Len(audit) : audit'[i] = audit[i]
        /\ audit'[Len(audit) + 1] = row
    BY <1>4, <1>6
  <2> QED
    BY <1>6, <1>7, <1>n, <2>1
<1>l. \A t : Lead(t) => LeadNext(t)
  BY <1>8 DEF Lead, LeadNext
<1>9. \A e \in Ids : e \in Ids' /\ Continues(ents[e], ents'[e], now)
  BY <1>3 DEF Ids, RowsContinue
<1>10. ASSUME NEW i \in DOMAIN audit', NEW e \in audit'[i].held
       PROVE  /\ e \in Packages' /\ ents'[e].status = "TERMINATED" /\ ents'[e].until = audit'[i].at
              /\ ents'[e].from <= audit'[i].at /\ WindowOpen(ents'[e], audit'[i].at) /\ ~LeadNext(audit'[i].at) => ents'[e].reason = "CONVERTED"
  <2>1. CASE i \in DOMAIN audit
    <3>1. /\ e \in Ids /\ ents[e].kind # "GRACE" /\ ents[e].status = "TERMINATED" /\ ents[e].until = audit[i].at
          /\ ents[e].from <= audit[i].at /\ WindowOpen(ents[e], audit[i].at) /\ ~Lead(audit[i].at) => ents[e].reason = "CONVERTED"
      BY <1>8, <1>10, <2>1 DEF Checkouts, Packages
    <3>2. ents'[e] = ents[e]
      BY <1>3, <3>1 DEF Live
    <3> QED
      BY <1>8, <1>l, <1>9, <2>1, <3>1, <3>2 DEF Packages
  <2>2. CASE i = n
    <3>1. e \in Packages /\ Live(e) /\ e \in Ids /\ audit'[i].at = at
      BY <1>5, <1>8, <1>10, <2>2 DEF LiveEnts
    <3>2. /\ ents'[e].status = "TERMINATED" /\ ents'[e].until = at
          /\ ents'[e].kind = ents[e].kind /\ ents'[e].from = ents[e].from /\ ents'[e].window = ents[e].window
          /\ e \in Eligible(at) => ents'[e].reason = "CONVERTED"
      BY <1>3, <1>9, <3>1 DEF Continues
    <3>3. ents[e].from <= at /\ WindowOpen(ents[e], at) /\ ~Lead(at) => e \in Eligible(at)
      BY <1>2, <3>1, LiveIsEligible
    <3> QED
      BY <1>l, <1>9, <3>1, <3>2, <3>3 DEF Packages, WindowOpen
  <2> QED
    BY <1>8, <2>1, <2>2
<1>11. ASSUME NEW e \in Ids', ents'[e].reason = "CONVERTED"
       PROVE  \E i \in DOMAIN audit' : e \in audit'[i].held
  <2>1. e \in Ids
    BY <1>3, <1>5, <1>11 DEF Ids
  <2>2. CASE e \in Packages /\ Live(e)
    <3>1. e \in held
      BY <2>1, <2>2 DEF LiveEnts
    <3> QED
      BY <1>5, <1>8, <3>1
  <2>3. CASE ~(e \in Packages /\ Live(e))
    <3>1. ents[e].reason = "CONVERTED"
      BY <1>3, <1>11, <2>1, <2>3
    <3>2. PICK i \in DOMAIN audit : e \in audit[i].held
      BY <2>1, <3>1 DEF Checkouts
    <3> QED
      BY <1>8, <3>2
  <2> QED
    BY <2>2, <2>3
<1>12. \A i \in DOMAIN audit' : \A e, f \in audit'[i].held : e = f
  <2> SUFFICES ASSUME NEW i \in DOMAIN audit', NEW e \in audit'[i].held, NEW f \in audit'[i].held PROVE e = f
    OBVIOUS
  <2>1. CASE i \in DOMAIN audit
    BY <1>8, <2>1 DEF Checkouts
  <2>2. CASE i = n
    BY <1>5, <1>8, <2>2 DEF AccessInv, OneLive, LiveEnts
  <2> QED
    BY <1>8, <2>1, <2>2
<1>13. audit' # <<>>
  BY <1>7, <1>8, <1>6, <1>n
<1>14. ASSUME held # {}, NEW e \in Ids', ents'[e].status = "ACTIVE", ents'[e].kind = "GRACE" PROVE e = grace
  <2>1. PICK h : h \in held
    BY <1>14
  <2>2. CASE e \in Ids
    <3>1. Live(e) /\ ents[e].kind = "GRACE"
      BY <1>9, <1>14, <2>2 DEF Continues, Live
    <3>2. e = h /\ h \in Packages
      BY <2>1, <2>2, <3>1 DEF AccessInv, OneLive, LiveEnts
    <3> QED
      BY <3>1, <3>2 DEF Packages
  <2>3. CASE e \notin Ids
    BY <1>2, <1>3, <2>3 DEF Ids
  <2> QED
    BY <2>2, <2>3
<1>15. LastCheckout' = row
  BY <1>8 DEF LastCheckout
<1> HIDE DEF held
<1>16. (LastCheckout').held # {} => \A e \in Ids' : Live(e)' /\ ents'[e].kind = "GRACE" => e = (LastCheckout').grace
  BY <1>5, <1>14, <1>15 DEF Live
<1> QED
  BY <1>10, <1>11, <1>12, <1>13, <1>16 DEF Checkouts, Lead, LeadNext

\* Every step keeps the records true.
LEMMA NextCheckouts ==
    ASSUME AccessInv, AccessInv', Checkouts, [Next]_vars
    PROVE  Checkouts'
<1>0. AccessInv
  OBVIOUS
<1>1. ASSUME UNCHANGED <<ents, audit>>, stay'.status = "CHECKED_OUT" => stay.status = "CHECKED_OUT" PROVE Checkouts'
  <2>1. RowsContinue /\ Ids' = Ids
    BY <1>1, SameRows DEF Ids
  <2> QED
    BY <1>1, <2>1, CheckoutsKept
<1>2. CASE Grant
  <2>1. PICK window \in buying :
        ents' = Append([e \in Ids |-> IF Live(e) THEN Ended(ents[e], now, "SUPERSEDED") ELSE ents[e]],
                       Ent("PACKAGE", now, window, NoEnt))
    BY <1>2 DEF Grant
  <2> DEFINE r == Ent("PACKAGE", now, window, NoEnt)
  <2>2. r \in EntRow /\ r.kind = "PACKAGE"
    <3>1. window \in Nat \cup {NoTime} /\ now \in Time /\ NoEnt \in Nat
      BY DEF AccessInv, Types, NoEnt
    <3> QED
      BY <3>1, EntFacts DEF Kind
  <2>r. r.reason = "NONE"
    BY DEF Ent
  <2> HIDE DEF r
  <2>3. /\ RowsContinue /\ Len(ents') = Len(ents) + 1 /\ ents'[Len(ents) + 1] = r
        /\ \A e \in Ids : ents'[e].reason = "CONVERTED" => ents[e].reason = "CONVERTED"
    BY <1>2, <2>1, <2>2, SupersedeFacts DEF r, Grant
  <2>4. UNCHANGED <<stay, audit>>
    BY <1>2 DEF Grant
  <2>5. \A e \in Ids' : e \in Ids \/ e = Len(ents) + 1
    BY <2>3 DEF Ids, RowsContinue
  <2> QED
    BY <2>2, <2>r, <2>3, <2>4, <2>5, CheckoutsKept
<1>3. ASSUME NEW e \in Ids, Refund(e) PROVE Checkouts'
  <2>1. /\ RowsContinue /\ Len(ents') = Len(ents)
        /\ \A x \in Ids : ents'[x].reason = "CONVERTED" => ents[x].reason = "CONVERTED"
    BY <1>3, RefundFacts
  <2>2. Ids' = Ids /\ UNCHANGED <<stay, audit>>
    BY <1>3, <2>1 DEF Ids, Refund
  <2> QED
    BY <2>1, <2>2, CheckoutsKept
<1>4. ASSUME NEW e \in Ids, Expire(e) PROVE Checkouts'
  <2>1. /\ RowsContinue /\ Len(ents') = Len(ents)
        /\ \A x \in Ids \ {e} : ents'[x] = ents[x]
        /\ ents'[e].reason = "TIME"
    BY <1>4, ExpireFacts
  <2>2. Ids' = Ids /\ UNCHANGED <<stay, audit>>
    BY <1>4, <2>1 DEF Ids, Expire
  <2>3. \A x \in Ids : ents'[x].reason = "CONVERTED" => ents[x].reason = "CONVERTED"
    BY <2>1
  <2> QED
    BY <2>1, <2>2, <2>3, CheckoutsKept
<1>5. ASSUME NEW o \in Converted, Continue(o), UNCHANGED audit,
             stay'.status = "CHECKED_OUT" => stay.status = "CHECKED_OUT"
      PROVE  Checkouts'
  <2> DEFINE r == Ent("CONTINUATION", now, ents[o].window, o)
  <2>1. /\ r.kind = "CONTINUATION" /\ r.reason = "NONE"
        /\ RowsContinue /\ Len(ents') = Len(ents) + 1 /\ ents'[Len(ents) + 1] = r
        /\ \A e \in Ids : ents'[e].reason = "CONVERTED" => ents[e].reason = "CONVERTED"
    BY <1>5, ContinueFacts
  <2> HIDE DEF r
  <2>2. \A e \in Ids' : e \in Ids \/ e = Len(ents) + 1
    BY <2>1 DEF Ids, RowsContinue
  <2> QED
    BY <1>5, <2>1, <2>2, CheckoutsKept
<1>6. CASE ProcessNext
  <2>1. CASE Convert(Head(queue))
    BY <1>6, <2>1, EngineSteps, ConvertRecords
  <2>2. CASE /\ UNCHANGED audit
             /\ UNCHANGED ents \/ \E o \in Converted : Continue(o)
             /\ stay'.status = "CHECKED_OUT" => stay.status = "CHECKED_OUT"
    BY <1>1, <1>5, <2>2
  <2>3. stay \in StayRow
    BY DEF AccessInv, Types
  <2>4. ASSUME NEW room, stay' = [stay EXCEPT !.room = room] PROVE stay'.status = stay.status
    BY <2>3, <2>4 DEF StayRow
  <2>5. ASSUME NEW room, NEW v, stay' = [status |-> "IN_HOUSE", room |-> room, version |-> v]
        PROVE  stay'.status = "IN_HOUSE"
    BY <2>5
  <2> QED
    BY <1>6, <2>1, <2>2, <2>4, <2>5, EngineSteps
<1>7. CASE ~ProcessNext /\ ~Grant /\ (\A e \in Ids : ~Refund(e) /\ ~Expire(e))
  <2>1. UNCHANGED <<ents, audit, stay>>
    BY <1>7 DEF Next, vars, CheckOut, CheckIn, Move, Happens, Tick, BeginPurchase
  <2> QED
    BY <1>1, <2>1
<1> QED
  BY <1>2, <1>3, <1>4, <1>6, <1>7

\* A check-in that takes a checked-out stay to another room is handed to restore_room_move_access.
LEMMA MoveRestores ==
    ASSUME AccessInv, MoveApplied
    PROVE  RestoreRoomMove /\ UNCHANGED audit
<1> DEFINE ev == Head(queue)
<1>1. Apply(ev) /\ stay.status = "CHECKED_OUT" /\ stay'.status = "IN_HOUSE" /\ stay'.room # stay.room
  BY DEF MoveApplied, ProcessNext
<1> HIDE DEF ev
<1>2. CASE ev.type = "GI"
  <2>1. /\ stay' = [status |-> "IN_HOUSE", room |-> ev.room, version |-> stay.version + 1]
        /\ IF ev.room # stay.room THEN RestoreRoomMove ELSE UNCHANGED ents
        /\ audit' = audit
    BY <1>1, <1>2 DEF Apply
  <2>2. stay'.room = ev.room
    BY <2>1
  <2> QED
    BY <1>1, <2>1, <2>2
<1>3. CASE ev.type # "GI"
  <2>1. UNCHANGED stay
    BY <1>1, <1>3 DEF Apply
  <2> QED
    BY <1>1, <2>1
<1> QED
  BY <1>2, <1>3

\* One step of MoveKeepsPackage.
LEMMA MoveStep ==
    ASSUME AccessInv, Checkouts, AccessInv', MoveApplied, BoundaryIsItsOwn, ~Lead(LastCheckout.at), EndsNow,
           NEW e \in TakenBy(LastCheckout), ents[e].from <= LastCheckout.at
    PROVE  HasPackage'
<1> DEFINE n == Len(audit)
<1>1. stay.status = "CHECKED_OUT" /\ audit # <<>>
  BY DEF MoveApplied, Checkouts
<1>2. n \in DOMAIN audit /\ n \in Nat /\ DOMAIN audit = 1 .. n /\ audit[n] \in AuditRow
  <2>1. audit \in Seq(AuditRow) /\ Len(audit) \in Nat /\ DOMAIN audit = 1 .. Len(audit)
    BY LenProperties DEF AccessInv, Types
  <2>2. Len(audit) # 0
    BY <1>1, <2>1, EmptySeq
  <2> QED
    BY <2>1, <2>2, ElementOfSeq
<1>3. /\ e \in audit[n].held /\ WindowOpen(ents[e], now) /\ WindowOpen(ents[e], audit[n].at)
      /\ ~ents[Funding(e)].reversed
  BY DEF TakenBy, LastCheckout
<1>4. /\ e \in Packages /\ e \in Ids /\ ents[e].until = audit[n].at /\ ents[e].status = "TERMINATED"
      /\ WindowOpen(ents[e], audit[n].at) => ents[e].reason = "CONVERTED"
  BY <1>2, <1>3 DEF Checkouts, LastCheckout, Packages
<1>6. e \in Converted
  BY <1>3, <1>4 DEF Converted, LastCheckout
<1>7. \A o \in Converted : o = e
  <2> SUFFICES ASSUME NEW o \in Converted PROVE o = e
    OBVIOUS
  <2>1. o \in Ids /\ ents[o].reason = "CONVERTED" /\ ents[o].until = audit[n].at
    BY DEF Converted, Packages, LastCheckout
  <2>2. PICK i \in DOMAIN audit : o \in audit[i].held
    BY <2>1 DEF Checkouts
  <2>3. audit[i].at = audit[n].at
    BY <2>1, <2>2 DEF Checkouts
  <2>4. i = n
    BY <1>2, <2>3 DEF BoundaryIsItsOwn, LastCheckout
  <2> QED
    BY <1>2, <1>3, <2>2, <2>4 DEF Checkouts
<1>8. RestoreRoomMove /\ UNCHANGED audit
  BY MoveRestores
<1>9. CASE \E o \in Converted : Continue(o)
  <2>1. PICK o \in Converted : Continue(o)
    BY <1>9
  <2> DEFINE r == Ent("CONTINUATION", now, ents[o].window, o)
  <2>2. /\ r.status = "ACTIVE" /\ r.kind = "CONTINUATION" /\ RowsContinue
        /\ Len(ents') = Len(ents) + 1 /\ ents'[Len(ents) + 1] = r
    BY <1>8, <2>1, ContinueFacts
  <2> HIDE DEF r
  <2>3. Len(ents) + 1 \in Ids'
    BY <2>2 DEF Ids, RowsContinue
  <2> QED
    BY <2>2, <2>3 DEF HasPackage, LiveEnts, Live, Packages
<1>10. CASE ~Restorable(e) /\ UNCHANGED ents
  <2>1. ~(LiveEnts \subseteq {LastCheckout.grace})
    BY <1>3, <1>10 DEF Restorable
  <2>2. PICK x \in LiveEnts : x # LastCheckout.grace
    BY <2>1
  <2>3. x \in Ids /\ Live(x)
    BY DEF LiveEnts
  <2>4. ents[x].kind # "GRACE"
    BY <1>1, <1>3, <2>2, <2>3 DEF Checkouts, LastCheckout
  <2> QED
    BY <1>10, <2>3, <2>4 DEF HasPackage, LiveEnts, Live, Packages, Ids
<1> QED
  BY <1>6, <1>7, <1>8, <1>9, <1>10 DEF RestoreRoomMove

\* For all constants: a room move leaves the guest with a package, when the check-out half found one that was granted
\* before it, the purchase is not refunded, no other check-out of the stay has the same boundary or led it, and the
\* After Check-out Access has begun. It needs
\* Checkouts: the record of a check-out and the one row it converted name each other.
THEOREM MovesKeepPackage == Spec => MoveKeepsPackage
<1>1. Init => AccessInv /\ Checkouts
  <2> SUFFICES ASSUME Init PROVE Checkouts
    BY InitAccess
  <2>1. \A e \in Ids : ents[e].reason = "NONE"
    <3>1. CASE ents = <<>>
      BY <3>1 DEF Ids
    <3>2. ASSUME NEW window \in {NoTime, PackageLife}, ents = <<Ent("PACKAGE", 0, window, NoEnt)>>
          PROVE  \A e \in Ids : ents[e].reason = "NONE"
      <4>1. \A e \in 1 .. 1 : e = 1
        OBVIOUS
      <4>2. Len(ents) = 1 /\ ents[1].reason = "NONE"
        BY <3>2 DEF Ent
      <4> QED
        BY <4>1, <4>2 DEF Ids
    <3> QED
      BY <3>1, <3>2 DEF Init
  <2>2. DOMAIN audit = {} /\ stay.status = "IN_HOUSE"
    BY DEF Init
  <2> QED
    BY <2>1, <2>2 DEF Checkouts
<1>2. AccessInv /\ Checkouts /\ [Next]_vars => (AccessInv /\ Checkouts)'
  BY NextAccess, NextCheckouts
<1>3. AccessInv /\ Checkouts /\ AccessInv' =>
        [MoveApplied /\ BoundaryIsItsOwn /\ ~Lead(LastCheckout.at) /\ EndsNow
         /\ (\E e \in TakenBy(LastCheckout) : ents[e].from <= LastCheckout.at) => HasPackage']_vars
  BY MoveStep
<1> QED
  BY <1>1, <1>2, <1>3, PTL DEF Spec, MoveKeepsPackage

=============================================================================
