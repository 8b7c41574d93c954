----------------------------- MODULE StayMirror -----------------------------
(***************************************************************************)
(* How the appliance keeps a mirror of the hotel's stays: the PMS announces*)
(* arrivals, moves and departures on one FIAS link; pmsd admits them to a  *)
(* durable inbox (LIVE, or staged under a resync generation while a DS..DE *)
(* sweep is open); the stay engine applies the inbox in the order it was   *)
(* received; and after a published sweep the roster is reconciled against  *)
(* the mirror.                                                             *)
(*                                                                         *)
(* The PMS, its records and its sweep are external: they are what the code *)
(* reads.  A record is received as it is sent (the link is one TCP stream, *)
(* read by one goroutine), or lost because the link is down.  A generation *)
(* number is only ever compared with the published one, so a row is        *)
(* `claimable' or it is not: publishing makes every staged row claimable,  *)
(* those of abandoned generations included.                                *)
(***************************************************************************)
EXTENDS Integers, Sequences, FiniteSets, SequencesExt

CONSTANTS Reservations, Rooms,
          StageBatchSize,     \* rows buffered before a staging transaction
          InventoryTolerance, \* known rooms a sweep may leave out
          RosterTrustMin,     \* smallest roster that may close a stay
          MaxClosePerRun,     \* most stays one run may close
          Away,               \* where a guest is who is not in the hotel
          NoRes,              \* a record without a reservation number
          MaxHappenings, MaxDrops, MaxGarbled,  \* bounds of the environment
          MaxBacklog          \* claimable rows a new sweep may find waiting

ASSUME StayMirrorAssumption ==
    /\ StageBatchSize \in Nat \ {0}
    /\ RosterTrustMin \in Nat \ {0}
    /\ {InventoryTolerance, MaxClosePerRun, MaxHappenings, MaxDrops, MaxGarbled, MaxBacklog} \subseteq Nat
    /\ Away \notin Rooms
    /\ NoRes \notin Reservations
    /\ IsFiniteSet(Reservations) /\ IsFiniteSet(Rooms)

VARIABLES
    \* the hotel
    guest,     \* where each reservation's guest is
    owed,      \* the second record of a move, not yet sent
    ins, outs, \* arrivals and departures each reservation had, moves sent as two records included
    spoilt,    \* a record was unreadable inside an open sweep, or a departure named only a shared room
    \* the link and pmsd
    link, asked, sink,
    \* the database
    inbox, known, stay,
    \* how many happenings, drops and unreadable records there were
    ops, drops, garbled

hotelVars == <<guest, owed, ins, outs, spoilt>>
feedVars == <<link, asked, sink>>
dbVars == <<inbox, known, stay>>
counters == <<ops, drops, garbled>>
vars == <<hotelVars, feedVars, dbVars, counters>>

Record == [type : {"GI", "GC", "GO"}, res : Reservations \cup {NoRes}, room : Rooms]
GI(r, room) == [type |-> "GI", res |-> r, room |-> room]
GC(r, room) == [type |-> "GC", res |-> r, room |-> room]
GO(r, room) == [type |-> "GO", res |-> r, room |-> room]

\* an inbox row: the record, and whether the stay engine may claim it
Row(rec, claimable) == [rec |-> rec, claimable |-> claimable]
Rows(recs, claimable) == [i \in DOMAIN recs |-> Row(recs[i], claimable)]
Claimable == {i \in DOMAIN inbox : inbox[i].claimable}

\* Serve begins with the barrier up and no window open; phase is what OnResyncComplete has left to do
FreshSink == [synced |-> FALSE, window |-> FALSE, phase |-> "READ",
              todo |-> {}, occupied |-> {}, vacant |-> {}, roster |-> {}, buf |-> <<>>]

\* The appliance is connected to a hotel that has guests already.
Init ==
    /\ guest \in [Reservations -> Rooms \cup {Away}]
    /\ owed = <<>>
    /\ ins = [r \in Reservations |-> IF guest[r] = Away THEN 0 ELSE 1]
    /\ outs = [r \in Reservations |-> 0]
    /\ spoilt = FALSE
    /\ link = "DOWN"
    /\ asked = FALSE
    /\ sink = FreshSink
    /\ inbox = <<>>
    /\ known = {}
    /\ stay = [r \in Reservations |-> [status |-> "NONE", room |-> Away, version |-> 0]]
    /\ ops = 0
    /\ drops = 0
    /\ garbled = 0

-----------------------------------------------------------------------------
(* pmsd: one record read from the link.                                    *)

\* A GO without a reservation, read while a sweep is asked for or open, is a vacant room and no departure.
IsVacancy(rec) == rec.type = "GO" /\ rec.res = NoRes /\ asked

FlushedLate(buf) == IF Len(buf) > StageBatchSize THEN buf ELSE <<>>

\* Rows still buffered when the batch is full are written in one transaction.
Flushed(buf) == IF Len(buf) >= StageBatchSize THEN buf ELSE <<>>

\* What the open sweep has seen of the building, counted before admission.
Observe(s, rec) ==
    CASE s.window /\ IsVacancy(rec) -> [s EXCEPT !.vacant = @ \cup {rec.room}]
      [] s.window /\ ~IsVacancy(rec) -> [s EXCEPT !.occupied = @ \cup {rec.room}]
      [] OTHER -> s

ListedArrivals(s, rec) ==
    IF rec.type = "GI" THEN [s EXCEPT !.roster = @ \cup {rec.res}] ELSE s

\* The reservations pms_roster_of_generation will list for the open generation.
Listed(s, rec) ==
    IF rec.type \in {"GI", "GC"} /\ rec.res # NoRes THEN [s EXCEPT !.roster = @ \cup {rec.res}] ELSE s

OnDomainEventNoBarrier(s, rec, box) ==
    CASE s.window ->
           LET buf == Append(s.buf, rec)
           IN  [sink |-> [Listed(s, rec) EXCEPT !.buf = IF Flushed(buf) = <<>> THEN buf ELSE <<>>],
                inbox |-> box \o Rows(Flushed(buf), FALSE)]
      [] OTHER -> [sink |-> s, inbox |-> Append(box, Row(rec, TRUE))]

\* OnDomainEvent: staged inside a window, dropped while the barrier is up, admitted LIVE when synced.
OnDomainEvent(s, rec, box) ==
    CASE s.window ->
           LET buf == Append(s.buf, rec)
           IN  [sink |-> [Listed(s, rec) EXCEPT !.buf = IF Flushed(buf) = <<>> THEN buf ELSE <<>>],
                inbox |-> box \o Rows(Flushed(buf), FALSE)]
      [] ~s.window /\ ~s.synced -> [sink |-> s, inbox |-> box]
      [] OTHER -> [sink |-> s, inbox |-> Append(box, Row(rec, TRUE))]

\* The Serve loop on one guest record.
ReadOne(state, rec) ==
    LET s == Observe(state.sink, rec)
    IN  IF IsVacancy(rec) THEN [sink |-> s, inbox |-> state.inbox]
        ELSE OnDomainEvent(s, rec, state.inbox)

ReadAll(recs) ==
    LET after[n \in 0 .. Len(recs)] ==
            IF n = 0 THEN [sink |-> sink, inbox |-> inbox] ELSE ReadOne(after[n - 1], recs[n])
    IN  after[Len(recs)]

\* The PMS sends records while the link is up and pmsd is reading; with the link down they are lost.
Send(recs) ==
    /\ link = "UP" => sink.phase = "READ"
    /\ IF link = "UP" THEN sink' = ReadAll(recs).sink /\ inbox' = ReadAll(recs).inbox
                      ELSE UNCHANGED <<sink, inbox>>

\* A record the strict parser refuses: the gap raises the LIVE barrier, and a sweep is asked for unless one is.
OnContinuityFault ==
    /\ link = "UP" => sink.phase = "READ"
    /\ IF link = "UP" THEN sink' = [sink EXCEPT !.synced = FALSE] /\ asked' = TRUE
                      ELSE UNCHANGED <<sink, asked>>
    /\ UNCHANGED inbox

-----------------------------------------------------------------------------
(* The hotel.                                                              *)

Happens == ops < MaxHappenings /\ owed = <<>> /\ ops' = ops + 1
           /\ UNCHANGED <<link, known, stay, drops>>

Announce(recs) == Send(recs) /\ UNCHANGED <<asked, spoilt, garbled>>

CheckIn(r, room) ==
    /\ guest[r] = Away
    /\ Happens
    /\ guest' = [guest EXCEPT ![r] = room]
    /\ ins' = [ins EXCEPT ![r] = @ + 1]
    /\ Announce(<<GI(r, room)>>)
    /\ UNCHANGED <<owed, outs>>

\* The PMS may leave the reservation out of a departure.
CheckOut(r, named) ==
    /\ guest[r] # Away
    /\ Happens
    /\ guest' = [guest EXCEPT ![r] = Away]
    /\ outs' = [outs EXCEPT ![r] = @ + 1]
    /\ Send(<<GO(IF named THEN r ELSE NoRes, guest[r])>>)
    /\ spoilt' = (spoilt \/ (~named /\ \E q \in Reservations \ {r} : guest[q] = guest[r]))
    /\ UNCHANGED <<owed, ins, asked, garbled>>

\* A move is one change record, or a check-out and a check-in in either order.
Move(r, room, how) ==
    /\ guest[r] \notin {Away, room}
    /\ Happens
    /\ guest' = [guest EXCEPT ![r] = room]
    /\ CASE how = "CHANGE" -> Announce(<<GC(r, room)>>) /\ owed' = <<>>
         [] how = "OUT_IN" -> Announce(<<GO(r, guest[r])>>) /\ owed' = <<GI(r, room)>>
         [] how = "IN_OUT" -> Announce(<<GI(r, room)>>) /\ owed' = <<GO(r, guest[r])>>
    /\ IF how = "CHANGE" THEN UNCHANGED <<ins, outs>>
       ELSE /\ ins' = [ins EXCEPT ![r] = @ + 1]
            /\ outs' = [outs EXCEPT ![r] = @ + 1]

SecondHalf ==
    /\ owed # <<>>
    /\ Announce(owed)
    /\ owed' = <<>>
    /\ UNCHANGED <<guest, ins, outs, link, known, stay, ops, drops>>

\* A check-in or a move of which no readable record arrives.
Garble(r, room) ==
    /\ garbled < MaxGarbled
    /\ garbled' = garbled + 1
    /\ guest[r] # room
    /\ Happens
    /\ guest' = [guest EXCEPT ![r] = room]
    /\ ins' = IF guest[r] = Away THEN [ins EXCEPT ![r] = @ + 1] ELSE ins
    /\ spoilt' = (spoilt \/ sink.window)
    /\ OnContinuityFault
    /\ UNCHANGED <<owed, outs>>

-----------------------------------------------------------------------------
(* The sweep.                                                              *)

\* A new owner connects: the barrier is up and a complete resync is asked for.
Connect ==
    /\ link = "DOWN"
    /\ link' = "UP"
    /\ asked' = TRUE
    /\ sink' = FreshSink
    /\ UNCHANGED <<hotelVars, dbVars, counters>>

\* The link fails or pmsd stops, at any point: the buffer is gone, the inbox is not.
Drop ==
    /\ link = "UP"
    /\ drops < MaxDrops
    /\ drops' = drops + 1
    /\ link' = "DOWN"
    /\ asked' = FALSE
    /\ sink' = FreshSink
    /\ UNCHANGED <<hotelVars, dbVars, ops, garbled>>

\* An operator's or the periodic complete sync.
AskForSweep ==
    /\ link = "UP"
    /\ ~asked
    /\ sink.phase = "READ"
    /\ asked' = TRUE
    /\ UNCHANGED <<hotelVars, link, sink, dbVars, counters>>

\* DS: a new generation, and what the last sweep saw is forgotten.
OnResyncStart ==
    /\ link = "UP"
    /\ asked
    /\ ~sink.window
    /\ sink.phase = "READ"
    /\ Cardinality(Claimable) <= MaxBacklog
    /\ sink' = [FreshSink EXCEPT !.synced = sink.synced, !.window = TRUE, !.todo = Rooms]
    /\ UNCHANGED <<guest, owed, ins, outs, spoilt, link, asked, dbVars, counters>>

\* The sweep lists the guests of one room, or that it has none.
SweepRoom(room) ==
    LET here == {r \in Reservations : guest[r] = room}
        recs == IF here = {} THEN <<GO(NoRes, room)>>
                ELSE LET order == SetToSeq(here) IN [i \in DOMAIN order |-> GI(order[i], room)]
    IN  /\ link = "UP"
        /\ sink.window
        /\ room \in sink.todo
        /\ sink.phase = "READ"
        /\ sink' = [ReadAll(recs).sink EXCEPT !.todo = @ \ {room}]
        /\ inbox' = ReadAll(recs).inbox
        /\ UNCHANGED <<hotelVars, link, asked, known, stay, counters>>

\* DE: the buffer is written, then the generation is published; every staged row becomes claimable.
OnResyncComplete ==
    /\ link = "UP"
    /\ sink.window
    /\ sink.todo = {}
    /\ sink.phase = "READ"
    /\ inbox' = LET all == inbox \o Rows(sink.buf, FALSE)
                IN  [i \in DOMAIN all |-> [all[i] EXCEPT !.claimable = TRUE]]
    /\ sink' = [sink EXCEPT !.window = FALSE, !.synced = TRUE, !.buf = <<>>, !.phase = "PUBLISHED"]
    /\ asked' = FALSE
    /\ UNCHANGED <<hotelVars, link, known, stay, counters>>

-----------------------------------------------------------------------------
(* The reconciliation of the mirror with the published roster.             *)

Swept == sink.occupied \cup sink.vacant
Conflicts == sink.occupied \cap sink.vacant
\* the first uncontradicted sweep establishes the building
Building == IF known = {} /\ Conflicts = {} THEN Swept ELSE known
AbsentFromRoster == {r \in Reservations : stay[r].status = "IN_HOUSE" /\ r \notin sink.roster}

CompletedBelowTolerance ==
    /\ Conflicts = {}
    /\ Cardinality(Building \ Swept) < InventoryTolerance
    /\ Cardinality(sink.roster) >= RosterTrustMin
    /\ Cardinality(AbsentFromRoster) <= MaxClosePerRun

Completed ==
    /\ Conflicts = {}
    /\ Cardinality(Building \ Swept) <= InventoryTolerance
    /\ Cardinality(sink.roster) >= RosterTrustMin
    /\ Cardinality(AbsentFromRoster) <= MaxClosePerRun

CheckoutWaits(r) == \E i \in DOMAIN inbox : inbox[i].rec.type = "GO" /\ inbox[i].rec.res = r

\* One durable GO per stay the roster does not name, unless a check-out of it waits already.
RosterCheckouts ==
    LET order == SetToSeq({r \in AbsentFromRoster : ~CheckoutWaits(r)})
    IN  [i \in DOMAIN order |-> GO(order[i], stay[order[i]].room)]

Reconcile ==
    /\ sink.phase = "PUBLISHED"
    /\ known' = IF Completed THEN Building \cup Swept ELSE Building
    /\ inbox' = IF Completed THEN inbox \o Rows(RosterCheckouts, TRUE) ELSE inbox
    /\ sink' = [FreshSink EXCEPT !.synced = TRUE]
    /\ UNCHANGED <<hotelVars, link, asked, stay, counters>>

-----------------------------------------------------------------------------
(* The stay engine.                                                        *)

RoomChanged(s, rec) == s.room # rec.room
MovedRoom(s, rec) == RoomChanged(s, rec) /\ rec.res # NoRes

\* Resolve and applyDecision: what one event makes of the stay it names.
Resolve(s, rec) ==
    CASE rec.type = "GI" /\ s.status = "NONE" -> [status |-> "IN_HOUSE", room |-> rec.room, version |-> 1]
      [] rec.type = "GI" /\ s.status = "CHECKED_OUT" ->
           [status |-> "IN_HOUSE", version |-> s.version + 1,
            room |-> IF MovedRoom(s, rec) THEN rec.room ELSE s.room]
      [] rec.type \in {"GI", "GC"} /\ s.status = "IN_HOUSE" -> [s EXCEPT !.room = rec.room]
      [] rec.type = "GO" /\ s.status = "IN_HOUSE" /\ ~MovedRoom(s, rec) -> [s EXCEPT !.status = "CHECKED_OUT"]
      [] OTHER -> s   \* VACATE_OLD_ROOM, SKIP_DUPLICATE, and what goes to manual review

\* The stays a record names: its reservation's, or for a room-keyed check-out the one IN_HOUSE stay of the room.
Named(rec) ==
    IF rec.res # NoRes THEN {rec.res}
    ELSE LET there == {r \in Reservations : stay[r].status = "IN_HOUSE" /\ stay[r].room = rec.room}
         IN  IF Cardinality(there) = 1 THEN there ELSE {}

\* The oldest claimable row by received_at, under the interface's advisory lock.
Oldest == CHOOSE i \in Claimable : \A j \in Claimable : i <= j

ProcessNext ==
    /\ Claimable # {}
    /\ LET rec == inbox[Oldest].rec
       IN  stay' = [r \in Reservations |-> IF r \in Named(rec) THEN Resolve(stay[r], rec) ELSE stay[r]]
    /\ inbox' = RemoveAt(inbox, Oldest)
    /\ UNCHANGED <<hotelVars, feedVars, known, counters>>

-----------------------------------------------------------------------------
\* What pmsd's Serve goroutine does next.
PmsdStep ==
    \/ Connect
    \/ AskForSweep
    \/ OnResyncStart
    \/ \E room \in Rooms : SweepRoom(room)
    \/ OnResyncComplete
    \/ Reconcile

Next ==
    \/ \E r \in Reservations, room \in Rooms : CheckIn(r, room)
    \/ \E r \in Reservations, named \in BOOLEAN : CheckOut(r, named)
    \/ \E r \in Reservations, room \in Rooms, how \in {"CHANGE", "OUT_IN", "IN_OUT"} : Move(r, room, how)
    \/ \E r \in Reservations, room \in Rooms : Garble(r, room)
    \/ SecondHalf
    \/ Drop
    \/ PmsdStep
    \/ ProcessNext

Spec == Init /\ [][Next]_vars

(* pmsd's one goroutine reconnects with backoff, asks for a sweep at every  *)
(* connect and every complete_sync_ms, reads it to its end and reconciles;  *)
(* the PMS answers it.  The applier drains the inbox whenever something is  *)
(* claimable.                                                               *)
FairSpec == Spec /\ WF_vars(PmsdStep) /\ WF_vars(ProcessNext) /\ WF_vars(SecondHalf)

-----------------------------------------------------------------------------
\* Types; the staging buffer is flushed before it is full, so a sweep never holds StageBatchSize rows back.
TypeOK ==
    /\ guest \in [Reservations -> Rooms \cup {Away}]
    /\ owed \in {<<>>} \cup {<<rec>> : rec \in Record}
    /\ ins \in [Reservations -> 0 .. MaxHappenings + 1] /\ outs \in [Reservations -> 0 .. MaxHappenings]
    /\ spoilt \in BOOLEAN
    /\ link \in {"UP", "DOWN"} /\ asked \in BOOLEAN
    /\ sink.synced \in BOOLEAN /\ sink.window \in BOOLEAN /\ sink.phase \in {"READ", "PUBLISHED"}
    /\ sink.todo \subseteq Rooms /\ Swept \subseteq Rooms /\ sink.roster \subseteq Reservations
    /\ Len(sink.buf) < StageBatchSize
    /\ \A i \in DOMAIN inbox : inbox[i].rec \in Record /\ inbox[i].claimable \in BOOLEAN
    /\ known \subseteq Rooms
    /\ stay \in [Reservations -> [status : {"NONE", "IN_HOUSE", "CHECKED_OUT"},
                                  room : Rooms \cup {Away}, version : Nat]]
    /\ ops \in 0 .. MaxHappenings /\ drops \in 0 .. MaxDrops /\ garbled \in 0 .. MaxGarbled

\* Events of one interface are applied in the order they were received: no row the engine may claim stands
\* behind one that is still staged, of an abandoned generation included.
AppliedInOrder == \A i, j \in DOMAIN inbox : i < j /\ inbox[j].claimable => inbox[i].claimable

Checkouts(r) == IF stay[r].status = "IN_HOUSE" THEN stay[r].version - 1 ELSE stay[r].version

\* The mirror ends a stay only as often as its guest left, and begins an episode only as often as the guest
\* came, whatever is lost, swept twice, or left over from an abandoned sweep; unless a record was unreadable
\* inside an open sweep, or a departure named only a room two guests shared.
EpisodesAreReal ==
    ~spoilt => \A r \in Reservations : Checkouts(r) <= outs[r] /\ stay[r].version <= ins[r]

InHouse == {r \in Reservations : guest[r] # Away}
Agrees == \A r \in Reservations : IF guest[r] = Away THEN stay[r].status # "IN_HOUSE"
                                  ELSE stay[r].status = "IN_HOUSE" /\ stay[r].room = guest[r]

\* When the hotel comes to rest with enough guests for its roster to be trusted, the mirror agrees with it.
MirrorConverges == <>[](Cardinality(InHouse) >= RosterTrustMin) => <>[]Agrees
=============================================================================
