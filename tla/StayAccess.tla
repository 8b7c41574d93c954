----------------------------- MODULE StayAccess -----------------------------
(***************************************************************************)
(* What one stay may use, as its check-ins, check-outs and room moves are  *)
(* applied: packages granted to it, the conversion of the live package into*)
(* After Check-out Access at the check-out boundary, its continuation when *)
(* the check-out turns out to be half of a room move, refunds and expiry.  *)
(*                                                                         *)
(* The boundary is a business time: the PMS's own time of the check-out.   *)
(* The stay engine may apply the event long after it, so the conversion    *)
(* decides from the history what was active then, not from what is now.    *)
(* And the PMS's clock may lead: a time up to FutureSkew ahead is trusted  *)
(* as it is, so a package may end, and its After Check-out Access begin,   *)
(* in the future.                                                          *)
(*                                                                         *)
(* Time is counted in ticks.  Devices, sessions, data quotas and suspension*)
(* by staff are abstracted away: an entitlement is live or it has ended.   *)
(***************************************************************************)
EXTENDS Integers, Sequences, FiniteSets

CONSTANTS Rooms,
          Away,           \* where the guest is when not in the hotel
          PackageLife,    \* how long a package lasts
          GraceLife,      \* how long After Check-out Access lasts
          FutureSkew,     \* how far ahead a PMS time is still trusted (boundaryFutureSkew)
          NoTime,         \* a record without a PMS time, a package without an end
          MaxTime,        \* bound of the clocks; it stands for every later time
          MaxHappenings   \* bound of what the hotel and the guest do

ASSUME StayAccessAssumption ==
    /\ {PackageLife, GraceLife} \subseteq Nat \ {0}
    /\ {FutureSkew, MaxTime, MaxHappenings} \subseteq Nat
    /\ NoTime \notin Int
    /\ Away \notin Rooms

VARIABLES
    now,
    guest,    \* where the guest is
    queue,    \* the stay's admitted events, not yet applied
    stay,     \* iam_v2.stays
    ents,     \* iam_v2.entitlements with their state history
    audit,    \* the check-out record of each episode (checkout_grace_audit)
    buying,   \* the window of a purchase not granted yet, or none
    switch,   \* the site's After Check-out Access switch
    ops       \* how much happened in the hotel and at the desk

vars == <<now, guest, queue, stay, ents, audit, buying, switch, ops>>

NoEnt == 0
Ids == 1 .. Len(ents)

Event(type, room, at) == [type |-> type, room |-> room, at |-> at]
Ent(kind, from, window, restores) ==
    [kind |-> kind, status |-> "ACTIVE", reason |-> "NONE", from |-> from, until |-> NoTime,
     window |-> window, restores |-> restores, reversed |-> FALSE]

\* The guest's arrival is applied, and the stay may have a package.
Init ==
    /\ now = 0
    /\ guest \in Rooms
    /\ queue = <<>>
    /\ stay = [status |-> "IN_HOUSE", room |-> guest, version |-> 1]
    /\ ents \in {<<>>} \cup {<<Ent("PACKAGE", 0, window, NoEnt)>> : window \in {NoTime, PackageLife}}
    /\ audit = <<>>
    /\ buying = {}
    /\ switch \in BOOLEAN
    /\ ops = 0

-----------------------------------------------------------------------------
(* The history of an entitlement.                                          *)

Live(e) == ents[e].status = "ACTIVE"
LiveEnts == {e \in Ids : Live(e)}
Packages == {e \in Ids : ents[e].kind # "GRACE"}

\* terminate_entitlement_at_boundary: a termination at a past time supersedes what the history says after it.
Ended(ent, at, reason) == [ent EXCEPT !.status = "TERMINATED", !.reason = reason, !.until = at]

\* the state by the latest transition effective at or before the time
ActiveAt(ent, at) == ent.from <= at /\ (ent.status = "ACTIVE" \/ at < ent.until)

WindowOpen(ent, at) == ent.window # NoTime => ent.window > at

-----------------------------------------------------------------------------
(* The hotel, and what its records say.                                    *)

Happens == ops < MaxHappenings /\ ops' = ops + 1 /\ UNCHANGED <<now, stay, ents, audit, buying, switch>>

\* A record carries a time of the event, or none; the clock behind it may be a tick slow, or fast by more than is trusted.
Stamps == ((now - 1 .. now + FutureSkew + 1) \cap (0 .. MaxTime)) \cup {NoTime}

CheckOut(at) ==
    /\ guest # Away
    /\ Happens
    /\ guest' = Away
    /\ queue' = Append(queue, Event("GO", guest, at))

CheckIn(room, at) ==
    /\ guest = Away
    /\ Happens
    /\ guest' = room
    /\ queue' = Append(queue, Event("GI", room, at))

\* A room move, announced as a check-out and a check-in, in either order.
Move(room, at, inFirst) ==
    /\ guest \notin {Away, room}
    /\ Happens
    /\ guest' = room
    /\ LET go == Event("GO", guest, at)
           gi == Event("GI", room, at)
       IN  queue' = queue \o (IF inFirst THEN <<gi, go>> ELSE <<go, gi>>)

Tick ==
    /\ now < MaxTime
    /\ now' = now + 1
    /\ UNCHANGED <<guest, queue, stay, ents, audit, buying, switch, ops>>

-----------------------------------------------------------------------------
(* Packages.                                                               *)

\* A purchase is begun by a guest whom the mirror has in house; its window is fixed by the quote.
BeginPurchase(window) ==
    /\ stay.status = "IN_HOUSE"
    /\ buying = {}
    /\ ops < MaxHappenings /\ ops' = ops + 1
    /\ buying' = {window}
    /\ UNCHANGED <<now, guest, queue, stay, ents, audit, switch>>

\* apply_entitlement_transition refuses an end that is dated before the row's latest fact.
EndsNow == \A e \in LiveEnts : ents[e].from <= now

GrantBeside ==
    /\ EndsNow
    /\ \E window \in buying : ents' = Append(ents, Ent("PACKAGE", now, window, NoEnt))
    /\ buying' = {}
    /\ UNCHANGED <<now, guest, queue, stay, audit, switch, ops>>

\* p4_entitlement_grant_kernel_v2, once the money is there: it supersedes what is live, whatever the stay is by now;
\* while that cannot be ended the grant fails, and is tried again.
Grant ==
    /\ EndsNow
    /\ \E window \in buying :
         ents' = Append([e \in Ids |-> IF Live(e) THEN Ended(ents[e], now, "SUPERSEDED") ELSE ents[e]],
                        Ent("PACKAGE", now, window, NoEnt))
    /\ buying' = {}
    /\ UNCHANGED <<now, guest, queue, stay, audit, switch, ops>>

\* the package a room-move continuation goes back to
Funding(e) == LET back[n \in 0 .. Len(ents)] ==
                    IF n = 0 \/ ents[n].restores = NoEnt THEN n ELSE back[ents[n].restores]
              IN  back[e]

\* p4_apply_refund_policy on a full refund: what the purchase funds ends, in a continuation too.
Refund(e) ==
    /\ ents[e].kind = "PACKAGE"
    /\ ~ents[e].reversed
    /\ ops < MaxHappenings /\ ops' = ops + 1
    /\ ents' = [x \in Ids |->
                  LET ent == IF x = e THEN [ents[x] EXCEPT !.reversed = TRUE] ELSE ents[x]
                  IN  IF Live(x) /\ Funding(x) = e THEN Ended(ent, now, "REVOKED") ELSE ent]
    /\ UNCHANGED <<now, guest, queue, stay, audit, buying, switch>>

\* At MaxTime, which stands for every later time, any window may be over.
Due(e) == ents[e].window # NoTime /\ (now < MaxTime => ents[e].window <= now)
DueAt(e) == IF ents[e].window <= now THEN ents[e].window ELSE now

ExpirePackage(e) ==
    /\ Live(e)
    /\ e \in Packages
    /\ Due(e)
    /\ ents' = [ents EXCEPT ![e] = Ended(@, DueAt(e), "TIME")]
    /\ UNCHANGED <<now, guest, queue, stay, audit, buying, switch, ops>>

\* p6_expire_entitlement
Expire(e) ==
    /\ Live(e)
    /\ Due(e)
    /\ ents' = [ents EXCEPT ![e] = Ended(@, DueAt(e), "TIME")]
    /\ UNCHANGED <<now, guest, queue, stay, audit, buying, switch, ops>>

-----------------------------------------------------------------------------
(* The check-out conversion (internal/checkout convertTx).                 *)

\* deriveBoundary: the record's time, the server's clock when there is none or it is implausibly far ahead.  The floor
\* of boundaryFloor never binds: no record is older than the arrival, and the clause on the stay's last applied event
\* compares sequence_version, which is 0 in every row that is written.
Boundary(ev) == IF ev.at = NoTime \/ ev.at > now + FutureSkew THEN now ELSE ev.at

\* eligibleOriginalAtBoundary; with several active (MULTIPLE_ACTIVE_AT_BOUNDARY) none is converted
ActiveOriginals(at) == {e \in Packages : ActiveAt(ents[e], at)}
Eligible(at) ==
    IF Cardinality(ActiveOriginals(at)) = 1 THEN {e \in ActiveOriginals(at) : WindowOpen(ents[e], at)} ELSE {}

TerminatedAtAsCheckout(at) ==
    [e \in Ids |-> IF e \in Packages /\ Live(e) THEN Ended(ents[e], at, "CHECKOUT") ELSE ents[e]]

\* terminateNonTerminalPreCheckout
TerminatedAt(at) ==
    [e \in Ids |-> IF e \in Packages /\ Live(e)
                   THEN Ended(ents[e], at, IF e \in Eligible(at) THEN "CONVERTED" ELSE "CHECKOUT") ELSE ents[e]]

\* The index ent_live_stay has one place: with a live grace of an earlier episode in it the transaction fails, and
\* the event stays the oldest of its interface.
GraceFits == \A e \in LiveEnts : e \in Packages

\* writeAudit: one row per episode
Audited(row) == Append(audit, row)

\* DecideConversion and createGrace.
Convert(ev) ==
    LET at == Boundary(ev)
        create == Eligible(at) # {} /\ switch
    IN  /\ create => GraceFits
        /\ ents' = IF create THEN Append(TerminatedAt(at), Ent("GRACE", at, at + GraceLife, NoEnt)) ELSE TerminatedAt(at)
        /\ audit' = Audited([at |-> at, made |-> now, room |-> ev.room, held |-> LiveEnts \cap Packages,
                             grace |-> IF create THEN Len(ents) + 1 ELSE NoEnt])
        /\ stay' = [stay EXCEPT !.status = "CHECKED_OUT"]

-----------------------------------------------------------------------------
(* The continuation of a package after a room move (restore_room_move_access). *)

LastCheckout == audit[Len(audit)]

\* the package the check-out converted, at exactly its boundary
Converted == {e \in Packages : ents[e].reason = "CONVERTED" /\ ents[e].until = LastCheckout.at}

\* FUNDING_REVERSED, EXPIRED and LIVE_ACCESS_PRESENT are recorded and leave everything as it is; so does, under the
\* savepoint, a failure to end After Check-out Access that begins in the future.
RestorableUnfunded(e) ==
    /\ WindowOpen(ents[e], now)
    /\ LiveEnts \subseteq {LastCheckout.grace}
    /\ EndsNow

Restorable(e) ==
    /\ WindowOpen(ents[e], now)
    /\ ~ents[Funding(e)].reversed
    /\ LiveEnts \subseteq {LastCheckout.grace}
    /\ EndsNow

\* the outcome RESTORED: the After Check-out Access ends and the package goes on, with the window it had
Continue(o) ==
    ents' = Append([e \in Ids |-> IF Live(e) THEN Ended(ents[e], now, "SUPERSEDED") ELSE ents[e]],
                   Ent("CONTINUATION", now, ents[o].window, o))

RestoreRoomMove ==
    \/ \E o \in Converted : Restorable(o) /\ Continue(o)
    \/ \E o \in Converted : ~Restorable(o) /\ UNCHANGED ents
    \/ Converted = {} /\ UNCHANGED ents

-----------------------------------------------------------------------------
(* The stay engine on the oldest event.                                    *)

Apply(ev) ==
    CASE ev.type = "GO" /\ stay.status = "IN_HOUSE" /\ ev.room = stay.room -> Convert(ev)
      [] ev.type = "GI" /\ stay.status = "CHECKED_OUT" ->
           /\ stay' = [status |-> "IN_HOUSE", room |-> ev.room, version |-> stay.version + 1]
           /\ IF ev.room # stay.room THEN RestoreRoomMove ELSE UNCHANGED ents
           /\ audit' = audit
      [] ev.type = "GI" /\ stay.status = "IN_HOUSE" ->
           /\ stay' = [stay EXCEPT !.room = ev.room]
           /\ UNCHANGED <<ents, audit>>
      [] OTHER -> UNCHANGED <<stay, ents, audit>>   \* VACATE_OLD_ROOM, SKIP_DUPLICATE

ProcessNext ==
    /\ queue # <<>>
    /\ Apply(Head(queue))
    /\ queue' = Tail(queue)
    /\ UNCHANGED <<now, guest, buying, switch, ops>>

Next ==
    \/ \E at \in Stamps : CheckOut(at)
    \/ \E room \in Rooms, at \in Stamps : CheckIn(room, at)
    \/ \E room \in Rooms, at \in Stamps, inFirst \in BOOLEAN : Move(room, at, inFirst)
    \/ Tick
    \/ \E window \in {NoTime, now + PackageLife} : BeginPurchase(window)
    \/ Grant
    \/ \E e \in Ids : Refund(e)
    \/ \E e \in Ids : Expire(e)
    \/ ProcessNext

Spec == Init /\ [][Next]_vars

(* The applier retries the oldest event of the interface for as long as it  *)
(* fails; the expiry sweep ends every window that is over; time passes.     *)
FairSpec == Spec /\ WF_vars(ProcessNext) /\ WF_vars(\E e \in Ids : Expire(e)) /\ WF_vars(Tick)

-----------------------------------------------------------------------------
Time == 0 .. MaxTime

\* Types; a stay has exactly one check-out record per episode that ended, and a continuation restores an earlier row.
TypeOK ==
    /\ now \in Time /\ switch \in BOOLEAN /\ ops \in 0 .. MaxHappenings
    /\ guest \in Rooms \cup {Away}
    /\ \A i \in DOMAIN queue : queue[i].type \in {"GI", "GO"} /\ queue[i].room \in Rooms /\ queue[i].at \in Time \cup {NoTime}
    /\ stay.status \in {"IN_HOUSE", "CHECKED_OUT"} /\ stay.room \in Rooms
    /\ stay.version = IF stay.status = "IN_HOUSE" THEN Len(audit) + 1 ELSE Len(audit)
    /\ \A e \in Ids : /\ ents[e].kind \in {"PACKAGE", "GRACE", "CONTINUATION"}
                      /\ ents[e].status \in {"ACTIVE", "TERMINATED"}
                      /\ ents[e].from \in Time
                      /\ ents[e].restores \in 0 .. e - 1
    /\ \A i \in DOMAIN audit : {audit[i].at, audit[i].made} \subseteq Time /\ audit[i].room \in Rooms /\ audit[i].grace \in 0 .. Len(ents)

\* A time between the application of a check-out and the later time it was dated at.
Lead(at) == \E i \in DOMAIN audit : audit[i].made <= at /\ at < audit[i].at

\* No two packages of the stay were ever active at one time, whatever was ended in the past, but for times by which a
\* trusted PMS clock led a check-out: until such a boundary the converted package counts as active, and what the guest
\* was given in the meantime beside it. Elsewhere the conversion never meets MULTIPLE_ACTIVE_AT_BOUNDARY, the one
\* outcome that returns before devices and sessions are revoked.
OneActiveAtATime == \A at \in Time : ~Lead(at) => Cardinality(ActiveOriginals(at)) <= 1

\* What a refunded purchase funded stays ended, through any number of room moves before or after the refund.
RefundedStaysEnded == \A e \in LiveEnts \cap Packages : ~ents[Funding(e)].reversed

\* the packages the check-out that a check-in now answers took from the guest before they were over
TakenBy(checkout) ==
    {e \in checkout.held : (\A at \in {now, checkout.at} : WindowOpen(ents[e], at)) /\ ~ents[Funding(e)].reversed}

MoveApplied ==
    /\ ProcessNext
    /\ stay.status = "CHECKED_OUT" /\ stay'.status = "IN_HOUSE"
    /\ stay'.room # stay.room

HasPackage == LiveEnts \cap Packages # {}

\* The conversion looks the package up by the time of the boundary.
BoundaryIsItsOwn == \A i \in 1 .. Len(audit) - 1 : audit[i].at # LastCheckout.at

\* A room move leaves the guest with a package, when the check-out half found one that was granted before it, no
\* earlier check-out of the stay has the same boundary or was still ahead at it, and the After Check-out Access does
\* not begin in the future.
MoveKeepsPackage ==
    [][MoveApplied /\ BoundaryIsItsOwn /\ ~Lead(LastCheckout.at) /\ EndsNow
       /\ (\E e \in TakenBy(LastCheckout) : ents[e].from <= LastCheckout.at) => HasPackage']_vars

\* Every admitted event is applied in the end: a check-out the one-live index refuses waits for the After Check-out
\* Access of the earlier episode to run out, and no longer.
StreamDrains == []<>(queue = <<>>)
=============================================================================
