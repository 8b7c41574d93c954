------------------------- MODULE RoomChargeInvariant -------------------------
(***************************************************************************)
(* The inductive invariants of RoomCharge: model-checked on small          *)
(* instances, proved in RoomChargeProofs for all of them.  Inv is about    *)
(* what was sent; MoneyInv, ViewIsCurrent and ContractInv, at the end,     *)
(* stand on it.                                                            *)
(*                                                                         *)
(* A P# is written only by its own handler, and a handler that answered    *)
(* NOT_TRANSMITTED is over without having written.  So when the ledger     *)
(* records NOT_SENT, the P# is not on the wire and nothing is left that    *)
(* could put it there (NotSentIsOver).  Every attempt that is not NOT_SENT *)
(* can be followed by another one of the same charge only through the      *)
(* audited authorization, which is given once and consumed by the attempt  *)
(* it names (ReviewOnce, AuthorisedInTurn).                                *)
(***************************************************************************)
EXTENDS RoomCharge

\* A charge that exists has a stay.
ChargesHaveStays == \A p \in Posting : outbox[p] # "NONE" => stayOf[p] \in Stay

\* P#s below nextP belong to existing charges; the others are untouched.
AttemptsAllocated ==
    \A n \in PNum :
        IF n < nextP
        THEN /\ att[n].posting \in Posting
             /\ outbox[att[n].posting] # "NONE"
             /\ att[n].outcome # "NONE"
        ELSE att[n] = NoAttempt

\* latest[p] is the greatest P# of p.
LatestIsLast ==
    /\ \A n \in PNum : att[n].posting \in Posting => n <= latest[att[n].posting]
    /\ \A p \in Posting : latest[p] # 0 => att[latest[p]].posting = p

Unwritten == {"idle", "received", "checked", "authorised", "registered", "enqueued"}

\* What a handler's state says about the wire.
HandlersKnow ==
    \A n \in PNum :
        /\ hs[n] # "idle" => cmd[n] = n /\ n < nextP
        /\ hs[n] \in Unwritten => n \notin onWire
        /\ hs[n] # "done" => resp[n].result = "none"
        /\ resp[n].result = "NOT_TRANSMITTED" => n \notin onWire

\* What the lane knows about the attempt it works on.
LaneKnows ==
    /\ lane.pc # "idle" => lane.p \in Posting
    /\ lane.pc \in {"dial", "wait", "settle"} => lane.n \in PNum /\ lane.n < nextP
    /\ lane.pc = "dial" => hs[lane.n] = "idle"
    /\ lane.pc = "settle" /\ lane.result = "NOT_TRANSMITTED" =>
         lane.n \notin onWire /\ hs[lane.n] \in {"idle", "done"}

\* NOT_SENT is a proof: the P# is not on the wire and nothing can put it there.
NotSentIsOver ==
    \A n \in PNum : att[n].outcome = "NOT_SENT" =>
        /\ n \notin onWire
        /\ hs[n] \in {"idle", "done"}
        /\ ~(lane.pc = "dial" /\ lane.n = n)

\* A charge is authorised for a retry once, and the authorization is used once.
ReviewOnce ==
    \A p \in Posting :
        /\ review[p].auth \/ review[p].used # 0 => review[p].term # "none"
        /\ ~(review[p].auth /\ review[p].used # 0)

\* An attempt after one that may have been sent is at or after the authorised one.
AuthorisedInTurn ==
    \A m, n \in PNum :
        /\ att[m].posting \in Posting /\ att[m].posting = att[n].posting
        /\ m < n /\ att[m].outcome # "NOT_SENT"
        => m < review[att[m].posting].used /\ review[att[m].posting].used <= n

\* The inductive invariant: ledger, lane, handlers and wire agree on what was sent, at
\* every step of every actor, so that NOT_SENT and a retry are always justified.
Inv ==
    /\ TypeOK
    /\ ChargesHaveStays
    /\ AttemptsAllocated
    /\ LatestIsLast
    /\ HandlersKnow
    /\ LaneKnows
    /\ NotSentIsOver
    /\ ReviewOnce
    /\ AuthorisedInTurn

-----------------------------------------------------------------------------
(* The money.  An attempt is spent when nothing can put it on the wire and *)
(* the PMS will not act on it any more.  The audited retry is given only   *)
(* when every attempt of the charge is spent and none is debited, and they *)
(* stay so; what an answer says of its P# is true from the PMS through the *)
(* relay and the lane into the ledger.                                     *)

Spent(n) ==
    IF n \in onWire THEN n \in processed
    ELSE hs[n] \in {"idle", "done"} /\ ~(lane.pc = "dial" /\ lane.n = n)

\* The PMS debits only what it processed, and processes only what was written.
FolioOnWire == folio \subseteq processed /\ processed \subseteq onWire

\* The attempts before an authorised retry are spent and not on the folio.
RetriedAreSpent ==
    \A n \in PNum :
        /\ att[n].posting \in Posting
        /\ review[att[n].posting].auth \/ n < review[att[n].posting].used
        => Spent(n) /\ n \notin folio

\* The attempt that consumed an authorization has been handed out.
UsedIsAllocated == \A p \in Posting : review[p].used < nextP

\* What a PA status says of the charge, if it says anything.
TrueOf(n, as) == (as = "OK" => n \in folio) /\ (as \in NotPosted => n \in processed \ folio)

\* An answer is true wherever it is on its way to the ledger.
AnswersTrue ==
    /\ \A n \in PNum : TrueOf(n, pa[n])
    /\ \A n \in PNum : TrueOf(answer[n].pn, answer[n].as)
    /\ \A n \in PNum : TrueOf(resp[n].pa.pn, resp[n].pa.as)
    /\ lane.pc = "settle" /\ lane.result = "ANSWERED" => TrueOf(lane.n, lane.as)
    /\ \A n \in PNum : att[n].outcome = "ACKED" => TrueOf(n, att[n].as)
    /\ confirmed \subseteq NotPosted

\* The one SENDING attempt of a charge is its latest, and its row is in flight.
SendingIsLatest ==
    \A n \in PNum : att[n].outcome = "SENDING" =>
        outbox[att[n].posting] = "IN_FLIGHT" /\ latest[att[n].posting] = n

\* The inductive invariant of the money, beside Inv.
MoneyInv ==
    /\ FolioOnWire
    /\ RetriedAreSpent
    /\ UsedIsAllocated
    /\ AnswersTrue
    /\ SendingIsLatest
    /\ QueuedIsSendable
    /\ GrantedIsDebited

\* While the link's port is offered and a sweep has ended on it, the relay's view and
\* the feed are what the PMS says of every guest in house.
ViewIsCurrent ==
    link \in {"STEADY", "RESYNC", "BROKEN"} =>
        \A s \in Stay : pmsRoom[s] # Away => seen[s] = pmsRoom[s] /\ inbox[s] = pmsRoom[s]

\* Where reviewers decide on rows at rest only: a row that will be attempted is of an open charge, and one that is
\* closed is held only by a decision.
RowsOpen ==
    \A p \in Posting :
        /\ (settlement[p] = "NONE") <=> (outbox[p] = "NONE")
        /\ outbox[p] \in {"QUEUED", "IN_FLIGHT"} \/ p \in parked => RoomChargeOpen(p)
        /\ p \in parked => outbox[p] = "HELD_RECOVERY"
        /\ outbox[p] = "HELD_RECOVERY" => RoomChargeOpen(p) \/ review[p].term # "none"
        /\ review[p].auth \/ review[p].used # 0 => review[p].term = "CONFIRM_NOT_POSTED_RETRY"

\* An acknowledged charge is done.
AckedIsDone == \A n \in PNum : att[n].outcome = "ACKED" => outbox[att[n].posting] = "DONE"

\* Nothing of a closed charge can still reach the PMS or the folio, and a failed one is not on it.
ClosedIsSpent ==
    \A n \in PNum :
        /\ att[n].posting \in Posting
        /\ settlement[att[n].posting] \in {"SETTLED", "FAILED"}
        => Spent(n) /\ (settlement[att[n].posting] = "FAILED" => n \notin folio)

\* The inductive invariant of the contract, beside Inv and MoneyInv.
ContractInv == RowsOpen /\ AckedIsDone /\ ClosedIsSpent

=============================================================================
