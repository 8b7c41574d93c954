-------------------------- MODULE RoomChargeProofs --------------------------
(***************************************************************************)
(* Theorems about RoomCharge, for every number of charges, attempts,       *)
(* stays, rooms, answer codes and disturbances; the argument is told in    *)
(* RoomChargeInvariant.                                                    *)
(***************************************************************************)
EXTENDS RoomChargeInvariant, FinancialRelayProofs, FiniteSetTheorems

-----------------------------------------------------------------------------
(* Types: the ledger's transactions *)

\* A purchase by room charge keeps the ledger's types.
LEMMA CreateTyped ==
    ASSUME LedgerTypeOK, NEW p \in Posting, NEW s \in Stay, CreateRoomCharge(p, s)
    PROVE  LedgerTypeOK'
BY DEF LedgerTypeOK, CreateRoomCharge, attemptVars, siteVars, OutboxState, SettlementState

\* RunOnce's first transaction (claim, P#, attempt, consumed authorization) keeps the ledger's types.
LEMMA BeginTyped ==
    ASSUME LedgerTypeOK, ChargesHaveStays, NEW p \in Posting, BeginAttempt(p)
    PROVE  LedgerTypeOK'
<1>1. stayOf[p] \in Stay
  BY DEF BeginAttempt, Claimable, ChargesHaveStays
<1>2. stays[stayOf[p]] \in Room \cup {Away}
  BY <1>1 DEF LedgerTypeOK
<1>3. att' \in [PNum -> Attempt]
  BY <1>2 DEF LedgerTypeOK, BeginAttempt, Attempt, Outcome
<1>4. nextP' \in 1 .. MaxAttempt + 1 /\ latest' \in [Posting -> 0 .. MaxAttempt]
  BY BaseConstants DEF LedgerTypeOK, BeginAttempt, PNum
<1>5. review' \in [Posting -> Review]
  <2>1. review[p] \in Review /\ nextP \in 0 .. MaxAttempt
    BY BaseConstants DEF LedgerTypeOK, BeginAttempt, PNum
  <2>2. [review[p] EXCEPT !.auth = FALSE, !.used = nextP] \in Review
    BY <2>1 DEF Review
  <2> QED
    BY <2>1, <2>2 DEF LedgerTypeOK, BeginAttempt
<1>6. outbox' \in [Posting -> OutboxState]
  BY DEF LedgerTypeOK, BeginAttempt, OutboxState
<1> QED
  BY <1>3, <1>4, <1>5, <1>6 DEF LedgerTypeOK, BeginAttempt, moneyVars, siteVars

\* abortBeforeSend and decline keep the ledger's types.
LEMMA RefuseTyped ==
    ASSUME LedgerTypeOK, NEW p \in Posting,
           AbortBeforeSend(p) \/ ReturnToReview(p) \/ Decline(p)
    PROVE  LedgerTypeOK'
<1>1. CASE AbortBeforeSend(p)
  BY <1>1 DEF LedgerTypeOK, AbortBeforeSend, attemptVars, siteVars, OutboxState, SettlementState
<1>2. CASE ReturnToReview(p)
  BY <1>2 DEF LedgerTypeOK, ReturnToReview, moneyVars, attemptVars, siteVars, OutboxState
<1>3. CASE Decline(p)
  <2>1. outbox' \in [Posting -> OutboxState] /\ parked' \in SUBSET Posting
    BY <1>3 DEF LedgerTypeOK, Decline, OutboxState
  <2>2. declines' \in [Posting -> 0 .. ParkAfter]
    BY <1>3, LedgerConstants DEF LedgerTypeOK, Decline
  <2> QED
    BY <1>3, <2>1, <2>2 DEF LedgerTypeOK, Decline, moneyVars, attemptVars, siteVars
<1> QED
  BY <1>1, <1>2, <1>3

\* settle's transaction keeps the ledger's types.
LEMMA SettleTyped ==
    ASSUME LedgerTypeOK, NEW n \in PNum, NEW r \in Result \cup {"none"},
           NEW as \in AnswerCode \cup {"none"}, SettleAttempt(n, r, as)
    PROVE  LedgerTypeOK'
<1>1. SettleOutcome(r, as) \in {"ACKED", "NOT_SENT", "UNKNOWN"}
  BY DEF SettleOutcome
<1>2. att' \in [PNum -> Attempt]
  <2>1. [att[n] EXCEPT !.outcome = SettleOutcome(r, as),
                       !.as = IF r = "ANSWERED" THEN as ELSE "none"] \in Attempt
    BY <1>1, ZenonT(30) DEF LedgerTypeOK, Attempt, Outcome
  <2> QED
    BY <2>1 DEF LedgerTypeOK, SettleAttempt
<1>3. outbox' \in [Posting -> OutboxState]
  BY <1>1 DEF LedgerTypeOK, SettleAttempt, OutboxState
<1> QED
  BY <1>2, <1>3 DEF LedgerTypeOK, SettleAttempt, moneyVars, siteVars

\* RecoverOrphanedAttempts' transaction keeps the ledger's types.
LEMMA OrphanTyped ==
    ASSUME LedgerTypeOK, NEW n \in PNum, ConcludeOrphan(n)
    PROVE  LedgerTypeOK'
<1>1. att' \in [PNum -> Attempt]
  BY DEF LedgerTypeOK, ConcludeOrphan, Attempt, Outcome
<1>2. outbox' \in [Posting -> OutboxState]
  BY DEF LedgerTypeOK, ConcludeOrphan, OutboxState
<1> QED
  BY <1>1, <1>2 DEF LedgerTypeOK, ConcludeOrphan, moneyVars, siteVars

\* p4_posting_settlement_outcome keeps the ledger's types.
LEMMA FollowTyped ==
    ASSUME LedgerTypeOK, NEW p \in Posting, SettlementFollows(p)
    PROVE  LedgerTypeOK'
<1>1. SettlementTarget(p) \in SettlementState \cup {"none"}
  BY DEF SettlementTarget, SettlementState
<1>2. AnswerBlock(LastAnswer(p)) \subseteq BlockReason
  BY DEF AnswerBlock, BlockReason
<1>3. settlement' \in [Posting -> SettlementState]
  BY <1>1 DEF LedgerTypeOK, SettlementFollows, SettlementState, moneyVars
<1>4. unresolved' \in SUBSET Posting
  BY DEF LedgerTypeOK, SettlementFollows, moneyVars
<1>5. blocks' \in [Stay -> SUBSET BlockReason]
  BY <1>2 DEF LedgerTypeOK, SettlementFollows, moneyVars
<1> QED
  BY <1>3, <1>4, <1>5 DEF LedgerTypeOK, SettlementFollows, queueVars, attemptVars, siteVars

\* A review decision and its effect keep the ledger's types.
LEMMA ReviewTyped ==
    ASSUME LedgerTypeOK, NEW p \in Posting, NEW a \in TerminalAction, DecideReview(p, a)
    PROVE  LedgerTypeOK'
<1>1. review' \in [Posting -> Review]
  <2> DEFINE granted == (a = "CONFIRM_NOT_POSTED_RETRY")
  <2>1. [review[p] EXCEPT !.term = a, !.auth = granted] \in Review
    <3>1. granted \in BOOLEAN /\ review[p] \in Review
      BY DEF LedgerTypeOK
    <3> HIDE DEF granted
    <3> QED
      BY <3>1 DEF Review
  <2>2. review' = [review EXCEPT ![p] = [review[p] EXCEPT !.term = a, !.auth = granted]]
    BY DEF DecideReview
  <2> HIDE DEF granted
  <2> QED
    BY <2>1, <2>2 DEF LedgerTypeOK
<1>2. outbox' \in [Posting -> OutboxState]
  BY DEF LedgerTypeOK, DecideReview, OutboxState, TerminalAction
<1>3. settlement' \in [Posting -> SettlementState] /\ unresolved' \in SUBSET Posting
  BY DEF LedgerTypeOK, DecideReview, SettlementState, TerminalAction
<1> QED
  BY <1>1, <1>2, <1>3 DEF LedgerTypeOK, DecideReview, attemptVars, siteVars

\* Requeueing a parked row keeps the ledger's types.
LEMMA RequeueTyped ==
    ASSUME LedgerTypeOK, NEW p \in Posting, RequeueParked(p)
    PROVE  LedgerTypeOK'
BY LedgerConstants DEF LedgerTypeOK, RequeueParked, OutboxState, moneyVars, attemptVars, siteVars

\* The transactions of the site: configuration, feed, confirmations, blocks.
SiteStep ==
    \/ \E as \in Confirmable : RecordConfirmation(as)
    \/ \E s \in Stay : AdminBlock(s) \/ \E r \in Room \cup {Away} : ApplyGuestRecord(s, r)
    \/ \E l \in Lifecycle : SetLifecycle(l)
    \/ Decommission \/ FreshnessChanges \/ PinnedConfigChanges

\* Confirmations, blocks, lifecycle, freshness, configuration and guest records keep
\* the ledger's types.
LEMMA SiteTyped ==
    ASSUME LedgerTypeOK, SiteStep
    PROVE  LedgerTypeOK'
<1>1. ASSUME NEW as \in Confirmable, RecordConfirmation(as)
      PROVE  LedgerTypeOK'
  BY <1>1 DEF LedgerTypeOK, RecordConfirmation, queueVars, moneyVars, attemptVars
<1>2. ASSUME NEW s \in Stay, AdminBlock(s)
      PROVE  LedgerTypeOK'
  BY <1>2 DEF LedgerTypeOK, AdminBlock, BlockReason, queueVars, attemptVars, siteVars
<1>3. ASSUME NEW s \in Stay, NEW r \in Room \cup {Away}, ApplyGuestRecord(s, r)
      PROVE  LedgerTypeOK'
  BY <1>3 DEF LedgerTypeOK, ApplyGuestRecord, queueVars, attemptVars
<1>4. ASSUME NEW l \in Lifecycle, SetLifecycle(l)
      PROVE  LedgerTypeOK'
  BY <1>4 DEF LedgerTypeOK, SetLifecycle, queueVars, moneyVars, attemptVars
<1>5. CASE Decommission
  BY <1>5 DEF LedgerTypeOK, Decommission, Lifecycle, queueVars, moneyVars, attemptVars
<1>6. CASE FreshnessChanges
  BY <1>6 DEF LedgerTypeOK, FreshnessChanges, queueVars, moneyVars, attemptVars
<1>7. CASE PinnedConfigChanges
  BY <1>7 DEF LedgerTypeOK, PinnedConfigChanges, queueVars, moneyVars, attemptVars
<1> QED
  BY <1>1, <1>2, <1>3, <1>4, <1>5, <1>6, <1>7 DEF SiteStep

-----------------------------------------------------------------------------
(* What pmsd and the link can do to handlers and wire, all their steps alike *)

HandlerMoves ==
    /\ cmd' = cmd
    /\ \A n \in PNum :
         /\ hs[n] = "idle" <=> hs'[n] = "idle"
         /\ hs[n] = "done" => hs'[n] = "done" /\ resp'[n] = resp[n]
         /\ hs'[n] \in Unwritten => hs[n] \in Unwritten
         /\ hs'[n] # "done" => resp'[n].result = resp[n].result
         /\ n \in onWire' /\ n \notin onWire =>
              /\ hs[n] = "enqueued" /\ hs'[n] \notin Unwritten
              /\ resp'[n].result # "NOT_TRANSMITTED"
         /\ hs[n] \notin {"idle", "done"} /\ resp'[n].result = "NOT_TRANSMITTED" =>
              hs[n] \in Unwritten /\ n \notin onWire'

\* A step that touches one handler, c, and writes nothing.
LEMMA OneHandlerMoves ==
    ASSUME TypeOK, HandlersKnow, NEW c \in PNum, hs[c] \notin {"idle", "done"},
           NEW h \in HandlerState \ {"idle"}, NEW r \in Response,
           hs' = [hs EXCEPT ![c] = h], resp' = [resp EXCEPT ![c] = r],
           h # "done" => r = resp[c],
           h \in Unwritten => hs[c] \in Unwritten,
           r.result = "NOT_TRANSMITTED" => hs[c] \in Unwritten,
           UNCHANGED <<cmd, onWire>>
    PROVE  HandlerMoves
BY RoomChargeConstants DEF TypeOK, RelayTypeOK, HandlersKnow, HandlerMoves, Unwritten

\* A step that leaves handlers, responses and wire alone.
LEMMA NoHandlerMoves ==
    ASSUME TypeOK, HandlersKnow, UNCHANGED <<hs, cmd, resp, onWire>>
    PROVE  HandlerMoves
BY RoomChargeConstants DEF TypeOK, RelayTypeOK, HandlersKnow, HandlerMoves, Unwritten

\* A handler that answers without writing moves alone, and says NOT_TRANSMITTED only
\* when its P# is not on the wire.
LEMMA RespondMoves ==
    ASSUME TypeOK, HandlersKnow, NEW c \in PNum, hs[c] \notin {"idle", "done"},
           NEW r \in Response, Respond(c, r),
           r.result = "NOT_TRANSMITTED" => hs[c] \in Unwritten,
           UNCHANGED <<cmd, onWire>>
    PROVE  HandlerMoves
<1>1. "done" \in HandlerState \ {"idle"} /\ "done" \notin Unwritten
  BY DEF HandlerState, Unwritten
<1> QED
  BY <1>1, OneHandlerMoves DEF Respond

\* A handler that goes on to its next state before the write moves alone.
LEMMA AdvanceMoves ==
    ASSUME TypeOK, HandlersKnow, NEW c \in PNum, hs[c] \in Unwritten \ {"idle"},
           NEW h \in HandlerState \ {"idle", "done"},
           hs' = [hs EXCEPT ![c] = h], UNCHANGED <<resp, cmd, onWire>>
    PROVE  HandlerMoves
<1>1. resp[c] \in Response /\ resp' = [resp EXCEPT ![c] = resp[c]]
  BY RoomChargeConstants DEF TypeOK, RelayTypeOK
<1>2. hs[c] # "done" /\ resp[c].result = "none"
  BY DEF HandlersKnow, Unwritten
<1> QED
  BY <1>1, <1>2, OneHandlerMoves

\* Handle's checks up to the pending slot move one handler and write nothing.
LEMMA HandleMoves ==
    ASSUME TypeOK, HandlersKnow, NEW c \in PNum, NEW v \in RefusalCode \cup {"AUTHORISED"},
           CheckCarried(c) \/ Authorise(c, v) \/ Register(c)
    PROVE  HandlerMoves
<1> USE DEF HandlerState, Unwritten
<1>0. \A code \in RelayCode : /\ notSent(code) \in Response /\ unknown(code) \in Response
                              /\ unknown(code).result # "NOT_TRANSMITTED"
  BY ResponsesTyped DEF unknown
<1>1. CASE CheckCarried(c)
  <2>1. CASE cmd[c] \in carried
    BY <1>0, <1>1, <2>1, RespondMoves DEF CheckCarried, RelayCode
  <2>2. CASE cmd[c] \notin carried
    BY <1>1, <2>2, AdvanceMoves DEF CheckCarried
  <2> QED
    BY <2>1, <2>2
<1>2. CASE Authorise(c, v)
  <2>1. CASE v = "AUTHORISED"
    BY <1>2, <2>1, AdvanceMoves DEF Authorise
  <2>2. CASE v # "AUTHORISED"
    BY <1>0, <1>2, <2>2, RespondMoves DEF Authorise, RelayCode
  <2> QED
    BY <2>1, <2>2
<1>3. CASE Register(c)
  <2> DEFINE refusal == CASE link \in {"DOWN", "DETACHING"} -> "LINK_NOT_CONNECTED"
                          [] link \in {"INITIAL", "RESYNC"} -> "LINK_RESYNCING"
                          [] link \in {"STEADY", "BROKEN"} -> IF pending # 0 THEN "LINK_BUSY" ELSE ""
  <2>0. refusal \in RelayCode
    BY DEF TypeOK, RelayTypeOK, LinkState, RelayCode
  <2>1. CASE refusal # ""
    <3>1. Respond(c, notSent(refusal)) /\ hs[c] = "authorised" /\ UNCHANGED <<cmd, onWire>>
      BY <1>3, <2>1 DEF Register
    <3> QED
      BY <1>0, <2>0, <3>1, RespondMoves
  <2>2. CASE refusal = ""
    <3>1. /\ hs[c] = "authorised" /\ hs' = [hs EXCEPT ![c] = "registered"]
          /\ UNCHANGED <<resp, cmd, onWire>>
      BY <1>3, <2>2 DEF Register
    <3> QED
      BY <3>1, AdvanceMoves
  <2> QED
    BY <2>1, <2>2
<1> QED
  BY <1>1, <1>2, <1>3

\* The hand-over to the writer moves one handler and writes nothing.
LEMMA SubmitMoves ==
    ASSUME TypeOK, HandlersKnow, NEW c \in PNum, Submit(c)
    PROVE  HandlerMoves
<1> USE DEF HandlerState, Unwritten
<1>1. CASE Respond(c, unknown("DUPLICATE_COMMAND"))
  BY <1>1, ResponsesTyped, RespondMoves DEF Submit, RelayCode, unknown
<1>2. CASE Respond(c, notSent("LINK_WRITER_UNAVAILABLE"))
  BY <1>2, ResponsesTyped, RespondMoves DEF Submit, RelayCode
<1>3. CASE hs' = [hs EXCEPT ![c] = "enqueued"] /\ UNCHANGED resp
  BY <1>3, AdvanceMoves DEF Submit
<1> QED
  BY <1>1, <1>2, <1>3 DEF Submit

\* The writer moves one handler, and puts only that handler's P# on the wire.
LEMMA WriterMoves ==
    ASSUME TypeOK, HandlersKnow, NEW c \in PNum, NEW g, NEW rn,
           GuardRefuses(c, g, rn) \/ Write(c, g, rn) \/ WriteFails(c, g, rn) \/ WriterGone(c)
    PROVE  HandlerMoves
<1> USE DEF HandlerState, Unwritten
<1>0. hs[c] = "enqueued" /\ cmd[c] = c
  BY DEF GuardRefuses, Write, WriteFails, WriterGone, HandlersKnow
<1>1. CASE GuardRefuses(c, g, rn)
  <2>1. GuardCode(c, g, rn) \in RelayCode
    BY DEF GuardCode, RelayCode
  <2>2. notSent(GuardCode(c, g, rn)) \in Response
    BY <2>1, ResponsesTyped
  <2> QED
    BY <1>0, <1>1, <2>2, RespondMoves DEF GuardRefuses
<1>2. CASE Write(c, g, rn)
  BY <1>0, <1>2, RoomChargeConstants DEF Write, HandlerMoves, TypeOK, RelayTypeOK, HandlersKnow
<1>3. CASE WriteFails(c, g, rn)
  BY <1>0, <1>3, RoomChargeConstants
  DEF WriteFails, Respond, unknown, HandlerMoves, TypeOK, RelayTypeOK, HandlersKnow
<1>4. CASE WriterGone(c)
  BY <1>0, <1>4, ResponsesTyped, RespondMoves DEF WriterGone, RelayCode, unknown
<1> QED
  BY <1>1, <1>2, <1>3, <1>4

\* The end of Handle's wait moves one handler and never says NOT_TRANSMITTED.
LEMMA WaitMoves ==
    ASSUME TypeOK, HandlersKnow, NEW c \in PNum, TakeAnswer(c) \/ GiveUp(c)
    PROVE  HandlerMoves
<1>1. CASE TakeAnswer(c)
  <2>1. answer[c] \in PA
    BY <1>1, RoomChargeConstants DEF TakeAnswer, TypeOK, RelayTypeOK
  <2>2. answered(answer[c]) \in Response /\ answered(answer[c]).result # "NOT_TRANSMITTED"
    BY <2>1, ResponsesTyped DEF answered
  <2> QED
    BY <1>1, <2>2, RespondMoves DEF TakeAnswer
<1>2. CASE GiveUp(c)
  BY <1>2, ResponsesTyped, RespondMoves DEF GiveUp, RelayCode, unknown
<1> QED
  BY <1>1, <1>2

\* The link's cycle moves no handler; a stopped process ends them all unanswered.
LEMMA LinkActionMoves ==
    ASSUME TypeOK, HandlersKnow,
           LinkAction \/ (\E f : ResyncEnds(f)) \/ (\E n, as : DeliverPA(n, as))
    PROVE  HandlerMoves
<1>1. CASE RelayStops
  BY <1>1, RoomChargeConstants
  DEF RelayStops, HandlerMoves, HandlersKnow, TypeOK, RelayTypeOK, Unwritten, NoResponse
<1>2. CASE ~RelayStops
  BY <1>2, NoHandlerMoves
  DEF LinkAction, LinkUp, LinkDown, DetachEnds, WriterEnds, ResyncBegins, ResyncUnanswered,
      Observe, ResyncEnds, DeliverPA
<1> QED
  BY <1>1, <1>2

-----------------------------------------------------------------------------
(* The steps of Next, reduced to what the invariant depends on *)

core == <<outbox, stayOf, att, nextP, latest, review>>

\* Every step of pmsd keeps the relay's types and is a handler move.
LEMMA PmsdSteps ==
    ASSUME Inv, PmsdStep
    PROVE  /\ RelayTypeOK' /\ HandlerMoves
           /\ UNCHANGED <<ledgerVars, lane, processed, folio, pmsRoom>>
           /\ inbox' \in [Stay -> Room \cup {Away}]
           /\ pa' \in [PNum -> AnswerCode \cup {"none"}]
           /\ faults' \in 0 .. MaxFaults
<1>0. TypeOK /\ RelayTypeOK /\ HandlersKnow /\ Conn = PNum
  BY RoomChargeConstants DEF Inv, TypeOK
<1>1. \A n \in PNum : hs[n] # "idle" => cmd[n] \in PNum
  BY <1>0 DEF HandlersKnow
<1>2. ASSUME NEW n \in PNum, Asks(n) \/ AuthoriserUnavailable(n)
      PROVE  RelayTypeOK' /\ HandlerMoves
  <2>1. CommandVerdict(n) \in RefusalCode \cup {"AUTHORISED"}
    BY DEF CommandVerdict, RefusalCode
  <2>2. "AUTHORISATION_UNAVAILABLE" \in RefusalCode \cup {"AUTHORISED"}
    BY DEF RefusalCode
  <2> QED
    BY <1>0, <1>2, <2>1, <2>2, HandlerTyped, HandleMoves DEF Asks, AuthoriserUnavailable
<1>3. ASSUME NEW n \in PNum, RelayStep(n)
      PROVE  RelayTypeOK' /\ HandlerMoves
  <2>1. CASE CheckCarried(n) \/ Register(n)
    BY <1>0, <2>1, HandlerTyped, HandleMoves
  <2>2. CASE Submit(n)
    <3>1. cmd[n] \in PNum
      BY <1>1, <2>2 DEF Submit
    <3> QED
      BY <1>0, <2>2, <3>1, SubmitTyped, SubmitMoves
  <2>3. CASE WriterGone(n)
    <3>1. cmd[n] \in PNum
      BY <1>1, <2>3 DEF WriterGone
    <3> QED
      BY <1>0, <2>3, <3>1, WriterTyped, WriterMoves
  <2>4. CASE TakeAnswer(n) \/ GiveUp(n)
    BY <1>0, <2>4, WaitTyped, WaitMoves
  <2> QED
    BY <1>3, <2>1, <2>2, <2>3, <2>4 DEF RelayStep
<1>4. ASSUME NEW n \in PNum, WriterStep(n) \/ WriterBreaks(n)
      PROVE  RelayTypeOK' /\ HandlerMoves
  <2> DEFINE g == stayOf[att[n].posting]
  <2>1. GuardRefuses(n, g, att[n].rn) \/ Write(n, g, att[n].rn) \/ WriteFails(n, g, att[n].rn)
    BY <1>4 DEF WriterStep, WriterBreaks
  <2>2. cmd[n] \in PNum
    BY <1>1, <2>1 DEF GuardRefuses, Write, WriteFails
  <2> QED
    BY <1>0, <2>1, <2>2, WriterTyped, WriterMoves
<1>5. ASSUME NEW n \in PNum, PaArrives(n)
      PROVE  RelayTypeOK' /\ HandlerMoves
  <2>1. pa[n] \in AnswerCode
    BY <1>0, <1>5 DEF PaArrives, TypeOK
  <2> QED
    BY <1>0, <1>5, <2>1, DeliverTyped, LinkActionMoves DEF PaArrives
<1>6. ASSUME LinkCycles \/ LinkStep \/ LinkLost
      PROVE  RelayTypeOK' /\ HandlerMoves
  <2>1. LinkAction
    BY <1>6 DEF LinkCycles, LinkStep, LinkLost, LinkAction
  <2> QED
    BY <1>0, <2>1, LinkTyped, LinkActionMoves
<1>7. ASSUME SweepEnds
      PROVE  RelayTypeOK' /\ HandlerMoves
  <2> DEFINE D == {t \in Stay : pmsRoom[t] # Away}
             f == [s \in D |-> pmsRoom[s]]
  <2>1. D \in SUBSET Stay /\ f \in [D -> Room \cup {Away}]
    BY <1>0 DEF TypeOK
  <2>2. ResyncEnds(f)
    BY <1>7 DEF SweepEnds
  <2> HIDE DEF D, f
  <2> QED
    BY <1>0, <2>1, <2>2, SweepTyped, LinkActionMoves
<1>8. RelayTypeOK' /\ HandlerMoves
  BY <1>2, <1>3, <1>4, <1>5, <1>6, <1>7 DEF PmsdStep
<1>9. faults' \in 0 .. MaxFaults
  BY <1>0, RoomChargeConstants
  DEF TypeOK, PmsdStep, Asks, AuthoriserUnavailable, RelayStep, WriterStep, WriterBreaks,
      PaArrives, LinkCycles, SweepEnds, LinkStep, LinkLost, Calm, Disturb
<1>10. /\ UNCHANGED <<ledgerVars, lane, processed, folio, pmsRoom>>
       /\ inbox' \in [Stay -> Room \cup {Away}]
       /\ pa' \in [PNum -> AnswerCode \cup {"none"}]
  BY <1>0
  DEF TypeOK, PmsdStep, Asks, AuthoriserUnavailable, RelayStep, WriterStep, WriterBreaks,
      PaArrives, LinkCycles, SweepEnds, LinkStep, LinkLost, envVars
<1> QED
  BY <1>8, <1>9, <1>10

\* The parts of the invariant besides the types.
Parts ==
    /\ ChargesHaveStays /\ AttemptsAllocated /\ LatestIsLast /\ HandlersKnow /\ LaneKnows
    /\ NotSentIsOver /\ ReviewOnce /\ AuthorisedInTurn

\* pmsd's steps keep them.
LEMMA HandlerMovesKeepParts ==
    ASSUME Inv, HandlerMoves, UNCHANGED <<core, lane>>
    PROVE  Parts'
<1>1. ChargesHaveStays' /\ AttemptsAllocated' /\ LatestIsLast' /\ ReviewOnce' /\ AuthorisedInTurn'
  BY DEF Inv, core, ChargesHaveStays, AttemptsAllocated, LatestIsLast, ReviewOnce, AuthorisedInTurn
<1>2. HandlersKnow'
  BY RoomChargeConstants DEF Inv, TypeOK, RelayTypeOK, core, HandlerMoves, HandlersKnow, Unwritten
<1>3. LaneKnows'
  BY DEF Inv, core, HandlerMoves, LaneKnows, HandlersKnow, Unwritten
<1>4. NotSentIsOver'
  BY DEF Inv, core, HandlerMoves, NotSentIsOver, Unwritten
<1> QED
  BY <1>1, <1>2, <1>3, <1>4 DEF Parts

\* So does a step that touches only the lane's bookkeeping of a known attempt.
LEMMA LaneMovesKeepParts ==
    ASSUME Inv, UNCHANGED <<core, hs, cmd, resp, onWire>>,
           \/ lane' = IdleLane
           \/ /\ lane'.pc = "outcome" /\ lane'.p \in Posting
           \/ /\ lane.pc \in {"dial", "wait"} /\ lane'.pc = "settle"
              /\ lane'.p = lane.p /\ lane'.n = lane.n
              /\ lane'.result = "NOT_TRANSMITTED" =>
                   lane.n \notin onWire /\ hs[lane.n] \in {"idle", "done"}
    PROVE  Parts'
<1>1. /\ ChargesHaveStays' /\ AttemptsAllocated' /\ LatestIsLast' /\ HandlersKnow'
      /\ ReviewOnce' /\ AuthorisedInTurn'
  BY DEF Inv, core, ChargesHaveStays, AttemptsAllocated, LatestIsLast, HandlersKnow, ReviewOnce,
         AuthorisedInTurn
<1>2. LaneKnows'
  BY DEF Inv, core, LaneKnows, IdleLane
<1>3. NotSentIsOver'
  BY DEF Inv, core, NotSentIsOver, IdleLane
<1> QED
  BY <1>1, <1>2, <1>3 DEF Parts

\* A step that only moves the outbox rows of existing charges.
LEMMA QueueMovesKeepParts ==
    ASSUME Inv, UNCHANGED <<stayOf, att, nextP, latest, review, lane, hs, cmd, resp, onWire>>,
           \A p \in Posting : outbox'[p] = "NONE" <=> outbox[p] = "NONE"
    PROVE  Parts'
<1>1. ChargesHaveStays'
  BY DEF Inv, ChargesHaveStays
<1>2. AttemptsAllocated'
  BY DEF Inv, AttemptsAllocated
<1>3. /\ LatestIsLast' /\ HandlersKnow' /\ LaneKnows' /\ NotSentIsOver' /\ ReviewOnce'
      /\ AuthorisedInTurn'
  BY DEF Inv, LatestIsLast, HandlersKnow, LaneKnows, NotSentIsOver, ReviewOnce, AuthorisedInTurn
<1> QED
  BY <1>1, <1>2, <1>3 DEF Parts

-----------------------------------------------------------------------------
(* The steps that create attempts and conclude them *)

\* A P# names an attempt of a charge exactly when it has been handed out, and the
\* latest one of a charge is such a P#.
LEMMA AllocationFacts ==
    ASSUME Inv
    PROVE  /\ \A n \in PNum : n \in Nat /\ n # 0
           /\ nextP \in Nat
           /\ \A n \in PNum : ~(n < nextP) => att[n] = NoAttempt
           /\ \A n \in PNum : att[n].posting \in Posting <=> n < nextP
           /\ \A n \in PNum : n < nextP => att[n].outcome # "NONE" /\ outbox[att[n].posting] # "NONE"
           /\ \A q \in Posting : latest[q] \in Nat
           /\ \A q \in Posting : latest[q] # 0 =>
                latest[q] \in PNum /\ att[latest[q]].posting = q /\ latest[q] < nextP
           /\ NoAttempt.posting = 0 /\ 0 \notin Posting
<1>1. /\ \A n \in PNum : n \in Nat /\ n # 0
      /\ nextP \in Nat
      /\ NoAttempt.posting = 0 /\ 0 \notin Posting
  BY BaseConstants, LedgerConstants DEF Inv, TypeOK, LedgerTypeOK, PNum, NoAttempt, Posting
<1>2. /\ \A n \in PNum : ~(n < nextP) => att[n] = NoAttempt
      /\ \A n \in PNum : n < nextP => /\ att[n].posting \in Posting /\ att[n].outcome # "NONE"
                                      /\ outbox[att[n].posting] # "NONE"
  BY DEF Inv, AttemptsAllocated
<1>3. \A n \in PNum : att[n].posting \in Posting <=> n < nextP
  BY <1>1, <1>2
<1>4. \A q \in Posting : latest[q] \in 0 .. MaxAttempt
  BY DEF Inv, TypeOK, LedgerTypeOK
<1>5. \A q \in Posting : latest[q] # 0 => latest[q] \in PNum
  BY <1>4, BaseConstants DEF PNum
<1>6. \A q \in Posting : latest[q] # 0 => att[latest[q]].posting = q
  BY DEF Inv, LatestIsLast
<1> QED
  BY <1>1, <1>2, <1>3, <1>4, <1>5, <1>6, BaseConstants

\* RunOnce's transaction: the new attempt is the greatest P#, it starts SENDING, and
\* if an earlier one may have been sent, it has consumed the authorization or follows
\* one that did.
LEMMA BeginKeepsParts ==
    ASSUME Inv, NEW p \in Posting, LaneBegins(p)
    PROVE  Parts'
<1> USE RoomChargeConstants
<1>0. LedgerTypeOK /\ nextP \in PNum /\ outbox[p] = "QUEUED" /\ RetryGate(p)
  BY DEF Inv, TypeOK, LaneBegins, BeginAttempt, Claimable
<1>a. /\ \A n \in PNum : n \in Nat /\ n # 0
      /\ nextP \in Nat
      /\ \A n \in PNum : ~(n < nextP) => att[n] = NoAttempt
      /\ \A n \in PNum : att[n].posting \in Posting <=> n < nextP
      /\ \A n \in PNum : n < nextP => att[n].outcome # "NONE" /\ outbox[att[n].posting] # "NONE"
      /\ \A q \in Posting : latest[q] \in Nat
      /\ \A q \in Posting : latest[q] # 0 =>
           latest[q] \in PNum /\ att[latest[q]].posting = q /\ latest[q] < nextP
      /\ NoAttempt.posting = 0 /\ 0 \notin Posting
  BY AllocationFacts
<1>1. /\ \A n \in PNum : n # nextP => att'[n] = att[n]
      /\ att'[nextP].posting = p /\ att'[nextP].outcome = "SENDING"
      /\ nextP' = nextP + 1
  BY <1>0 DEF LaneBegins, BeginAttempt, LedgerTypeOK
<1>b. /\ \A q \in Posting : q # p => latest'[q] = latest[q] /\ outbox'[q] = outbox[q]
      /\ latest'[p] = nextP /\ outbox'[p] = "IN_FLIGHT" /\ stayOf' = stayOf
  BY <1>0 DEF LaneBegins, BeginAttempt, LedgerTypeOK
<1>2. UNCHANGED <<hs, cmd, resp, onWire>> /\ lane' = [IdleLane EXCEPT !.pc = "dial", !.p = p, !.n = nextP]
  BY DEF LaneBegins, relayVars
<1>3. att[nextP] = NoAttempt
  BY <1>0, <1>a
<1>4. ChargesHaveStays'
  BY <1>0, <1>b DEF Inv, ChargesHaveStays
<1>5. AttemptsAllocated'
  <2> SUFFICES ASSUME NEW n \in PNum
               PROVE  IF n < nextP + 1
                      THEN /\ att'[n].posting \in Posting
                           /\ outbox'[att'[n].posting] # "NONE"
                           /\ att'[n].outcome # "NONE"
                      ELSE att'[n] = NoAttempt
    BY <1>1 DEF AttemptsAllocated
  <2>1. CASE n = nextP
    BY <1>1, <1>b, <1>a, <2>1
  <2>2. CASE n # nextP
    BY <1>1, <1>b, <1>a, <2>2
  <2> QED
    BY <2>1, <2>2
<1>6. LatestIsLast'
  <2>1. \A n \in PNum : att'[n].posting \in Posting => n <= latest'[att'[n].posting]
    <3> SUFFICES ASSUME NEW n \in PNum, att'[n].posting \in Posting
                 PROVE  n <= latest'[att'[n].posting]
      OBVIOUS
    <3>1. CASE n = nextP
      BY <1>1, <1>b, <1>a, <3>1
    <3>2. CASE n # nextP
      <4>1. att[n].posting \in Posting /\ n < nextP /\ n <= latest[att[n].posting]
        BY <1>1, <1>a, <3>2 DEF Inv, LatestIsLast
      <4> QED
        BY <1>1, <1>b, <1>a, <3>2, <4>1
    <3> QED
      BY <3>1, <3>2
  <2>2. \A q \in Posting : latest'[q] # 0 => att'[latest'[q]].posting = q
    BY <1>1, <1>b, <1>a
  <2> QED
    BY <2>1, <2>2 DEF LatestIsLast
<1>7. HandlersKnow'
  BY <1>1, <1>2, <1>a DEF Inv, HandlersKnow
<1>8. LaneKnows'
  <2>1. hs[nextP] = "idle"
    BY <1>0, <1>a DEF Inv, HandlersKnow
  <2> QED
    BY <1>0, <1>1, <1>2, <1>a, <2>1 DEF LaneKnows, IdleLane
<1>9. NotSentIsOver'
  BY <1>0, <1>1, <1>2, <1>3 DEF Inv, NotSentIsOver, LaneBegins, IdleLane
<1>10. /\ \A q \in Posting : q # p => review'[q] = review[q]
       /\ review[p].auth => /\ review'[p].auth = FALSE /\ review'[p].used = nextP
                            /\ review'[p].term = review[p].term
       /\ ~review[p].auth => review'[p] = review[p]
  BY DEF Inv, TypeOK, LedgerTypeOK, LaneBegins, BeginAttempt, Review
<1>11. ReviewOnce'
  BY <1>10 DEF Inv, ReviewOnce
<1>12. AuthorisedInTurn'
  <2> SUFFICES ASSUME NEW m \in PNum, NEW n \in PNum,
                      att'[m].posting \in Posting, att'[m].posting = att'[n].posting,
                      m < n, att'[m].outcome # "NOT_SENT"
               PROVE  m < review'[att'[m].posting].used /\ review'[att'[m].posting].used <= n
    BY DEF AuthorisedInTurn
  <2>1. n <= nextP /\ m # nextP /\ m < nextP /\ att'[m] = att[m]
    <3>1. n = nextP \/ n < nextP
      BY <1>1, <1>a
    <3> QED
      BY <1>1, <1>a, <3>1
  <2>2. CASE n # nextP
    <3>1. att'[n] = att[n]
      BY <1>1, <2>2
    <3>2. m < review[att[m].posting].used /\ review[att[m].posting].used <= n
      BY <2>1, <3>1 DEF Inv, AuthorisedInTurn
    <3>3. ~review[att[m].posting].auth
      <4>1. review[att[m].posting].used # 0
        BY <1>a, <3>2
      <4> QED
        BY <2>1, <4>1 DEF Inv, ReviewOnce
    <3>4. review'[att[m].posting] = review[att[m].posting]
      BY <1>10, <2>1, <3>3
    <3> QED
      BY <2>1, <3>2, <3>4
  <2>3. CASE n = nextP
    <3>1. att[m].posting = p
      BY <1>1, <2>1, <2>3
    <3>2. CASE review[p].auth
      BY <1>a, <1>10, <2>1, <2>3, <3>1, <3>2
    <3>3. CASE ~review[p].auth
      <4>1. m <= latest[p]
        BY <3>1 DEF Inv, LatestIsLast
      <4>2. latest[p] \in PNum /\ att[latest[p]].posting = p /\ latest[p] < nextP
        BY <1>a, <4>1
      <4>3. att[latest[p]].outcome = "NOT_SENT"
        BY <1>0, <1>a, <3>3, <4>2 DEF RetryGate, LastOutcome
      <4>4. m < latest[p]
        BY <1>a, <2>1, <4>1, <4>2, <4>3
      <4>5. m < review[p].used /\ review[p].used <= latest[p]
        BY <2>1, <3>1, <4>2, <4>4 DEF Inv, AuthorisedInTurn
      <4>6. review'[p] = review[p] /\ review[p].used \in Int
        BY <1>0, <1>10, <3>3, BaseConstants DEF LedgerTypeOK, Review
      <4> QED
        BY <1>a, <2>1, <2>3, <3>1, <4>2, <4>5, <4>6
    <3> QED
      BY <3>2, <3>3
  <2> QED
    BY <2>2, <2>3
<1> QED
  BY <1>4, <1>5, <1>6, <1>7, <1>8, <1>9, <1>11, <1>12 DEF Parts

\* The hand-off: the attempt's handler starts, and was idle before.
LEMMA HandsOffKeepsParts ==
    ASSUME Inv, HandsOff
    PROVE  Parts'
<1>0. /\ lane.n \in PNum /\ lane.n < nextP /\ lane.p \in Posting
      /\ hs[lane.n] = "idle" /\ lane.n \notin onWire
  BY DEF Inv, HandsOff, LaneKnows, HandlersKnow, Receive, Unwritten
<1>1. /\ hs' = [hs EXCEPT ![lane.n] = "received"] /\ cmd' = [cmd EXCEPT ![lane.n] = lane.n]
      /\ UNCHANGED <<resp, onWire>>
      /\ lane' = [lane EXCEPT !.pc = "wait"]
      /\ UNCHANGED core
  BY DEF HandsOff, Receive, ledgerVars, core
<1>2. ChargesHaveStays' /\ AttemptsAllocated' /\ LatestIsLast' /\ ReviewOnce' /\ AuthorisedInTurn'
  BY <1>1 DEF Inv, core, ChargesHaveStays, AttemptsAllocated, LatestIsLast, ReviewOnce, AuthorisedInTurn
<1>3. HandlersKnow'
  BY <1>0, <1>1, RoomChargeConstants
  DEF Inv, core, TypeOK, RelayTypeOK, HandlersKnow, Unwritten
<1>4. LaneKnows'
  BY <1>0, <1>1 DEF core, LaneKnows, Inv, TypeOK, Lane
<1>5. NotSentIsOver'
  <2>1. att[lane.n].outcome # "NOT_SENT"
    BY <1>0 DEF Inv, NotSentIsOver, HandsOff
  <2> QED
    BY <1>0, <1>1, <2>1, RoomChargeConstants DEF core, Inv, TypeOK, RelayTypeOK, Lane, NotSentIsOver
<1> QED
  BY <1>2, <1>3, <1>4, <1>5 DEF Parts

\* Concluding one SENDING attempt: NOT_SENT is recorded only of a P# that is not on the
\* wire and whose handler is over.
LEMMA ConcludeKeepsParts ==
    ASSUME Inv, NEW k \in PNum,
           att[k].outcome = "SENDING", att'[k].posting = att[k].posting,
           att'[k].outcome # "NONE", att'[k].outcome # "SENDING",
           att'[k].outcome = "NOT_SENT" => k \notin onWire /\ hs[k] \in {"idle", "done"},
           \A n \in PNum : n # k => att'[n] = att[n],
           \A p \in Posting : outbox'[p] = "NONE" <=> outbox[p] = "NONE",
           \/ lane' = IdleLane
           \/ lane'.pc = "outcome" /\ lane'.p \in Posting,
           UNCHANGED <<stayOf, nextP, latest, review, hs, cmd, resp, onWire>>
    PROVE  Parts'
<1>0. k < nextP
  BY DEF Inv, AttemptsAllocated, NoAttempt
<1>1. \A n \in PNum : att'[n].posting = att[n].posting
  OBVIOUS
<1>2. ChargesHaveStays' /\ HandlersKnow' /\ ReviewOnce'
  BY DEF Inv, ChargesHaveStays, HandlersKnow, ReviewOnce
<1>3. AttemptsAllocated'
  <2> SUFFICES ASSUME NEW n \in PNum
               PROVE  IF n < nextP
                      THEN /\ att'[n].posting \in Posting
                           /\ outbox'[att'[n].posting] # "NONE"
                           /\ att'[n].outcome # "NONE"
                      ELSE att'[n] = NoAttempt
    BY DEF AttemptsAllocated
  <2>1. IF n < nextP
        THEN att[n].posting \in Posting /\ outbox[att[n].posting] # "NONE" /\ att[n].outcome # "NONE"
        ELSE att[n] = NoAttempt
    BY DEF Inv, AttemptsAllocated
  <2> QED
    BY <1>0, <1>1, <2>1
<1>4. LatestIsLast'
  <2>1. \A q \in Posting : latest[q] # 0 => latest[q] \in PNum /\ att[latest[q]].posting = q
    BY AllocationFacts
  <2> QED
    BY <1>1, <2>1 DEF Inv, LatestIsLast
<1>5. LaneKnows'
  BY DEF LaneKnows, IdleLane
<1>6. NotSentIsOver'
  <2>1. lane'.pc # "dial"
    BY DEF IdleLane
  <2> QED
    BY <2>1 DEF Inv, NotSentIsOver
<1>7. AuthorisedInTurn'
  <2> SUFFICES ASSUME NEW m \in PNum, NEW n \in PNum,
                      att'[m].posting \in Posting, att'[m].posting = att'[n].posting,
                      m < n, att'[m].outcome # "NOT_SENT"
               PROVE  m < review[att'[m].posting].used /\ review[att'[m].posting].used <= n
    BY DEF AuthorisedInTurn
  <2>1. att[m].outcome # "NOT_SENT"
    OBVIOUS
  <2> QED
    BY <1>1, <2>1 DEF Inv, AuthorisedInTurn
<1> QED
  BY <1>2, <1>3, <1>4, <1>5, <1>6, <1>7 DEF Parts

\* settle's transaction.
LEMMA SettlesKeepsParts ==
    ASSUME Inv, Settles
    PROVE  Parts'
<1> DEFINE k == lane.n
           o == SettleOutcome(lane.result, lane.as)
           q == att[k].posting
<1>0. /\ lane.pc = "settle" /\ k \in PNum /\ att[k].outcome = "SENDING" /\ lane.p \in Posting
      /\ att[k] \in Attempt /\ LedgerTypeOK
  BY DEF Inv, TypeOK, LedgerTypeOK, LaneKnows, Settles, SettleAttempt
<1>1. q \in Posting /\ outbox[q] # "NONE"
  BY <1>0, AllocationFacts DEF NoAttempt
<1>2. o \in {"ACKED", "NOT_SENT", "UNKNOWN"} /\ (o = "NOT_SENT" => lane.result = "NOT_TRANSMITTED")
  BY DEF SettleOutcome
<1>3. /\ att'[k].posting = att[k].posting /\ att'[k].outcome = o
      /\ \A n \in PNum : n # k => att'[n] = att[n]
  BY <1>0 DEF Settles, SettleAttempt, LedgerTypeOK, Attempt
<1>4. \A p \in Posting : outbox'[p] = "NONE" <=> outbox[p] = "NONE"
  BY <1>0, <1>1 DEF Settles, SettleAttempt, LedgerTypeOK
<1>5. /\ lane' = IdleLane \/ (lane'.pc = "outcome" /\ lane'.p \in Posting)
      /\ UNCHANGED <<stayOf, nextP, latest, review, hs, cmd, resp, onWire>>
  BY <1>0 DEF Settles, SettleAttempt, IdleLane, relayVars
<1>6. o = "NOT_SENT" => k \notin onWire /\ hs[k] \in {"idle", "done"}
  BY <1>0, <1>2 DEF Inv, LaneKnows
<1> HIDE DEF o, q, k
<1> QED
  BY <1>0, <1>2, <1>3, <1>4, <1>5, <1>6, ConcludeKeepsParts

\* RecoverOrphanedAttempts' transaction.
LEMMA RecoversKeepsParts ==
    ASSUME Inv, NEW k \in PNum, RecoversOrphan(k)
    PROVE  Parts'
<1> DEFINE q == att[k].posting
<1>0. att[k].outcome = "SENDING" /\ att[k] \in Attempt /\ LedgerTypeOK
  BY DEF Inv, TypeOK, LedgerTypeOK, RecoversOrphan, ConcludeOrphan
<1>1. q \in Posting /\ outbox[q] # "NONE"
  BY <1>0, AllocationFacts DEF NoAttempt
<1>3. /\ att'[k].posting = att[k].posting /\ att'[k].outcome = "UNKNOWN"
      /\ \A n \in PNum : n # k => att'[n] = att[n]
  BY <1>0 DEF RecoversOrphan, ConcludeOrphan, LedgerTypeOK, Attempt
<1>4. \A p \in Posting : outbox'[p] = "NONE" <=> outbox[p] = "NONE"
  BY <1>0, <1>1 DEF RecoversOrphan, ConcludeOrphan, LedgerTypeOK
<1>5. /\ lane'.pc = "outcome" /\ lane'.p \in Posting
      /\ UNCHANGED <<stayOf, nextP, latest, review, hs, cmd, resp, onWire>>
  BY <1>1 DEF RecoversOrphan, ConcludeOrphan, IdleLane, relayVars
<1> QED
  BY <1>0, <1>3, <1>4, <1>5, ConcludeKeepsParts

\* A purchase: a new row, nothing sent.
LEMMA BuyKeepsParts ==
    ASSUME Inv, NEW p \in Posting, NEW s \in Stay, GuestBuys(p, s)
    PROVE  Parts'
<1>1. /\ LedgerTypeOK /\ outbox' = [outbox EXCEPT ![p] = "QUEUED"]
      /\ stayOf' = [stayOf EXCEPT ![p] = s]
      /\ UNCHANGED <<att, nextP, latest, review, lane, hs, cmd, resp, onWire>>
  BY DEF Inv, TypeOK, GuestBuys, CreateRoomCharge, attemptVars, relayVars
<1>2. ChargesHaveStays'
  BY <1>1 DEF Inv, ChargesHaveStays, LedgerTypeOK
<1>3. AttemptsAllocated'
  BY <1>1 DEF Inv, AttemptsAllocated, LedgerTypeOK
<1>4. /\ LatestIsLast' /\ HandlersKnow' /\ LaneKnows' /\ NotSentIsOver' /\ ReviewOnce'
      /\ AuthorisedInTurn'
  BY <1>1 DEF Inv, LatestIsLast, HandlersKnow, LaneKnows, NotSentIsOver, ReviewOnce, AuthorisedInTurn
<1> QED
  BY <1>2, <1>3, <1>4 DEF Parts

\* A review decision: it authorises at most once, since a second one is refused.
LEMMA ReviewsKeepsParts ==
    ASSUME Inv, NEW p \in Posting, NEW a \in TerminalAction, Reviews(p, a)
    PROVE  Parts'
<1>0. LedgerTypeOK /\ review[p].term = "none" /\ review[p] \in Review
  BY DEF Inv, TypeOK, LedgerTypeOK, Reviews, DecideReview, ReviewAdmits
<1>1. /\ \A q \in Posting : q # p => review'[q] = review[q]
      /\ review'[p].used = review[p].used /\ review'[p].term = a
      /\ a # "none"
  BY <1>0 DEF Reviews, DecideReview, LedgerTypeOK, Review, TerminalAction
<1>2. \A q \in Posting : outbox'[q] = "NONE" <=> outbox[q] = "NONE"
  BY <1>0 DEF Reviews, DecideReview, LedgerTypeOK, TerminalAction
<1>3. UNCHANGED <<stayOf, att, nextP, latest, lane, hs, cmd, resp, onWire>>
  BY DEF Reviews, DecideReview, attemptVars, relayVars
<1>4. ChargesHaveStays'
  BY <1>2, <1>3 DEF Inv, ChargesHaveStays
<1>5. AttemptsAllocated'
  BY <1>2, <1>3 DEF Inv, AttemptsAllocated
<1>6. LatestIsLast' /\ HandlersKnow' /\ LaneKnows' /\ NotSentIsOver'
  BY <1>3 DEF Inv, LatestIsLast, HandlersKnow, LaneKnows, NotSentIsOver
<1>7. ReviewOnce'
  BY <1>0, <1>1 DEF Inv, ReviewOnce
<1>8. AuthorisedInTurn'
  BY <1>1, <1>3 DEF Inv, AuthorisedInTurn
<1> QED
  BY <1>4, <1>5, <1>6, <1>7, <1>8 DEF Parts

-----------------------------------------------------------------------------
(* One lemma per process *)

\* A step of the lane keeps the types.
LEMMA LaneTyped ==
    ASSUME Inv, LaneStep
    PROVE  TypeOK'
<1>0. TypeOK /\ LedgerTypeOK /\ RelayTypeOK /\ ChargesHaveStays /\ Conn = PNum /\ lane \in Lane
  BY RoomChargeConstants DEF Inv, TypeOK
<1>1. UNCHANGED envVars
  BY DEF LaneStep, LaneBegins, LaneRefuses, DialFails, HandsOff, GetsResponse,
      LosesConnection, ResponseLost, Settles, FollowsOutcome, WorkerStops, RecoversOrphan,
      CatchesUp
<1>2. faults' \in 0 .. MaxFaults
  <2>1. Calm \/ Disturb
    BY DEF LaneStep, LaneBegins, LaneRefuses, DialFails, HandsOff, GetsResponse, LosesConnection,
        ResponseLost, Settles, FollowsOutcome, WorkerStops, RecoversOrphan, CatchesUp
  <2> QED
    BY <1>0, <2>1, RoomChargeConstants DEF TypeOK, Calm, Disturb
<1>3. RelayTypeOK'
  <2>1. CASE HandsOff
    <3>1. lane.n \in PNum
      BY <2>1 DEF HandsOff, Inv, LaneKnows
    <3> QED
      BY <1>0, <2>1, <3>1, ReceiveTyped DEF HandsOff
  <2>2. CASE ~HandsOff
    <3>1. UNCHANGED relayVars
      BY <2>2 DEF LaneStep, LaneBegins, LaneRefuses, DialFails, GetsResponse, LosesConnection,
          ResponseLost, Settles, FollowsOutcome, WorkerStops, RecoversOrphan, CatchesUp
    <3> QED
      BY <1>0, <3>1 DEF RelayTypeOK, relayVars
  <2> QED
    BY <2>1, <2>2
<1>4. LedgerTypeOK'
  <2>1. ASSUME NEW p \in Posting, LaneBegins(p) PROVE LedgerTypeOK'
    BY <1>0, <2>1, BeginTyped DEF LaneBegins
  <2>2. ASSUME NEW p \in Posting, LaneRefuses(p) PROVE LedgerTypeOK'
    BY <1>0, <2>2, RefuseTyped DEF LaneRefuses
  <2>3. CASE Settles
    <3>1. /\ lane.n \in PNum /\ lane.result \in Result \cup {"none"}
          /\ lane.as \in AnswerCode \cup {"none"}
      BY <1>0, <2>3 DEF Settles, Inv, LaneKnows, Lane
    <3> QED
      BY <1>0, <2>3, <3>1, SettleTyped DEF Settles
  <2>4. CASE FollowsOutcome
    <3>1. lane.p \in Posting
      BY <2>4 DEF FollowsOutcome, Inv, LaneKnows
    <3> QED
      BY <1>0, <2>4, <3>1, FollowTyped DEF FollowsOutcome
  <2>5. ASSUME NEW n \in PNum, RecoversOrphan(n) PROVE LedgerTypeOK'
    BY <1>0, <2>5, OrphanTyped DEF RecoversOrphan
  <2>6. ASSUME UNCHANGED ledgerVars PROVE LedgerTypeOK'
    BY <1>0, <2>6 DEF LedgerTypeOK, ledgerVars
  <2> QED
    BY <2>1, <2>2, <2>3, <2>4, <2>5, <2>6
    DEF LaneStep, DialFails, HandsOff, GetsResponse, LosesConnection, ResponseLost, WorkerStops,
        CatchesUp
<1>5. lane' \in Lane
  <2> USE <1>0 DEF Lane, LaneState, IdleLane
  <2>1. IdleLane \in Lane /\ \A p \in Posting : [IdleLane EXCEPT !.pc = "outcome", !.p = p] \in Lane
    OBVIOUS
  <2>2. ASSUME NEW p \in Posting, LaneBegins(p) PROVE lane' \in Lane
    <3>1. nextP \in PNum
      BY <2>2 DEF LaneBegins, BeginAttempt
    <3> QED
      BY <2>2, <3>1 DEF LaneBegins
  <2>3. ASSUME NEW p \in Posting, LaneRefuses(p) PROVE lane' \in Lane
    BY <2>3 DEF LaneRefuses
  <2>4. ASSUME DialFails \/ HandsOff \/ LosesConnection \/ ResponseLost PROVE lane' \in Lane
    BY <2>4 DEF DialFails, HandsOff, LosesConnection, ResponseLost, Result
  <2>5. CASE GetsResponse
    <3>1. resp[lane.n] \in Response
      BY <2>5 DEF Inv, LaneKnows, GetsResponse, RelayTypeOK
    <3> QED
      BY <2>5, <3>1 DEF GetsResponse, Correlated, Response, PA, Result
  <2>6. CASE Settles
    <3>1. lane.p \in Posting
      BY <2>6 DEF Settles, Inv, LaneKnows
    <3> QED
      BY <2>1, <2>6, <3>1 DEF Settles
  <2>7. ASSUME FollowsOutcome \/ WorkerStops PROVE lane' \in Lane
    BY <2>1, <2>7 DEF FollowsOutcome, WorkerStops
  <2>8. ASSUME NEW n \in PNum, RecoversOrphan(n) PROVE lane' \in Lane
    <3>1. att[n].posting \in Posting
      BY <2>8, AllocationFacts DEF RecoversOrphan, ConcludeOrphan, NoAttempt
    <3> QED
      BY <2>1, <2>8, <3>1 DEF RecoversOrphan
  <2>9. ASSUME NEW p \in Posting, CatchesUp(p) PROVE lane' \in Lane
    BY <2>1, <2>9 DEF CatchesUp
  <2> QED
    BY <2>2, <2>3, <2>4, <2>5, <2>6, <2>7, <2>8, <2>9 DEF LaneStep
<1> QED
  BY <1>0, <1>1, <1>2, <1>3, <1>4, <1>5 DEF TypeOK, envVars

\* A step of the lane keeps the other parts.
LEMMA LaneKeepsParts ==
    ASSUME Inv, LaneStep
    PROVE  Parts'
<1>0. lane \in Lane /\ lane.pc \in LaneState
  BY DEF Inv, TypeOK, Lane
<1>1. ASSUME NEW p \in Posting, LaneBegins(p) PROVE Parts'
  BY <1>1, BeginKeepsParts
<1>2. ASSUME NEW p \in Posting, LaneRefuses(p) PROVE Parts'
  <2>1. \A q \in Posting : outbox'[q] = "NONE" <=> outbox[q] = "NONE"
    BY <1>2 DEF LaneRefuses, AbortBeforeSend, ReturnToReview, Decline, Claimable, Inv, TypeOK,
        LedgerTypeOK
  <2>2. UNCHANGED <<stayOf, att, nextP, latest, review, lane, hs, cmd, resp, onWire>>
    BY <1>2 DEF LaneRefuses, AbortBeforeSend, ReturnToReview, Decline, attemptVars, relayVars
  <2> QED
    BY <2>1, <2>2, QueueMovesKeepParts
<1>3. CASE DialFails
  <2>1. lane.n \in PNum /\ lane.n \notin onWire /\ hs[lane.n] \in {"idle", "done"}
    BY <1>3 DEF DialFails, Inv, LaneKnows, HandlersKnow, Unwritten
  <2> QED
    BY <1>0, <1>3, <2>1, LaneMovesKeepParts DEF DialFails, Lane, ledgerVars, relayVars, core
<1>4. CASE HandsOff
  BY <1>4, HandsOffKeepsParts
<1>5. CASE GetsResponse
  <2>1. lane.n \in PNum /\ hs[lane.n] = "done" /\ (resp[lane.n].result = "NOT_TRANSMITTED" => lane.n \notin onWire)
    BY <1>5 DEF GetsResponse, Inv, LaneKnows, HandlersKnow
  <2> QED
    BY <1>0, <1>5, <2>1, LaneMovesKeepParts DEF GetsResponse, Correlated, Lane, ledgerVars, relayVars, core
<1>6. ASSUME LosesConnection \/ ResponseLost PROVE Parts'
  BY <1>0, <1>6, LaneMovesKeepParts
  DEF LosesConnection, ResponseLost, Lane, ledgerVars, relayVars, core
<1>7. CASE Settles
  BY <1>7, SettlesKeepsParts
<1>8. CASE FollowsOutcome
  BY <1>8, LaneMovesKeepParts
  DEF FollowsOutcome, SettlementFollows, queueVars, attemptVars, relayVars, core
<1>9. CASE WorkerStops
  BY <1>9, LaneMovesKeepParts DEF WorkerStops, ledgerVars, relayVars, core
<1>10. ASSUME NEW n \in PNum, RecoversOrphan(n) PROVE Parts'
  BY <1>10, RecoversKeepsParts
<1>11. ASSUME NEW p \in Posting, CatchesUp(p) PROVE Parts'
  BY <1>11, LaneMovesKeepParts DEF CatchesUp, IdleLane, ledgerVars, relayVars, core
<1> QED
  BY <1>1, <1>2, <1>3, <1>4, <1>5, <1>6, <1>7, <1>8, <1>9, <1>10, <1>11 DEF LaneStep

\* A step of the PMS, the feed, guests or operators keeps the types and the parts.
LEMMA EnvKeepsInv ==
    ASSUME Inv, EnvStep
    PROVE  TypeOK' /\ Parts'
<1>0. TypeOK /\ LedgerTypeOK /\ RelayTypeOK /\ HandlersKnow /\ Conn = PNum
  BY RoomChargeConstants DEF Inv, TypeOK
<1>1. lane' = lane /\ faults' \in 0 .. MaxFaults
  <2>1. lane' = lane /\ (Calm \/ Disturb)
    BY DEF EnvStep, PmsSilent, PmsAnswers, FeedApplied, Blocks, GuestMoves, Requeues, GuestBuys,
        Reviews, Confirms, LifecycleSet, Retires, AxisChanges
  <2> QED
    BY <1>0, <2>1, RoomChargeConstants DEF TypeOK, Calm, Disturb
<1>2. ASSUME UNCHANGED <<core, lane, hs, cmd, resp, onWire>>
      PROVE  Parts'
  BY <1>2, QueueMovesKeepParts DEF core
<1>3. ASSUME UNCHANGED <<relayVars, envVars>>, LedgerTypeOK'
      PROVE  TypeOK'
  BY <1>0, <1>1, <1>3 DEF TypeOK, RelayTypeOK, relayVars, envVars
<1>4. ASSUME NEW n \in PNum, NEW as \in AnswerCode, PmsSilent(n) \/ PmsAnswers(n, as)
      PROVE  TypeOK' /\ Parts'
  <2>1. UNCHANGED <<ledgerVars, relayVars, lane, pmsRoom, inbox>>
    BY <1>4 DEF PmsSilent, PmsAnswers
  <2>2. /\ processed' \in SUBSET PNum /\ folio' \in SUBSET PNum
        /\ pa' \in [PNum -> AnswerCode \cup {"none"}]
    BY <1>0, <1>4 DEF PmsSilent, PmsAnswers, TypeOK
  <2>3. LedgerTypeOK' /\ RelayTypeOK'
    BY <1>0, <2>1 DEF LedgerTypeOK, ledgerVars, RelayTypeOK, relayVars
  <2>4. UNCHANGED <<core, lane, hs, cmd, resp, onWire>>
    BY <2>1 DEF ledgerVars, relayVars, core
  <2> QED
    BY <1>0, <1>1, <1>2, <2>1, <2>2, <2>3, <2>4 DEF TypeOK
<1>5. ASSUME NEW s \in Stay, NEW r \in Room \cup {Away}, GuestMoves(s, r)
      PROVE  TypeOK' /\ Parts'
  <2>1. UNCHANGED <<ledgerVars, lane, processed, folio, pa>>
    BY <1>5 DEF GuestMoves
  <2>2. pmsRoom' \in [Stay -> Room \cup {Away}] /\ inbox' \in [Stay -> Room \cup {Away}]
    BY <1>0, <1>5 DEF GuestMoves, TypeOK
  <2>3. RelayTypeOK' /\ UNCHANGED <<hs, cmd, resp, onWire>>
    <3>1. CASE Observe(s, r)
      BY <1>0, <3>1 DEF Observe, RelayTypeOK
    <3>2. CASE UNCHANGED relayVars
      BY <1>0, <3>2 DEF RelayTypeOK, relayVars
    <3> QED
      BY <1>5, <3>1, <3>2 DEF GuestMoves
  <2>4. LedgerTypeOK' /\ UNCHANGED core
    BY <1>0, <2>1 DEF LedgerTypeOK, ledgerVars, core
  <2> QED
    BY <1>0, <1>1, <1>2, <2>1, <2>2, <2>3, <2>4 DEF TypeOK
<1>6. ASSUME UNCHANGED <<relayVars, envVars>>, SiteStep
      PROVE  TypeOK' /\ Parts'
  <2>1. UNCHANGED core
    BY <1>6 DEF SiteStep, RecordConfirmation, AdminBlock, ApplyGuestRecord, SetLifecycle,
        Decommission, FreshnessChanges, PinnedConfigChanges, queueVars, attemptVars, core
  <2>2. UNCHANGED <<core, lane, hs, cmd, resp, onWire>>
    BY <1>1, <1>6, <2>1 DEF relayVars
  <2> QED
    BY <1>0, <1>2, <1>3, <1>6, <2>2, SiteTyped
<1>7. ASSUME NEW s \in Stay, FeedApplied(s) \/ Blocks(s)
      PROVE  TypeOK' /\ Parts'
  <2>1. inbox[s] \in Room \cup {Away}
    BY <1>0 DEF TypeOK
  <2> QED
    BY <1>6, <1>7, <2>1 DEF FeedApplied, Blocks, SiteStep
<1>8. ASSUME NEW p \in Posting, Requeues(p)
      PROVE  TypeOK' /\ Parts'
  <2>1. \A q \in Posting : outbox'[q] = "NONE" <=> outbox[q] = "NONE"
    BY <1>0, <1>8 DEF Requeues, RequeueParked, LedgerTypeOK
  <2>2. UNCHANGED <<stayOf, att, nextP, latest, review, lane, hs, cmd, resp, onWire>>
    BY <1>8 DEF Requeues, RequeueParked, attemptVars, relayVars
  <2> QED
    BY <1>0, <1>3, <1>8, <2>1, <2>2, QueueMovesKeepParts, RequeueTyped DEF Requeues
<1>9. ASSUME NEW p \in Posting, NEW s \in Stay, GuestBuys(p, s)
      PROVE  TypeOK' /\ Parts'
  BY <1>0, <1>3, <1>9, CreateTyped, BuyKeepsParts DEF GuestBuys
<1>10. ASSUME NEW p \in Posting, NEW a \in TerminalAction, Reviews(p, a)
       PROVE  TypeOK' /\ Parts'
  BY <1>0, <1>3, <1>10, ReviewTyped, ReviewsKeepsParts DEF Reviews
<1>11. ASSUME NEW as \in Confirmable, Confirms(as)
       PROVE  TypeOK' /\ Parts'
  BY <1>6, <1>11 DEF Confirms, SiteStep
<1>12. ASSUME NEW l \in Lifecycle, LifecycleSet(l)
       PROVE  TypeOK' /\ Parts'
  BY <1>6, <1>12 DEF LifecycleSet, SiteStep
<1>13. ASSUME Retires \/ AxisChanges
       PROVE  TypeOK' /\ Parts'
  BY <1>6, <1>13 DEF Retires, AxisChanges, SiteStep
<1>14. AnswerCode # {}
  BY BaseConstants
<1> QED
  BY <1>4, <1>5, <1>7, <1>8, <1>9, <1>10, <1>11, <1>12, <1>13, <1>14 DEF EnvStep

-----------------------------------------------------------------------------
(* The theorems *)

\* The invariant holds when scd and pmsd start on an empty ledger.
LEMMA InitInv ==
    Init => Inv
<1> SUFFICES ASSUME Init PROVE Inv
  OBVIOUS
<1>0. /\ \A n \in PNum : n \in Nat /\ n # 0 /\ n \in 1 .. MaxAttempt
      /\ Conn = PNum /\ 0 \notin Posting
  BY BaseConstants, LedgerConstants, RoomChargeConstants DEF PNum, Posting
<1>1. LedgerTypeOK
  <2>1. NoAttempt \in Attempt
    BY DEF NoAttempt, Attempt, Outcome
  <2>2. NoReview \in Review
    BY BaseConstants DEF NoReview, Review
  <2>3. pmsRoom \in [Stay -> Room \cup {Away}]
    BY DEF Init
  <2> QED
    BY <2>1, <2>2, <2>3, BaseConstants, LedgerConstants
    DEF Init, LedgerInit, LedgerTypeOK, OutboxState, SettlementState, Lifecycle
<1>2. RelayTypeOK
  <2>1. <<>> \in Seq(PNum)
    OBVIOUS
  <2> QED
    BY <2>1, ResponsesTyped DEF Init, RelayInit, RelayTypeOK, LinkState, HandlerState
<1>3. TypeOK
  <2>1. lane \in Lane
    BY DEF Init, IdleLane, Lane, LaneState
  <2>2. faults \in 0 .. MaxFaults
    BY RoomChargeConstants DEF Init
  <2>3. /\ pmsRoom \in [Stay -> Room \cup {Away}] /\ inbox \in [Stay -> Room \cup {Away}]
        /\ processed \in SUBSET PNum /\ folio \in SUBSET PNum
        /\ pa \in [PNum -> AnswerCode \cup {"none"}]
    BY DEF Init
  <2> QED
    BY <1>1, <1>2, <2>1, <2>2, <2>3 DEF TypeOK
<1>4. ChargesHaveStays /\ ReviewOnce
  BY DEF Init, LedgerInit, ChargesHaveStays, ReviewOnce, NoReview
<1>5. AttemptsAllocated
  BY <1>0 DEF Init, LedgerInit, AttemptsAllocated
<1>6. LatestIsLast /\ NotSentIsOver /\ AuthorisedInTurn
  BY <1>0 DEF Init, LedgerInit, LatestIsLast, NotSentIsOver, AuthorisedInTurn, NoAttempt
<1>7. HandlersKnow /\ LaneKnows
  BY <1>0 DEF Init, RelayInit, HandlersKnow, LaneKnows, IdleLane, NoResponse
<1> QED
  BY <1>3, <1>4, <1>5, <1>6, <1>7 DEF Inv

\* The invariant is inductive: no step of the lane, of pmsd or of the rest of the world
\* breaks it.
LEMMA NextInv ==
    ASSUME Inv, [Next]_vars
    PROVE  Inv'
<1>1. CASE LaneStep
  BY <1>1, LaneTyped, LaneKeepsParts DEF Inv, Parts
<1>2. CASE PmsdStep
  <2>1. /\ RelayTypeOK' /\ HandlerMoves
        /\ UNCHANGED <<ledgerVars, lane, processed, folio, pmsRoom>>
        /\ inbox' \in [Stay -> Room \cup {Away}]
        /\ pa' \in [PNum -> AnswerCode \cup {"none"}]
        /\ faults' \in 0 .. MaxFaults
    BY <1>2, PmsdSteps
  <2>2. LedgerTypeOK'
    BY <2>1 DEF Inv, TypeOK, LedgerTypeOK, ledgerVars
  <2>3. TypeOK'
    BY <2>1, <2>2 DEF Inv, TypeOK
  <2>4. UNCHANGED <<core, lane>>
    BY <2>1 DEF ledgerVars, core
  <2> QED
    BY <2>1, <2>3, <2>4, HandlerMovesKeepParts DEF Inv, Parts
<1>3. CASE EnvStep
  BY <1>3, EnvKeepsInv DEF Inv, Parts
<1>4. CASE UNCHANGED vars
  <2>1. TypeOK'
    BY <1>4 DEF Inv, TypeOK, LedgerTypeOK, RelayTypeOK, vars, ledgerVars, relayVars, envVars
  <2>2. UNCHANGED <<stayOf, att, nextP, latest, review, lane, hs, cmd, resp, onWire, outbox>>
    BY <1>4 DEF vars, ledgerVars, relayVars
  <2> QED
    BY <2>1, <2>2, QueueMovesKeepParts DEF Inv, Parts
<1> QED
  BY <1>1, <1>2, <1>3, <1>4 DEF Next

\* Ledger, lane, handlers and wire agree at every moment of every execution.
THEOREM Invariance == Spec => []Inv
BY InitInv, NextInv, PTL DEF Spec

\* The pipeline is type correct: every table row, handler and response stays within the
\* values the code can store.
THEOREM TypeCorrect == Spec => []TypeOK
<1>1. Inv => TypeOK
  BY DEF Inv
<1> QED
  BY <1>1, Invariance, PTL

\* An attempt settle() records as NOT_SENT, and the lane therefore retries on its own,
\* never passed the writer's guard: no crash, lost response, late write or link loss of
\* any number of attempts makes the record false, then or later.
THEOREM NotSentSound == Spec => []NotSentNeverOnWire
<1>1. Inv => NotSentNeverOnWire
  BY DEF Inv, NotSentIsOver, NotSentNeverOnWire
<1> QED
  BY <1>1, Invariance, PTL

\* Two transmissions of one charge always have the audited retry decision between them,
\* and there is no third: p4_attempt_retry_gate with the one-shot authorization enforces
\* it whatever the lane, recovery, the relay and the reviewers do.
THEOREM OneTransmission == Spec => []OneTransmissionPerAuthorisation
<1>1. ASSUME Inv
      PROVE  OneTransmissionPerAuthorisation
  <2> SUFFICES ASSUME NEW p \in Posting, NEW m \in onWire \cap AttemptsOf(p),
                      NEW n \in onWire \cap AttemptsOf(p), m < n
               PROVE  m < review[p].used /\ review[p].used <= n
    BY DEF OneTransmissionPerAuthorisation
  <2>1. m \in PNum /\ n \in PNum /\ att[m].posting = p /\ att[n].posting = p
    BY DEF AttemptsOf
  <2>2. att[m].outcome # "NOT_SENT"
    BY <1>1, <2>1 DEF Inv, NotSentIsOver
  <2> QED
    BY <1>1, <2>1, <2>2 DEF Inv, AuthorisedInTurn
<1> QED
  BY <1>1, Invariance, PTL

-----------------------------------------------------------------------------
(* The money: every step, reduced to what it does to the ledger *)

\* The steps that leave the ledger alone, and the transactions one by one.
StepKind ==
    \/ UNCHANGED ledgerVars
    \/ \E p \in Posting : LaneBegins(p) \/ LaneRefuses(p) \/ Requeues(p)
    \/ \E p \in Posting : \E s \in Stay : GuestBuys(p, s)
    \/ \E p \in Posting : \E a \in TerminalAction : Reviews(p, a)
    \/ Settles \/ FollowsOutcome
    \/ \E n \in PNum : RecoversOrphan(n)
    \/ SiteStep

\* Every step is of one of these kinds.
LEMMA StepKinds ==
    ASSUME Inv, [Next]_vars
    PROVE  StepKind
<1>1. CASE LaneStep
  BY <1>1 DEF StepKind, LaneStep, DialFails, HandsOff, GetsResponse, LosesConnection, ResponseLost,
     WorkerStops, CatchesUp
<1>2. CASE PmsdStep
  BY <1>2, PmsdSteps DEF StepKind
<1>3. CASE EnvStep
  <2>1. ASSUME NEW n \in PNum, PmsSilent(n) \/ \E as \in AnswerCode : PmsAnswers(n, as)
        PROVE  StepKind
    BY <2>1 DEF StepKind, PmsSilent, PmsAnswers
  <2>2. ASSUME NEW s \in Stay, FeedApplied(s) \/ Blocks(s) PROVE StepKind
    <3>1. inbox[s] \in Room \cup {Away}
      BY DEF Inv, TypeOK
    <3> QED
      BY <2>2, <3>1 DEF StepKind, SiteStep, FeedApplied, Blocks
  <2>3. ASSUME NEW s \in Stay, NEW r \in Room \cup {Away}, GuestMoves(s, r) PROVE StepKind
    BY <2>3 DEF StepKind, GuestMoves
  <2>4. ASSUME (\E as \in Confirmable : Confirms(as)) \/ (\E l \in Lifecycle : LifecycleSet(l))
               \/ Retires \/ AxisChanges
        PROVE  StepKind
    BY <2>4 DEF StepKind, SiteStep, Confirms, LifecycleSet, Retires, AxisChanges
  <2> QED
    BY <1>3, <2>1, <2>2, <2>3, <2>4 DEF EnvStep, StepKind
<1>4. CASE UNCHANGED vars
  BY <1>4 DEF vars, StepKind
<1> QED
  BY <1>1, <1>2, <1>3, <1>4 DEF Next

\* What is on the wire, processed or on the folio stays so, and only a PS on the wire
\* that the PMS has not dealt with can still be debited.
FolioMoves ==
    /\ onWire \subseteq onWire' /\ processed \subseteq processed' /\ folio \subseteq folio'
    /\ processed' \subseteq processed \cup onWire
    /\ folio' \subseteq folio \cup (onWire \ processed)
    /\ folio' \subseteq folio \cup processed'

\* Every step moves the folio that way.
LEMMA FolioSteps ==
    ASSUME Inv, [Next]_vars
    PROVE  FolioMoves
<1>1. CASE LaneStep
  <2>1. UNCHANGED <<onWire, processed, folio>>
    BY <1>1 DEF LaneStep, LaneBegins, LaneRefuses, DialFails, HandsOff, GetsResponse, LosesConnection,
       ResponseLost, Settles, FollowsOutcome, WorkerStops, RecoversOrphan, CatchesUp, relayVars,
       envVars, Receive
  <2> QED
    BY <2>1 DEF FolioMoves
<1>2. CASE PmsdStep
  <2>1. UNCHANGED <<processed, folio>>
    BY <1>2, PmsdSteps
  <2>2. onWire \subseteq onWire'
    BY <1>2 DEF PmsdStep, Asks, AuthoriserUnavailable, RelayStep, WriterStep, WriterBreaks, PaArrives,
       LinkCycles, SweepEnds, LinkStep, LinkLost, Authorise, CheckCarried, Register, Submit,
       WriterGone, TakeAnswer, GiveUp, GuardRefuses, Write, WriteFails, DeliverPA, LinkUp, DetachEnds,
       ResyncEnds, ResyncBegins, WriterEnds, ResyncUnanswered, LinkDown, RelayStops
  <2> QED
    BY <2>1, <2>2 DEF FolioMoves
<1>3. CASE EnvStep
  <2>1. ASSUME NEW n \in PNum, NEW as \in AnswerCode, PmsSilent(n) \/ PmsAnswers(n, as)
        PROVE  FolioMoves
    BY <2>1 DEF PmsSilent, PmsAnswers, relayVars, FolioMoves
  <2>2. ASSUME UNCHANGED <<onWire, processed, folio>> PROVE FolioMoves
    BY <2>2 DEF FolioMoves
  <2>3. AnswerCode # {}
    BY BaseConstants
  <2> QED
    BY <1>3, <2>1, <2>2, <2>3 DEF EnvStep, FeedApplied, Blocks, GuestMoves, Observe, Requeues,
       GuestBuys, Reviews, Confirms, LifecycleSet, Retires, AxisChanges, relayVars, envVars
<1>4. CASE UNCHANGED vars
  BY <1>4 DEF vars, relayVars, envVars, FolioMoves
<1> QED
  BY <1>1, <1>2, <1>3, <1>4 DEF Next

\* P#s are handed out in order, for good: what was allocated keeps its charge.
LEMMA AttemptsKept ==
    ASSUME Inv, [Next]_vars
    PROVE  /\ \A n \in PNum : n < nextP => n < nextP' /\ att'[n].posting = att[n].posting
           /\ \A p \in Posting : AttemptsOf(p) \subseteq AttemptsOf(p)'
<1>0. /\ \A n \in PNum : n \in Nat
      /\ nextP \in Nat
      /\ \A n \in PNum : att[n].posting \in Posting <=> n < nextP
      /\ att \in [PNum -> Attempt]
  BY AllocationFacts DEF Inv, TypeOK, LedgerTypeOK
<1>1. \A n \in PNum : n < nextP => n < nextP' /\ att'[n].posting = att[n].posting
  <2>1. ASSUME NEW p \in Posting, LaneBegins(p)
        PROVE  \A n \in PNum : n < nextP => n < nextP' /\ att'[n].posting = att[n].posting
    BY <1>0, <2>1 DEF LaneBegins, BeginAttempt
  <2>2. CASE Settles
    BY <1>0, <2>2 DEF Settles, SettleAttempt, Attempt
  <2>3. ASSUME NEW n \in PNum, RecoversOrphan(n)
        PROVE  \A k \in PNum : k < nextP => k < nextP' /\ att'[k].posting = att[k].posting
    BY <1>0, <2>3 DEF RecoversOrphan, ConcludeOrphan, Attempt
  <2>4. ASSUME UNCHANGED attemptVars
        PROVE  \A n \in PNum : n < nextP => n < nextP' /\ att'[n].posting = att[n].posting
    BY <2>4 DEF attemptVars
  <2>5. ASSUME NEW p \in Posting, LaneRefuses(p) \/ Requeues(p)
        PROVE  UNCHANGED attemptVars
    BY <2>5 DEF LaneRefuses, AbortBeforeSend, ReturnToReview, Decline, Requeues, RequeueParked
  <2>6. ASSUME NEW p \in Posting, NEW s \in Stay, GuestBuys(p, s)
        PROVE  UNCHANGED attemptVars
    BY <2>6 DEF GuestBuys, CreateRoomCharge
  <2>7. ASSUME NEW p \in Posting, NEW a \in TerminalAction, Reviews(p, a)
        PROVE  UNCHANGED attemptVars
    BY <2>7 DEF Reviews, DecideReview
  <2>8. ASSUME FollowsOutcome \/ SiteStep \/ UNCHANGED ledgerVars
        PROVE  UNCHANGED attemptVars
    BY <2>8 DEF FollowsOutcome, SettlementFollows, SiteStep, RecordConfirmation, AdminBlock,
       ApplyGuestRecord, SetLifecycle, Decommission, FreshnessChanges, PinnedConfigChanges,
       ledgerVars, attemptVars
  <2> QED
    BY <2>1, <2>2, <2>3, <2>4, <2>5, <2>6, <2>7, <2>8, StepKinds DEF StepKind
<1>2. ASSUME NEW p \in Posting
      PROVE  AttemptsOf(p) \subseteq AttemptsOf(p)'
  BY <1>0, <1>1 DEF AttemptsOf
<1> QED
  BY <1>1, <1>2

\* What is spent stays spent.
LEMMA SpentStays ==
    ASSUME Inv, [Next]_vars, NEW n \in PNum, n < nextP, Spent(n)
    PROVE  Spent(n)'
<1>0. FolioMoves
  BY FolioSteps
<1>1. CASE n \in onWire
  BY <1>0, <1>1 DEF Spent, FolioMoves
<1>2. CASE n \notin onWire
  <2>0. hs[n] \in {"idle", "done"} /\ ~(lane.pc = "dial" /\ lane.n = n) /\ nextP \in Nat /\ n \in Nat
        /\ hs \in [PNum -> HandlerState] /\ lane \in Lane
    BY <1>2, AllocationFacts, RoomChargeConstants DEF Spent, Inv, TypeOK, RelayTypeOK
  <2>1. ASSUME NEW p \in Posting, LaneBegins(p)
        PROVE  Spent(n)'
    BY <1>2, <2>0, <2>1 DEF Spent, LaneBegins, IdleLane, relayVars
  <2>2. CASE HandsOff
    <3>1. lane.n # n /\ lane'.pc = "wait" /\ onWire' = onWire /\ hs' = [hs EXCEPT ![lane.n] = "received"]
      BY <2>0, <2>2 DEF HandsOff, Receive, Lane
    <3>2. hs'[n] = hs[n]
      BY <2>0, <3>1
    <3> QED
      BY <1>2, <2>0, <3>1, <3>2 DEF Spent
  <2>3. CASE PmsdStep
    <3>1. HandlerMoves /\ lane' = lane
      BY <2>3, PmsdSteps
    <3> QED
      BY <1>2, <2>0, <3>1 DEF HandlerMoves, Spent, Unwritten
  <2>4. ASSUME UNCHANGED <<hs, onWire>>, lane' = lane \/ lane'.pc # "dial"
        PROVE  Spent(n)'
    BY <1>2, <2>0, <2>4 DEF Spent
  <2>5. ASSUME DialFails \/ GetsResponse \/ LosesConnection \/ ResponseLost \/ WorkerStops
               \/ Settles \/ FollowsOutcome \/ (\E k \in PNum : RecoversOrphan(k))
               \/ (\E p \in Posting : CatchesUp(p) \/ LaneRefuses(p))
        PROVE  Spent(n)'
    <3>1. UNCHANGED <<hs, onWire>>
      BY <2>5 DEF DialFails, GetsResponse, LosesConnection, ResponseLost, WorkerStops, Settles,
         FollowsOutcome, RecoversOrphan, CatchesUp, LaneRefuses, relayVars
    <3>2. lane' = lane \/ lane'.pc # "dial"
      <4>1. ASSUME DialFails \/ GetsResponse \/ LosesConnection \/ ResponseLost
            PROVE  lane'.pc # "dial"
        BY <2>0, <4>1 DEF DialFails, GetsResponse, LosesConnection, ResponseLost, Lane
      <4>2. ASSUME WorkerStops \/ Settles \/ FollowsOutcome
            PROVE  lane'.pc # "dial"
        <5>1. IdleLane.pc = "idle" /\ [IdleLane EXCEPT !.pc = "outcome", !.p = lane.p].pc = "outcome"
          BY DEF IdleLane
        <5> QED
          BY <4>2, <5>1 DEF WorkerStops, Settles, FollowsOutcome
      <4>3. ASSUME NEW k \in PNum, RecoversOrphan(k)
            PROVE  lane'.pc # "dial"
        BY <4>3 DEF RecoversOrphan, IdleLane
      <4>4. ASSUME NEW p \in Posting, CatchesUp(p) \/ LaneRefuses(p)
            PROVE  lane' = lane \/ lane'.pc # "dial"
        BY <4>4 DEF CatchesUp, LaneRefuses, IdleLane
      <4> QED
        BY <2>5, <4>1, <4>2, <4>3, <4>4
    <3> QED
      BY <2>4, <3>1, <3>2
  <2>6. ASSUME EnvStep \/ UNCHANGED vars
        PROVE  Spent(n)'
    <3>1. UNCHANGED <<hs, onWire, lane>>
      BY <2>6 DEF EnvStep, PmsSilent, PmsAnswers, FeedApplied, Blocks, GuestMoves, Observe, Requeues,
         GuestBuys, Reviews, Confirms, LifecycleSet, Retires, AxisChanges, relayVars, vars
    <3> QED
      BY <2>4, <3>1
  <2> QED
    BY <2>1, <2>2, <2>3, <2>5, <2>6 DEF Next, LaneStep
<1> QED
  BY <1>1, <1>2

\* Only RunOnce's transaction and a review decision write posting_review_state.
LEMMA ReviewWriters ==
    ASSUME Inv, [Next]_vars
    PROVE  \/ UNCHANGED review
           \/ \E p \in Posting : LaneBegins(p)
           \/ \E p \in Posting : \E a \in TerminalAction : Reviews(p, a)
<1>1. ASSUME NEW p \in Posting, LaneRefuses(p) \/ Requeues(p)
      PROVE  UNCHANGED review
  BY <1>1 DEF LaneRefuses, AbortBeforeSend, ReturnToReview, Decline, Requeues, RequeueParked
<1>2. ASSUME NEW p \in Posting, NEW s \in Stay, GuestBuys(p, s)
      PROVE  UNCHANGED review
  BY <1>2 DEF GuestBuys, CreateRoomCharge
<1>3. ASSUME FollowsOutcome \/ Settles \/ (\E n \in PNum : RecoversOrphan(n)) \/ UNCHANGED ledgerVars
      PROVE  UNCHANGED review
  BY <1>3 DEF FollowsOutcome, SettlementFollows, Settles, SettleAttempt, RecoversOrphan,
     ConcludeOrphan, ledgerVars
<1>4. ASSUME SiteStep
      PROVE  UNCHANGED review
  BY <1>4 DEF SiteStep, RecordConfirmation, AdminBlock, ApplyGuestRecord, SetLifecycle,
     Decommission, FreshnessChanges, PinnedConfigChanges
<1> QED
  BY <1>1, <1>2, <1>3, <1>4, StepKinds DEF StepKind

\* What RunOnce's transaction does to the review state and the attempts.
LEMMA BeginFacts ==
    ASSUME Inv, NEW p \in Posting, LaneBegins(p)
    PROVE  /\ nextP \in PNum /\ nextP' = nextP + 1
           /\ \A n \in PNum : n # nextP => att'[n] = att[n]
           /\ att'[nextP].posting = p /\ att'[nextP].outcome = "SENDING"
           /\ \A q \in Posting : q # p => /\ review'[q] = review[q] /\ latest'[q] = latest[q]
                                          /\ outbox'[q] = outbox[q]
           /\ outbox[p] = "QUEUED" /\ outbox'[p] = "IN_FLIGHT" /\ latest'[p] = nextP
           /\ review'[p].term = review[p].term
           /\ review[p].auth => review'[p].auth = FALSE /\ review'[p].used = nextP
           /\ ~review[p].auth => review'[p] = review[p]
<1>0. LedgerTypeOK /\ nextP \in PNum
  BY DEF Inv, TypeOK, LaneBegins, BeginAttempt
<1>1. /\ \A n \in PNum : n # nextP => att'[n] = att[n]
      /\ att'[nextP].posting = p /\ att'[nextP].outcome = "SENDING"
      /\ nextP' = nextP + 1
  BY <1>0 DEF LaneBegins, BeginAttempt, LedgerTypeOK
<1>2. /\ \A q \in Posting : q # p => latest'[q] = latest[q] /\ outbox'[q] = outbox[q]
      /\ latest'[p] = nextP /\ outbox'[p] = "IN_FLIGHT" /\ outbox[p] = "QUEUED"
  BY <1>0 DEF LaneBegins, BeginAttempt, Claimable, LedgerTypeOK
<1>3. /\ \A q \in Posting : q # p => review'[q] = review[q]
      /\ review[p].auth => /\ review'[p].auth = FALSE /\ review'[p].used = nextP
                           /\ review'[p].term = review[p].term
      /\ ~review[p].auth => review'[p] = review[p]
  BY <1>0 DEF LedgerTypeOK, LaneBegins, BeginAttempt, Review
<1> QED
  BY <1>0, <1>1, <1>2, <1>3

\* What a review decision does to the review state.
LEMMA ReviewFacts ==
    ASSUME Inv, NEW p \in Posting, NEW a \in TerminalAction, Reviews(p, a)
    PROVE  /\ \A q \in Posting : q # p => review'[q] = review[q]
           /\ review[p].term = "none" /\ ~review[p].auth /\ review[p].used = 0
           /\ review'[p].term = a /\ review'[p].used = 0
           /\ review'[p].auth <=> a = "CONFIRM_NOT_POSTED_RETRY"
           /\ latest[p] # 0
           /\ UNCHANGED <<attemptVars, relayVars, envVars, lane, parked, siteVars, stayOf>>
<1>0. review \in [Posting -> Review] /\ review[p] \in Review
  BY DEF Inv, TypeOK, LedgerTypeOK
<1>1. /\ review[p].term = "none" /\ latest[p] # 0
      /\ UNCHANGED <<attemptVars, relayVars, envVars, lane, parked, siteVars, stayOf>>
  BY DEF Reviews, DecideReview, ReviewAdmits
<1>2. ~review[p].auth /\ review[p].used = 0
  BY <1>1 DEF Inv, ReviewOnce
<1> DEFINE granted == (a = "CONFIRM_NOT_POSTED_RETRY")
<1>3. review' = [review EXCEPT ![p] = [review[p] EXCEPT !.term = a, !.auth = granted]]
  BY DEF Reviews, DecideReview
<1>4. /\ \A q \in Posting : q # p => review'[q] = review[q]
      /\ review'[p].term = a /\ review'[p].used = review[p].used /\ review'[p].auth = granted
  <2> HIDE DEF granted
  <2> QED
    BY <1>0, <1>3 DEF Review
<1> QED
  BY <1>1, <1>2, <1>4

\* Authorising a retry finds every attempt of the charge spent and none debited, and
\* they stay so.
LEMMA RetriedKept ==
    ASSUME Inv, MoneyInv, [Next]_vars
    PROVE  RetriedAreSpent' /\ UsedIsAllocated'
<1>0. /\ nextP \in Nat /\ 0 < nextP /\ \A n \in PNum : n \in Nat /\ n # 0
      /\ \A n \in PNum : att[n].posting \in Posting <=> n < nextP
      /\ 0 \notin Posting /\ NoAttempt.posting = 0
      /\ \A n \in PNum : ~(n < nextP) => att[n] = NoAttempt
      /\ \A p \in Posting : review[p].used \in Nat
  <2>1. \A p \in Posting : review[p].used \in 0 .. MaxAttempt
    BY DEF Inv, TypeOK, LedgerTypeOK, Review
  <2> QED
    BY <2>1, AllocationFacts, BaseConstants DEF Inv, TypeOK, LedgerTypeOK
<1>1. /\ \A n \in PNum : n < nextP => n < nextP' /\ att'[n].posting = att[n].posting
  BY AttemptsKept
<1>2. ASSUME NEW n \in PNum, n < nextP, Spent(n), n \notin folio
      PROVE  Spent(n)' /\ n \notin folio'
  <2>1. Spent(n)'
    BY <1>2, SpentStays DEF Spent
  <2>2. n \notin onWire \ processed
    BY <1>2 DEF Spent
  <2> QED
    BY <1>2, <2>1, <2>2, FolioSteps DEF FolioMoves
<1>3. ASSUME NEW p \in Posting, LaneBegins(p)
      PROVE  RetriedAreSpent' /\ UsedIsAllocated'
  <2>1. /\ nextP \in PNum /\ nextP' = nextP + 1
        /\ \A n \in PNum : n # nextP => att'[n] = att[n]
        /\ att'[nextP].posting = p
        /\ \A q \in Posting : q # p => review'[q] = review[q]
        /\ review[p].auth => review'[p].auth = FALSE /\ review'[p].used = nextP
        /\ ~review[p].auth => review'[p] = review[p]
    BY <1>3, BeginFacts
  <2>2. UsedIsAllocated'
    <3> SUFFICES ASSUME NEW q \in Posting PROVE review'[q].used < nextP + 1
      BY <2>1 DEF UsedIsAllocated
    <3>1. review[q].used < nextP
      BY DEF MoneyInv, UsedIsAllocated
    <3> QED
      BY <1>0, <2>1, <3>1
  <2>3. RetriedAreSpent'
    <3> SUFFICES ASSUME NEW n \in PNum, att'[n].posting \in Posting,
                        review'[att'[n].posting].auth \/ n < review'[att'[n].posting].used
                 PROVE  Spent(n)' /\ n \notin folio'
      BY DEF RetriedAreSpent
    <3>0. review[p].used < nextP
      BY DEF MoneyInv, UsedIsAllocated
    <3>1. n # nextP
      BY <1>0, <2>1, <3>0
    <3>2. att'[n] = att[n] /\ n < nextP
      BY <1>0, <2>1, <3>1
    <3>3. review[att[n].posting].auth \/ n < review[att[n].posting].used
      BY <1>0, <2>1, <3>2
    <3>4. Spent(n) /\ n \notin folio
      BY <3>2, <3>3 DEF MoneyInv, RetriedAreSpent
    <3> QED
      BY <1>2, <3>2, <3>4
  <2> QED
    BY <2>2, <2>3
<1>4. ASSUME NEW p \in Posting, NEW a \in TerminalAction, Reviews(p, a)
      PROVE  RetriedAreSpent' /\ UsedIsAllocated'
  <2>1. /\ \A q \in Posting : q # p => review'[q] = review[q]
        /\ review'[p].used = 0
        /\ review'[p].auth <=> a = "CONFIRM_NOT_POSTED_RETRY"
        /\ UNCHANGED <<att, nextP>>
    BY <1>4, ReviewFacts DEF attemptVars
  <2>2. UsedIsAllocated'
    BY <1>0, <2>1 DEF MoneyInv, UsedIsAllocated
  <2>3. RetriedAreSpent'
    <3> SUFFICES ASSUME NEW n \in PNum, att'[n].posting \in Posting,
                        review'[att'[n].posting].auth \/ n < review'[att'[n].posting].used
                 PROVE  Spent(n)' /\ n \notin folio'
      BY DEF RetriedAreSpent
    <3>1. n < nextP /\ att[n].posting \in Posting
      BY <1>0, <2>1
    <3>2. Spent(n) /\ n \notin folio
      <4>1. CASE att[n].posting # p
        BY <2>1, <3>1, <4>1 DEF MoneyInv, RetriedAreSpent
      <4>2. CASE att[n].posting = p
        <5>1. a = "CONFIRM_NOT_POSTED_RETRY"
          BY <1>0, <2>1, <4>2
        <5>2. Quiet(p) /\ Debits(p) = {}
          BY <1>4, <5>1 DEF Reviews, Truthful
        <5> QED
          BY <4>2, <5>2 DEF Quiet, Debits, AttemptsOf, Spent
      <4> QED
        BY <4>1, <4>2
    <3> QED
      BY <1>2, <3>1, <3>2
  <2> QED
    BY <2>2, <2>3
<1>5. ASSUME UNCHANGED review, ~(\E p \in Posting : LaneBegins(p))
      PROVE  RetriedAreSpent' /\ UsedIsAllocated'
  <2>1. nextP' \in Nat /\ nextP <= nextP' /\ \A n \in PNum : ~(n < nextP) => att'[n] = att[n]
    <3>1. ASSUME NEW p \in Posting, LaneRefuses(p) \/ Requeues(p)
          PROVE  UNCHANGED <<att, nextP>>
      BY <3>1 DEF LaneRefuses, AbortBeforeSend, ReturnToReview, Decline, Requeues, RequeueParked,
         attemptVars
    <3>2. ASSUME NEW p \in Posting, NEW s \in Stay, GuestBuys(p, s)
          PROVE  UNCHANGED <<att, nextP>>
      BY <3>2 DEF GuestBuys, CreateRoomCharge, attemptVars
    <3>3. ASSUME NEW p \in Posting, NEW a \in TerminalAction, Reviews(p, a)
          PROVE  UNCHANGED <<att, nextP>>
      BY <3>3 DEF Reviews, DecideReview, attemptVars
    <3>4. ASSUME FollowsOutcome \/ SiteStep \/ UNCHANGED ledgerVars
          PROVE  UNCHANGED <<att, nextP>>
      BY <3>4 DEF FollowsOutcome, SettlementFollows, SiteStep, RecordConfirmation, AdminBlock,
         ApplyGuestRecord, SetLifecycle, Decommission, FreshnessChanges, PinnedConfigChanges,
         ledgerVars, attemptVars
    <3>5. CASE Settles
      <4>1. lane.n \in PNum /\ lane.n < nextP
        BY <3>5 DEF Inv, Settles, LaneKnows
      <4>2. UNCHANGED nextP /\ \A n \in PNum : n # lane.n => att'[n] = att[n]
        BY <3>5 DEF Settles, SettleAttempt, Inv, TypeOK, LedgerTypeOK
      <4> QED
        BY <1>0, <4>1, <4>2
    <3>6. ASSUME NEW k \in PNum, RecoversOrphan(k)
          PROVE  UNCHANGED nextP /\ \A n \in PNum : ~(n < nextP) => att'[n] = att[n]
      <4>1. k < nextP
        BY <1>0, <3>6 DEF RecoversOrphan, ConcludeOrphan, NoAttempt
      <4>2. UNCHANGED nextP /\ \A n \in PNum : n # k => att'[n] = att[n]
        BY <3>6 DEF RecoversOrphan, ConcludeOrphan, Inv, TypeOK, LedgerTypeOK
      <4> QED
        BY <4>1, <4>2
    <3> QED
      BY <1>0, <1>5, <3>1, <3>2, <3>3, <3>4, <3>5, <3>6, StepKinds DEF StepKind
  <2>2. UsedIsAllocated'
    BY <1>0, <1>5, <2>1 DEF MoneyInv, UsedIsAllocated
  <2>3. RetriedAreSpent'
    <3> SUFFICES ASSUME NEW n \in PNum, att'[n].posting \in Posting,
                        review'[att'[n].posting].auth \/ n < review'[att'[n].posting].used
                 PROVE  Spent(n)' /\ n \notin folio'
      BY DEF RetriedAreSpent
    <3>1. n < nextP /\ att[n].posting = att'[n].posting
      BY <1>0, <1>1, <2>1
    <3>2. Spent(n) /\ n \notin folio
      BY <1>5, <3>1 DEF MoneyInv, RetriedAreSpent
    <3> QED
      BY <1>2, <3>1, <3>2
  <2> QED
    BY <2>2, <2>3
<1> QED
  BY <1>3, <1>4, <1>5, ReviewWriters

\* What the PMS debited was processed, and what it processed was written.
LEMMA FolioKept ==
    ASSUME Inv, MoneyInv, [Next]_vars
    PROVE  FolioOnWire'
BY FolioSteps DEF MoneyInv, FolioOnWire, FolioMoves

\* What an answer says of a P# stays true.
LEMMA TruthStays ==
    ASSUME Inv, MoneyInv, [Next]_vars
    PROVE  \A n : \A as : TrueOf(n, as) => TrueOf(n, as)'
BY FolioSteps DEF FolioMoves, TrueOf

\* On its way through pmsd an answer is passed on as it came, or lost.
AnswerMoves ==
    \A n \in PNum :
        /\ \/ answer'[n] \in {answer[n], NoPA}
           \/ \E m \in PNum : answer'[n].pn = m /\ answer'[n].as = pa[m]
        /\ resp'[n].pa \in {resp[n].pa, NoPA, answer[n]}
        /\ pa'[n] \in {pa[n], "none"}

\* A response written back carries no answer but the one the handler was given.
LEMMA RespondPasses ==
    ASSUME TypeOK, NEW c \in PNum, NEW r, Respond(c, r), r.pa \in {NoPA, answer[c]}
    PROVE  \A n \in PNum : resp'[n].pa \in {resp[n].pa, NoPA, answer[n]}
BY RoomChargeConstants DEF Respond, TypeOK, RelayTypeOK

\* Every step of pmsd does so.
LEMMA AnswerSteps ==
    ASSUME Inv, PmsdStep
    PROVE  AnswerMoves
<1>0. /\ TypeOK /\ Conn = PNum /\ resp \in [PNum -> Response] /\ answer \in [PNum -> PA]
      /\ pa \in [PNum -> AnswerCode \cup {"none"}]
  BY RoomChargeConstants DEF Inv, TypeOK, RelayTypeOK
<1>1. /\ \A code : notSent(code).pa = NoPA /\ unknown(code).pa = NoPA
      /\ \A record : answered(record).pa = record
      /\ NoResponse.pa = NoPA
  BY DEF notSent, unknown, answered, NoResponse
<1>2. ASSUME NEW n \in PNum, Asks(n) \/ AuthoriserUnavailable(n) \/ RelayStep(n) \/ WriterStep(n)
                             \/ WriterBreaks(n)
      PROVE  AnswerMoves
  <2>1. UNCHANGED <<answer, pa>>
    BY <1>2 DEF Asks, AuthoriserUnavailable, RelayStep, WriterStep, WriterBreaks, Authorise,
       CheckCarried, Register, Submit, WriterGone, TakeAnswer, GiveUp, GuardRefuses, Write,
       WriteFails, envVars
  <2>2. UNCHANGED resp \/ \E r : Respond(n, r) /\ r.pa \in {NoPA, answer[n]}
    <3>1. CASE Asks(n) \/ AuthoriserUnavailable(n)
      BY <1>1, <3>1 DEF Asks, AuthoriserUnavailable, Authorise
    <3>2. CASE RelayStep(n)
      <4>1. CASE CheckCarried(n) \/ Submit(n) \/ WriterGone(n)
        BY <1>1, <4>1 DEF CheckCarried, Submit, WriterGone
      <4>2. CASE Register(n)
        <5> DEFINE refusal == CASE link \in {"DOWN", "DETACHING"} -> "LINK_NOT_CONNECTED"
                          [] link \in {"INITIAL", "RESYNC"} -> "LINK_RESYNCING"
                          [] link \in {"STEADY", "BROKEN"} -> IF pending # 0 THEN "LINK_BUSY" ELSE ""
        <5>1. Respond(n, notSent(refusal)) \/ UNCHANGED resp
          BY <4>2 DEF Register
        <5> HIDE DEF refusal
        <5> QED
          BY <1>1, <5>1
      <4>3. CASE TakeAnswer(n) \/ GiveUp(n)
        BY <1>1, <4>3 DEF TakeAnswer, GiveUp
      <4> QED
        BY <3>2, <4>1, <4>2, <4>3 DEF RelayStep
    <3>3. CASE WriterStep(n) \/ WriterBreaks(n)
      BY <1>1, <3>3 DEF WriterStep, WriterBreaks, GuardRefuses, Write, WriteFails
    <3> QED
      BY <1>2, <3>1, <3>2, <3>3
  <2>3. \A m \in PNum : resp'[m].pa \in {resp[m].pa, NoPA, answer[m]}
    BY <1>0, <2>2, RespondPasses
  <2> QED
    BY <2>1, <2>3 DEF AnswerMoves
<1>3. ASSUME NEW n \in PNum, PaArrives(n)
      PROVE  AnswerMoves
  <2>1. UNCHANGED resp /\ \A m \in PNum : pa'[m] \in {pa[m], "none"}
    BY <1>0, <1>3 DEF PaArrives, DeliverPA
  <2>2. UNCHANGED answer \/ (pending \in PNum /\ answer' = [answer EXCEPT ![pending] = [pn |-> n, as |-> pa[n]]])
    BY <1>0, <1>3 DEF PaArrives, DeliverPA, TypeOK, RelayTypeOK
  <2>3. ASSUME NEW m \in PNum
        PROVE  answer'[m] = answer[m] \/ (answer'[m].pn = n /\ answer'[m].as = pa[n])
    BY <1>0, <2>2
  <2> QED
    BY <2>1, <2>3 DEF AnswerMoves
<1>4. ASSUME LinkCycles \/ LinkStep \/ SweepEnds
      PROVE  AnswerMoves
  <2>1. UNCHANGED <<answer, resp, pa>>
    BY <1>4 DEF LinkCycles, LinkStep, SweepEnds, LinkUp, DetachEnds, ResyncBegins, WriterEnds,
       ResyncUnanswered, ResyncEnds, envVars
  <2> QED
    BY <2>1 DEF AnswerMoves
<1>5. CASE LinkLost
  BY <1>0, <1>1, <1>5 DEF LinkLost, LinkDown, RelayStops, AnswerMoves
<1> QED
  BY <1>2, <1>3, <1>4, <1>5 DEF PmsdStep

\* An answer is true from the PMS through the relay and the lane into the ledger, and a
\* vendor confirmation is of a code that does mean "not posted".
LEMMA AnswersKept ==
    ASSUME Inv, MoneyInv, [Next]_vars
    PROVE  AnswersTrue'
<1>0. /\ AnswersTrue /\ FolioOnWire
      /\ resp \in [PNum -> Response] /\ answer \in [PNum -> PA]
      /\ pa \in [PNum -> AnswerCode \cup {"none"}]
      /\ att \in [PNum -> Attempt] /\ lane \in Lane
      /\ NotPosted \subseteq AnswerCode /\ "OK" \notin NotPosted /\ "none" \notin AnswerCode
  BY BaseConstants, RoomChargeConstants DEF MoneyInv, Inv, TypeOK, RelayTypeOK, LedgerTypeOK, Confirmable
<1>1. \A n : \A as : TrueOf(n, as) => TrueOf(n, as)'
  BY TruthStays
<1>2. \A n : TrueOf(n, "none")'
  BY <1>0, BaseConstants DEF TrueOf
<1>3. \A n \in PNum : TrueOf(n, pa[n])'
  <2>1. ASSUME NEW k \in PNum, NEW as \in AnswerCode, PmsAnswers(k, as)
        PROVE  \A n \in PNum : TrueOf(n, pa[n])'
    <3>1. TrueOf(k, as)'
      BY <1>0, <2>1 DEF PmsAnswers, TrueOf, FolioOnWire
    <3>2. pa' = [pa EXCEPT ![k] = as]
      BY <2>1 DEF PmsAnswers
    <3>3. \A n \in PNum : n # k => pa'[n] = pa[n]
      BY <1>0, <3>2
    <3>4. pa'[k] = as
      BY <1>0, <3>2
    <3> QED
      BY <1>0, <1>1, <3>1, <3>3, <3>4 DEF AnswersTrue, TrueOf
  <2>2. ASSUME \A n \in PNum : pa'[n] \in {pa[n], "none"}
        PROVE  \A n \in PNum : TrueOf(n, pa[n])'
    BY <1>0, <1>1, <1>2, <2>2 DEF AnswersTrue, TrueOf
  <2>3. CASE PmsdStep
    BY <2>2, <2>3, AnswerSteps DEF AnswerMoves
  <2>4. ASSUME UNCHANGED pa
        PROVE  \A n \in PNum : TrueOf(n, pa[n])'
    BY <2>2, <2>4
  <2>5. CASE LaneStep \/ UNCHANGED vars
    BY <2>4, <2>5 DEF LaneStep, LaneBegins, LaneRefuses, DialFails, HandsOff, GetsResponse,
       LosesConnection, ResponseLost, Settles, FollowsOutcome, WorkerStops, RecoversOrphan, CatchesUp,
       envVars, vars
  <2>6. CASE EnvStep
    BY <2>1, <2>4, <2>6 DEF EnvStep, PmsSilent, FeedApplied, Blocks, GuestMoves, Requeues,
       GuestBuys, Reviews, Confirms, LifecycleSet, Retires, AxisChanges, envVars
  <2> QED
    BY <2>3, <2>5, <2>6 DEF Next
<1>4. /\ \A n \in PNum : TrueOf(answer[n].pn, answer[n].as)'
      /\ \A n \in PNum : TrueOf(resp[n].pa.pn, resp[n].pa.as)'
  <2>1. CASE PmsdStep
    <3>1. AnswerMoves /\ NoPA.as = "none"
      BY <2>1, AnswerSteps DEF NoPA
    <3>2. ASSUME NEW n \in PNum PROVE TrueOf(answer[n].pn, answer[n].as)'
      <4>1. CASE answer'[n] \in {answer[n], NoPA}
        <5>1. TrueOf(answer[n].pn, answer[n].as)
          BY <1>0 DEF AnswersTrue
        <5>2. CASE answer'[n] = answer[n]
          BY <1>1, <5>1, <5>2 DEF TrueOf
        <5>3. CASE answer'[n] = NoPA
          BY <1>2, <3>1, <5>3 DEF TrueOf
        <5> QED
          BY <4>1, <5>2, <5>3
      <4>2. ASSUME NEW m \in PNum, answer'[n].pn = m, answer'[n].as = pa[m]
            PROVE  TrueOf(answer[n].pn, answer[n].as)'
        BY <1>0, <1>1, <4>2 DEF AnswersTrue, TrueOf
      <4> QED
        BY <3>1, <4>1, <4>2 DEF AnswerMoves
    <3>3. ASSUME NEW n \in PNum PROVE TrueOf(resp[n].pa.pn, resp[n].pa.as)'
      <4>1. resp'[n].pa \in {resp[n].pa, NoPA, answer[n]}
        BY <3>1 DEF AnswerMoves
      <4>2. TrueOf(answer[n].pn, answer[n].as) /\ TrueOf(resp[n].pa.pn, resp[n].pa.as)
        BY <1>0 DEF AnswersTrue
      <4>3. CASE resp'[n].pa = resp[n].pa
        BY <1>1, <4>2, <4>3 DEF TrueOf
      <4>4. CASE resp'[n].pa = answer[n]
        BY <1>1, <4>2, <4>4 DEF TrueOf
      <4>5. CASE resp'[n].pa = NoPA
        BY <1>2, <3>1, <4>5 DEF TrueOf
      <4> QED
        BY <4>1, <4>3, <4>4, <4>5
    <3> QED
      BY <3>2, <3>3
  <2>2. ASSUME UNCHANGED <<answer, resp>>
        PROVE  /\ \A n \in PNum : TrueOf(answer[n].pn, answer[n].as)'
               /\ \A n \in PNum : TrueOf(resp[n].pa.pn, resp[n].pa.as)'
    BY <1>0, <1>1, <2>2 DEF AnswersTrue, TrueOf
  <2>3. CASE LaneStep \/ UNCHANGED vars
    BY <2>2, <2>3 DEF LaneStep, LaneBegins, LaneRefuses, DialFails, HandsOff, GetsResponse,
       LosesConnection, ResponseLost, Settles, FollowsOutcome, WorkerStops, RecoversOrphan, CatchesUp,
       relayVars, vars, Receive
  <2>4. CASE EnvStep
    BY <2>2, <2>4 DEF EnvStep, PmsSilent, PmsAnswers, FeedApplied, Blocks, GuestMoves, Observe,
       Requeues, GuestBuys, Reviews, Confirms, LifecycleSet, Retires, AxisChanges, relayVars
  <2> QED
    BY <2>1, <2>3, <2>4 DEF Next
<1>5. lane'.pc = "settle" /\ lane'.result = "ANSWERED" => TrueOf(lane.n, lane.as)'
  <2>1. CASE GetsResponse
    <3>1. lane.n \in PNum
      BY <2>1 DEF GetsResponse, Inv, LaneKnows
    <3>2. /\ lane'.n = lane.n /\ lane'.result = Correlated(lane.n, resp[lane.n])
          /\ lane'.as = resp[lane.n].pa.as
      BY <1>0, <2>1 DEF GetsResponse, Lane
    <3>3. lane'.result = "ANSWERED" => resp[lane.n].pa.pn = lane.n
      BY <3>2 DEF Correlated
    <3> QED
      BY <1>0, <1>1, <3>1, <3>2, <3>3 DEF AnswersTrue, TrueOf
  <2>2. ASSUME DialFails \/ LosesConnection \/ ResponseLost
        PROVE  lane'.result # "ANSWERED"
    BY <1>0, <2>2 DEF DialFails, LosesConnection, ResponseLost, Lane
  <2>3. ASSUME NEW p \in Posting, LaneBegins(p) \/ CatchesUp(p)
        PROVE  lane'.pc # "settle"
    BY <2>3 DEF LaneBegins, CatchesUp, IdleLane
  <2>4. CASE HandsOff
    BY <1>0, <2>4 DEF HandsOff, Lane
  <2>5. ASSUME WorkerStops \/ Settles \/ FollowsOutcome
        PROVE  lane'.pc # "settle"
    <3>1. IdleLane.pc = "idle" /\ [IdleLane EXCEPT !.pc = "outcome", !.p = lane.p].pc = "outcome"
      BY DEF IdleLane
    <3> QED
      BY <2>5, <3>1 DEF WorkerStops, Settles, FollowsOutcome
  <2>6. ASSUME NEW n \in PNum, RecoversOrphan(n)
        PROVE  lane'.pc # "settle"
    BY <2>6 DEF RecoversOrphan, IdleLane
  <2>7. ASSUME UNCHANGED lane
        PROVE  lane'.pc = "settle" /\ lane'.result = "ANSWERED" => TrueOf(lane.n, lane.as)'
    BY <1>0, <1>1, <2>7 DEF AnswersTrue, TrueOf
  <2>8. CASE PmsdStep \/ EnvStep \/ UNCHANGED vars
    BY <2>7, <2>8, PmsdSteps DEF EnvStep, PmsSilent, PmsAnswers, FeedApplied, Blocks, GuestMoves,
       Requeues, GuestBuys, Reviews, Confirms, LifecycleSet, Retires, AxisChanges, vars
  <2>9. ASSUME NEW p \in Posting, LaneRefuses(p)
        PROVE  UNCHANGED lane
    BY <2>9 DEF LaneRefuses
  <2> QED
    BY <2>1, <2>2, <2>3, <2>4, <2>5, <2>6, <2>7, <2>8, <2>9 DEF Next, LaneStep
<1>6. \A n \in PNum : att'[n].outcome = "ACKED" => TrueOf(n, att[n].as)'
  <2>1. CASE Settles
    <3>1. lane.pc = "settle" /\ lane.n \in PNum
      BY <2>1 DEF Settles, Inv, LaneKnows
    <3>2. /\ att'[lane.n].outcome = SettleOutcome(lane.result, lane.as)
          /\ att'[lane.n].as = IF lane.result = "ANSWERED" THEN lane.as ELSE "none"
          /\ \A n \in PNum : n # lane.n => att'[n] = att[n]
      BY <1>0, <2>1, <3>1 DEF Settles, SettleAttempt, Attempt
    <3>3. SettleOutcome(lane.result, lane.as) = "ACKED" => lane.result = "ANSWERED"
      BY DEF SettleOutcome
    <3> QED
      BY <1>0, <1>1, <3>1, <3>2, <3>3 DEF AnswersTrue, TrueOf
  <2>2. ASSUME NEW k \in PNum, RecoversOrphan(k)
        PROVE  \A n \in PNum : att'[n].outcome = "ACKED" => TrueOf(n, att[n].as)'
    <3>1. att'[k].outcome = "UNKNOWN" /\ \A n \in PNum : n # k => att'[n] = att[n]
      BY <1>0, <2>2 DEF RecoversOrphan, ConcludeOrphan, Attempt
    <3> QED
      BY <1>0, <1>1, <3>1 DEF AnswersTrue, TrueOf
  <2>3. ASSUME NEW p \in Posting, LaneBegins(p)
        PROVE  \A n \in PNum : att'[n].outcome = "ACKED" => TrueOf(n, att[n].as)'
    <3>1. att'[nextP].outcome = "SENDING" /\ \A n \in PNum : n # nextP => att'[n] = att[n]
      BY <2>3, BeginFacts
    <3> QED
      BY <1>0, <1>1, <3>1 DEF AnswersTrue, TrueOf
  <2>4. ASSUME UNCHANGED att
        PROVE  \A n \in PNum : att'[n].outcome = "ACKED" => TrueOf(n, att[n].as)'
    BY <1>0, <1>1, <2>4 DEF AnswersTrue, TrueOf
  <2>5. ASSUME NEW p \in Posting, LaneRefuses(p) \/ Requeues(p)
        PROVE  UNCHANGED att
    BY <2>5 DEF LaneRefuses, AbortBeforeSend, ReturnToReview, Decline, Requeues, RequeueParked,
       attemptVars
  <2>6. ASSUME NEW p \in Posting, NEW s \in Stay, GuestBuys(p, s)
        PROVE  UNCHANGED att
    BY <2>6 DEF GuestBuys, CreateRoomCharge, attemptVars
  <2>7. ASSUME NEW p \in Posting, NEW a \in TerminalAction, Reviews(p, a)
        PROVE  UNCHANGED att
    BY <2>7 DEF Reviews, DecideReview, attemptVars
  <2>8. ASSUME FollowsOutcome \/ SiteStep \/ UNCHANGED ledgerVars
        PROVE  UNCHANGED att
    BY <2>8 DEF FollowsOutcome, SettlementFollows, SiteStep, RecordConfirmation, AdminBlock,
       ApplyGuestRecord, SetLifecycle, Decommission, FreshnessChanges, PinnedConfigChanges,
       ledgerVars, attemptVars
  <2> QED
    BY <2>1, <2>2, <2>3, <2>4, <2>5, <2>6, <2>7, <2>8, StepKinds DEF StepKind
<1>7. confirmed' \subseteq NotPosted
  <2>1. ASSUME NEW as \in Confirmable, Confirms(as)
        PROVE  confirmed' \subseteq NotPosted
    BY <1>0, <2>1 DEF AnswersTrue, Confirms, RecordConfirmation
  <2>2. ASSUME UNCHANGED confirmed
        PROVE  confirmed' \subseteq NotPosted
    BY <1>0, <2>2 DEF AnswersTrue
  <2>3. CASE PmsdStep
    BY <2>2, <2>3, PmsdSteps DEF ledgerVars
  <2>4. CASE LaneStep
    <3>1. UNCHANGED confirmed
      BY <2>4 DEF LaneStep, LaneBegins, LaneRefuses, DialFails, HandsOff, GetsResponse,
         LosesConnection, ResponseLost, Settles, FollowsOutcome, WorkerStops, RecoversOrphan, CatchesUp,
         BeginAttempt, AbortBeforeSend, ReturnToReview, Decline, SettleAttempt, SettlementFollows,
         ConcludeOrphan, siteVars, ledgerVars
    <3> QED
      BY <2>2, <3>1
  <2>5. CASE EnvStep /\ ~(\E as \in Confirmable : Confirms(as))
    <3>1. UNCHANGED confirmed
      BY <2>5 DEF EnvStep, PmsSilent, PmsAnswers, FeedApplied, Blocks, GuestMoves, Requeues,
         GuestBuys, Reviews, LifecycleSet, Retires, AxisChanges, ApplyGuestRecord, AdminBlock,
         RequeueParked, CreateRoomCharge, DecideReview, SetLifecycle, Decommission, FreshnessChanges,
         PinnedConfigChanges, siteVars, ledgerVars
    <3> QED
      BY <2>2, <3>1
  <2>6. CASE UNCHANGED vars
    BY <2>2, <2>6 DEF vars, ledgerVars
  <2> QED
    BY <2>1, <2>3, <2>4, <2>5, <2>6 DEF Next
<1> QED
  BY <1>3, <1>4, <1>5, <1>6, <1>7 DEF AnswersTrue

\* settle and recovery: one SENDING attempt k is concluded, and its row follows it.
Concluded(k) ==
    LET q == att[k].posting IN
    /\ att[k].outcome = "SENDING" /\ k < nextP /\ q \in Posting
    /\ att'[k].posting = q /\ att'[k].outcome \in {"ACKED", "NOT_SENT", "UNKNOWN"}
    /\ \A n \in PNum : n # k => att'[n] = att[n]
    /\ \A p \in Posting : p # q => outbox'[p] = outbox[p]
    /\ outbox'[q] = CASE att'[k].outcome = "ACKED" -> "DONE"
                      [] att'[k].outcome = "NOT_SENT" -> "QUEUED"
                      [] OTHER -> "HELD_RECOVERY"
    /\ UNCHANGED <<latest, nextP, review, settlement, parked>>

\* Recovery concludes the orphan UNKNOWN.
LEMMA OrphanConcluded ==
    ASSUME Inv, NEW k \in PNum, RecoversOrphan(k)
    PROVE  Concluded(k)
<1>0. att \in [PNum -> Attempt] /\ outbox \in [Posting -> OutboxState]
  BY DEF Inv, TypeOK, LedgerTypeOK
<1> DEFINE q == att[k].posting
<1>1. k < nextP /\ att[k].outcome = "SENDING" /\ q \in Posting
  BY AllocationFacts DEF RecoversOrphan, ConcludeOrphan, NoAttempt
<1>2. /\ att'[k].posting = q /\ att'[k].outcome = "UNKNOWN"
      /\ \A n \in PNum : n # k => att'[n] = att[n]
  BY <1>0, <1>1 DEF RecoversOrphan, ConcludeOrphan, Attempt
<1>3. /\ \A p \in Posting : p # q => outbox'[p] = outbox[p]
      /\ outbox'[q] = "HELD_RECOVERY"
      /\ UNCHANGED <<latest, nextP, review, settlement, parked>>
  BY <1>0, <1>1 DEF RecoversOrphan, ConcludeOrphan, moneyVars
<1> QED
  BY <1>1, <1>2, <1>3 DEF Concluded

\* Both transactions are such a conclusion.
LEMMA ConcludeFacts ==
    ASSUME Inv, Settles \/ \E n \in PNum : RecoversOrphan(n)
    PROVE  \E k \in PNum : Concluded(k)
<1>0. att \in [PNum -> Attempt] /\ outbox \in [Posting -> OutboxState]
  BY DEF Inv, TypeOK, LedgerTypeOK
<1>1. CASE Settles
  <2> DEFINE k == lane.n
             q == att[k].posting
             o == SettleOutcome(lane.result, lane.as)
  <2>1. k \in PNum /\ k < nextP /\ att[k].outcome = "SENDING" /\ q \in Posting
    BY <1>1, AllocationFacts DEF Settles, SettleAttempt, Inv, LaneKnows
  <2>2. o \in {"ACKED", "NOT_SENT", "UNKNOWN"}
    BY DEF SettleOutcome
  <2>3. /\ att'[k].posting = q /\ att'[k].outcome = o
        /\ \A n \in PNum : n # k => att'[n] = att[n]
    BY <1>0, <1>1, <2>1 DEF Settles, SettleAttempt, Attempt
  <2>4. /\ \A p \in Posting : p # q => outbox'[p] = outbox[p]
        /\ outbox'[q] = CASE o = "ACKED" -> "DONE" [] o = "NOT_SENT" -> "QUEUED" [] OTHER -> "HELD_RECOVERY"
        /\ UNCHANGED <<latest, nextP, review, settlement, parked>>
    BY <1>0, <1>1, <2>1 DEF Settles, SettleAttempt, moneyVars
  <2>5. Concluded(k)
    BY <2>1, <2>2, <2>3, <2>4 DEF Concluded
  <2> QED
    BY <2>1, <2>5
<1> QED
  BY <1>1, OrphanConcluded

\* The other transactions leave the attempts alone, and move a row only out of the
\* queue or, with a retry, a requeue or a purchase, into it.
QueueMoves ==
    /\ UNCHANGED attemptVars
    /\ \A p \in Posting :
         \/ outbox'[p] = outbox[p]
         \/ outbox[p] = "QUEUED"
         \/ outbox[p] = "HELD_RECOVERY" /\ outbox'[p] = "QUEUED" /\ (~MayHaveSent(p) \/ review'[p].auth)
         \/ outbox[p] = "NONE" /\ outbox'[p] = "QUEUED"

\* Every step begins an attempt, concludes one, or is such a move.
LEMMA RowSteps ==
    ASSUME Inv, [Next]_vars
    PROVE  \/ \E p \in Posting : LaneBegins(p)
           \/ \E k \in PNum : Concluded(k)
           \/ QueueMoves
<1>0. outbox \in [Posting -> OutboxState]
  BY DEF Inv, TypeOK, LedgerTypeOK
<1>1. ASSUME NEW p \in Posting, LaneRefuses(p)
      PROVE  QueueMoves
  <2>1. outbox[p] = "QUEUED" /\ UNCHANGED attemptVars
    BY <1>1 DEF LaneRefuses, AbortBeforeSend, ReturnToReview, Decline, Claimable
  <2>2. \A q \in Posting : q # p => outbox'[q] = outbox[q]
    BY <1>0, <1>1 DEF LaneRefuses, AbortBeforeSend, ReturnToReview, Decline
  <2> QED
    BY <2>1, <2>2 DEF QueueMoves
<1>2. ASSUME NEW p \in Posting, Requeues(p)
      PROVE  QueueMoves
  BY <1>0, <1>2 DEF Requeues, RequeueParked, QueueMoves
<1>3. ASSUME NEW p \in Posting, NEW s \in Stay, GuestBuys(p, s)
      PROVE  QueueMoves
  BY <1>0, <1>3 DEF GuestBuys, CreateRoomCharge, QueueMoves
<1>4. ASSUME NEW p \in Posting, NEW a \in TerminalAction, Reviews(p, a)
      PROVE  QueueMoves
  <2>1. UNCHANGED attemptVars /\ (a = "CONFIRM_NOT_POSTED_RETRY" => review'[p].auth)
    BY <1>4, ReviewFacts
  <2>2. /\ a = "CONFIRM_NOT_POSTED_RETRY" =>
             outbox' = [outbox EXCEPT ![p] = IF @ = "HELD_RECOVERY" THEN "QUEUED" ELSE @]
        /\ a # "CONFIRM_NOT_POSTED_RETRY" => outbox' = outbox
    BY <1>4 DEF Reviews, DecideReview, TerminalAction
  <2> QED
    BY <1>0, <2>1, <2>2 DEF QueueMoves
<1>5. ASSUME FollowsOutcome \/ SiteStep \/ UNCHANGED ledgerVars
      PROVE  QueueMoves
  <2>1. UNCHANGED <<outbox, attemptVars>>
    BY <1>5 DEF FollowsOutcome, SettlementFollows, SiteStep, RecordConfirmation, AdminBlock,
       ApplyGuestRecord, SetLifecycle, Decommission, FreshnessChanges, PinnedConfigChanges,
       ledgerVars, attemptVars, queueVars
  <2> QED
    BY <2>1 DEF QueueMoves
<1> QED
  BY <1>1, <1>2, <1>3, <1>4, <1>5, ConcludeFacts, StepKinds DEF StepKind

\* A charge has at most one attempt in flight, its latest, and its row is claimed.
LEMMA SendingKept ==
    ASSUME Inv, MoneyInv, [Next]_vars
    PROVE  SendingIsLatest'
<1>0. /\ \A n \in PNum : att[n].posting \in Posting <=> n < nextP
      /\ \A n \in PNum : ~(n < nextP) => att[n] = NoAttempt
      /\ NoAttempt.outcome = "NONE"
      /\ SendingIsLatest
  BY AllocationFacts DEF NoAttempt, MoneyInv
<1>1. ASSUME NEW p \in Posting, LaneBegins(p)
      PROVE  SendingIsLatest'
  <2>1. /\ nextP \in PNum
        /\ \A n \in PNum : n # nextP => att'[n] = att[n]
        /\ att'[nextP].posting = p
        /\ \A q \in Posting : q # p => latest'[q] = latest[q] /\ outbox'[q] = outbox[q]
        /\ outbox[p] = "QUEUED" /\ outbox'[p] = "IN_FLIGHT" /\ latest'[p] = nextP
    BY <1>1, BeginFacts, ZenonT(30)
  <2> SUFFICES ASSUME NEW n \in PNum, att'[n].outcome = "SENDING"
               PROVE  outbox'[att'[n].posting] = "IN_FLIGHT" /\ latest'[att'[n].posting] = n
    BY DEF SendingIsLatest
  <2>2. CASE n = nextP
    BY <2>1, <2>2
  <2>3. CASE n # nextP
    <3>1. outbox[att[n].posting] = "IN_FLIGHT" /\ latest[att[n].posting] = n /\ att[n].posting \in Posting
      BY <1>0, <2>1, <2>3 DEF SendingIsLatest
    <3> QED
      BY <2>1, <2>3, <3>1
  <2> QED
    BY <2>2, <2>3
<1>2. ASSUME NEW k \in PNum, Concluded(k)
      PROVE  SendingIsLatest'
  <2> SUFFICES ASSUME NEW n \in PNum, att'[n].outcome = "SENDING"
               PROVE  outbox'[att'[n].posting] = "IN_FLIGHT" /\ latest'[att'[n].posting] = n
    BY DEF SendingIsLatest
  <2>1. n # k /\ att'[n] = att[n] /\ latest' = latest
    BY <1>2 DEF Concluded
  <2>2. outbox[att[n].posting] = "IN_FLIGHT" /\ latest[att[n].posting] = n /\ att[n].posting \in Posting
    BY <1>0, <2>1 DEF SendingIsLatest
  <2>3. latest[att[k].posting] = k
    BY <1>0, <1>2 DEF SendingIsLatest, Concluded
  <2> QED
    BY <1>2, <2>1, <2>2, <2>3 DEF Concluded
<1>3. CASE QueueMoves
  <2> SUFFICES ASSUME NEW n \in PNum, att'[n].outcome = "SENDING"
               PROVE  outbox'[att'[n].posting] = "IN_FLIGHT" /\ latest'[att'[n].posting] = n
    BY DEF SendingIsLatest
  <2>1. att' = att /\ latest' = latest
    BY <1>3 DEF QueueMoves, attemptVars
  <2>2. outbox[att[n].posting] = "IN_FLIGHT" /\ latest[att[n].posting] = n /\ att[n].posting \in Posting
    BY <1>0, <2>1 DEF SendingIsLatest
  <2> QED
    BY <1>3, <2>1, <2>2 DEF QueueMoves
<1> QED
  BY <1>1, <1>2, <1>3, RowSteps

\* A row enters the queue only with an attempt the retry gate admits next.
LEMMA QueuedKept ==
    ASSUME Inv, MoneyInv, [Next]_vars
    PROVE  QueuedIsSendable'
<1>0. /\ \A q \in Posting : latest[q] # 0 =>
           latest[q] \in PNum /\ att[latest[q]].posting = q /\ latest[q] < nextP
      /\ \A n \in PNum : n < nextP => outbox[att[n].posting] # "NONE" /\ att[n].outcome # "NONE"
      /\ nextP \in Nat
      /\ att \in [PNum -> Attempt]
      /\ SendingIsLatest /\ QueuedIsSendable
  BY AllocationFacts DEF MoneyInv, Inv, TypeOK, LedgerTypeOK
<1>r. ASSUME NEW q \in Posting, LastOutcome(q)' = LastOutcome(q), review'[q] = review[q], RetryGate(q)
      PROVE  RetryGate(q)'
  BY <1>r DEF RetryGate
<1>1. ASSUME NEW p \in Posting, LaneBegins(p), NEW q \in Posting, outbox'[q] = "QUEUED"
      PROVE  RetryGate(q)'
  <2>1. /\ \A n \in PNum : n # nextP => att'[n] = att[n]
        /\ \A x \in Posting : x # p => /\ review'[x] = review[x] /\ latest'[x] = latest[x]
                                       /\ outbox'[x] = outbox[x]
        /\ outbox'[p] = "IN_FLIGHT"
    BY <1>1, BeginFacts
  <2>2. q # p /\ outbox[q] = "QUEUED" /\ review'[q] = review[q] /\ latest'[q] = latest[q]
    BY <1>1, <2>1
  <2>3. LastOutcome(q)' = LastOutcome(q)
    BY <1>0, <2>1, <2>2 DEF LastOutcome
  <2> QED
    BY <1>0, <1>r, <2>2, <2>3 DEF QueuedIsSendable
<1>2. ASSUME NEW k \in PNum, Concluded(k), NEW q \in Posting, outbox'[q] = "QUEUED"
      PROVE  RetryGate(q)'
  <2>1. CASE q # att[k].posting
    <3>1. outbox[q] = "QUEUED" /\ review'[q] = review[q] /\ latest'[q] = latest[q]
      BY <1>2, <2>1 DEF Concluded
    <3>2. LastOutcome(q)' = LastOutcome(q)
      BY <1>0, <1>2, <2>1, <3>1 DEF LastOutcome, Concluded
    <3> QED
      BY <1>0, <1>r, <3>1, <3>2 DEF QueuedIsSendable
  <2>2. CASE q = att[k].posting
    <3>1. latest'[q] = k
      BY <1>0, <1>2, <2>2 DEF Concluded, SendingIsLatest
    <3>2. att'[k].outcome = "NOT_SENT"
      BY <1>2, <2>2 DEF Concluded
    <3>3. k # 0
      BY BaseConstants DEF PNum
    <3> QED
      BY <3>1, <3>2, <3>3 DEF RetryGate, LastOutcome
  <2> QED
    BY <2>1, <2>2
<1>3. ASSUME QueueMoves, NEW q \in Posting, outbox'[q] = "QUEUED"
      PROVE  RetryGate(q)'
  <2>1. UNCHANGED <<att, latest>> /\ LastOutcome(q)' = LastOutcome(q)
    BY <1>3 DEF QueueMoves, attemptVars, LastOutcome
  <2>2. LastOutcome(q) \in {"NONE", "NOT_SENT"} => RetryGate(q)'
    BY <2>1 DEF RetryGate
  <2>3. LastOutcome(q) \in Outcome
    BY <1>0 DEF LastOutcome, Attempt, Outcome
  <2>4. CASE review'[q] = review[q]
    <3>1. CASE outbox[q] = "QUEUED"
      BY <1>0, <1>r, <2>1, <2>4, <3>1 DEF QueuedIsSendable
    <3>2. CASE outbox[q] = "NONE"
      BY <1>0, <2>2, <3>2 DEF LastOutcome
    <3>3. CASE outbox[q] = "HELD_RECOVERY" /\ ~MayHaveSent(q)
      BY <1>0, <2>2, <3>3 DEF LastOutcome, MayHaveSent, AttemptsOf
    <3>4. CASE outbox[q] = "HELD_RECOVERY" /\ review[q].auth
      <4>1. LastOutcome(q) # "SENDING"
        BY <1>0, <3>4 DEF LastOutcome, SendingIsLatest
      <4> QED
        BY <2>1, <2>3, <2>4, <3>4, <4>1 DEF RetryGate, Outcome
    <3> QED
      BY <1>3, <2>4, <3>1, <3>2, <3>3, <3>4 DEF QueueMoves
  <2>5. CASE review'[q] # review[q]
    <3>1. PICK a \in TerminalAction : Reviews(q, a)
      <4>1. ~(\E p \in Posting : LaneBegins(p))
        <5> SUFFICES ASSUME NEW p \in Posting, LaneBegins(p) PROVE FALSE
          OBVIOUS
        <5>1. nextP' = nextP + 1
          BY BeginFacts
        <5> QED
          BY <1>0, <1>3, <5>1 DEF QueueMoves, attemptVars
      <4>2. PICK p \in Posting : \E a \in TerminalAction : Reviews(p, a)
        BY <2>5, <4>1, ReviewWriters
      <4>3. p = q
        BY <2>5, <4>2, ReviewFacts
      <4> QED
        BY <4>2, <4>3
    <3>2. /\ ~review[q].auth /\ (review'[q].auth <=> a = "CONFIRM_NOT_POSTED_RETRY")
      BY <3>1, ReviewFacts
    <3>3. CASE a = "CONFIRM_NOT_POSTED_RETRY"
      <4>1. LastOutcome(q) # "SENDING"
        BY <3>1, <3>3 DEF Reviews, DecideReview, ReviewAdmits
      <4> QED
        BY <2>1, <2>3, <3>2, <3>3, <4>1 DEF RetryGate, Outcome
    <3>4. CASE a # "CONFIRM_NOT_POSTED_RETRY"
      <4>1. outbox[q] = "QUEUED"
        BY <1>3, <3>1, <3>4 DEF Reviews, DecideReview, TerminalAction
      <4>2. LastOutcome(q) \in {"NONE", "NOT_SENT"}
        BY <1>0, <3>2, <4>1 DEF QueuedIsSendable, RetryGate
      <4> QED
        BY <2>2, <4>2
    <3> QED
      BY <3>3, <3>4
  <2> QED
    BY <2>4, <2>5
<1> QED
  BY <1>1, <1>2, <1>3, RowSteps DEF QueuedIsSendable

\* A settlement is granted only by a true OK of the latest attempt, or by a reviewer who
\* saw the debit.
LEMMA GrantedKept ==
    ASSUME Inv, MoneyInv, [Next]_vars
    PROVE  GrantedIsDebited'
<1>0. /\ \A q \in Posting : latest[q] # 0 => latest[q] \in PNum /\ att[latest[q]].posting = q
      /\ settlement \in [Posting -> SettlementState]
      /\ AnswersTrue /\ GrantedIsDebited
  BY AllocationFacts DEF MoneyInv, Inv, TypeOK, LedgerTypeOK
<1>1. \A p \in Posting : Debits(p) # {} => Debits(p)' # {}
  <2> TAKE p \in Posting
  <2>1. folio \subseteq folio' /\ AttemptsOf(p) \subseteq AttemptsOf(p)'
    BY FolioSteps, AttemptsKept DEF FolioMoves
  <2> QED
    BY <2>1 DEF Debits
<1> SUFFICES ASSUME NEW p \in Posting, settlement'[p] = "SETTLED"
             PROVE  Debits(p) # {}
  BY <1>1 DEF GrantedIsDebited
<1>2. CASE settlement[p] = "SETTLED"
  BY <1>0, <1>2 DEF GrantedIsDebited
<1>3. CASE settlement[p] # "SETTLED"
  <2>1. CASE FollowsOutcome
    <3>1. lane.p = p /\ SettlementTarget(p) = "SETTLED"
      <4>1. lane.p \in Posting /\ SettlementFollows(lane.p)
        BY <2>1 DEF FollowsOutcome, Inv, LaneKnows
      <4>2. CASE UNCHANGED settlement
        BY <1>3, <4>2
      <4>3. CASE settlement' = [settlement EXCEPT ![lane.p] =
                   IF settlement[lane.p] = "FAILED" THEN "FAILED" ELSE SettlementTarget(lane.p)]
        BY <1>0, <1>3, <4>1, <4>3
      <4> QED
        BY <4>1, <4>2, <4>3 DEF SettlementFollows, moneyVars
    <3>2. LastOutcome(p) = "ACKED" /\ LastAnswer(p) = "OK"
      BY <3>1 DEF SettlementTarget, AnswerEffect
    <3>3. latest[p] # 0 /\ att[latest[p]].outcome = "ACKED" /\ att[latest[p]].as = "OK"
      BY <3>2 DEF LastOutcome, LastAnswer
    <3>4. latest[p] \in folio
      BY <1>0, <3>3 DEF AnswersTrue, TrueOf
    <3> QED
      BY <1>0, <3>3, <3>4 DEF Debits, AttemptsOf
  <2>2. ASSUME NEW q \in Posting, NEW a \in TerminalAction, Reviews(q, a)
        PROVE  Debits(p) # {}
    <3>1. q = p /\ a = "CONFIRM_POSTED"
      BY <1>0, <1>3, <2>2 DEF Reviews, DecideReview, TerminalAction
    <3> QED
      BY <2>2, <3>1 DEF Reviews, Truthful
  <2>3. ASSUME NEW q \in Posting, LaneBegins(q) \/ LaneRefuses(q) \/ Requeues(q)
        PROVE  settlement'[p] # "SETTLED"
    BY <1>0, <1>3, <2>3 DEF LaneBegins, BeginAttempt, LaneRefuses, AbortBeforeSend, ReturnToReview,
       Decline, Requeues, RequeueParked, moneyVars
  <2>4. ASSUME NEW q \in Posting, NEW s \in Stay, GuestBuys(q, s)
        PROVE  settlement'[p] # "SETTLED"
    BY <1>0, <1>3, <2>4 DEF GuestBuys, CreateRoomCharge
  <2>5. ASSUME Settles \/ (\E n \in PNum : RecoversOrphan(n)) \/ SiteStep \/ UNCHANGED ledgerVars
        PROVE  UNCHANGED settlement
    BY <2>5 DEF Settles, SettleAttempt, RecoversOrphan, ConcludeOrphan, SiteStep, RecordConfirmation,
       AdminBlock, ApplyGuestRecord, SetLifecycle, Decommission, FreshnessChanges, PinnedConfigChanges,
       ledgerVars, moneyVars
  <2> QED
    BY <1>3, <2>1, <2>2, <2>3, <2>4, <2>5, StepKinds DEF StepKind
<1> QED
  BY <1>2, <1>3

\* The money invariant holds when scd and pmsd start on an empty ledger.
LEMMA InitMoney ==
    Init => MoneyInv
<1> SUFFICES ASSUME Init PROVE MoneyInv
  OBVIOUS
<1>1. FolioOnWire
  BY DEF Init, RelayInit, FolioOnWire
<1>2. RetriedAreSpent /\ SendingIsLatest /\ UsedIsAllocated
  <2>1. 0 \notin Posting
    BY LedgerConstants DEF Posting
  <2> QED
    BY <2>1 DEF Init, LedgerInit, RetriedAreSpent, SendingIsLatest, UsedIsAllocated, NoAttempt, NoReview
<1>3. AnswersTrue
  <2>1. \A n : TrueOf(n, "none")
    BY BaseConstants, RoomChargeConstants DEF TrueOf
  <2>2. /\ \A n \in PNum : pa[n] = "none" /\ answer[n].as = "none" /\ resp[n].pa.as = "none"
        /\ \A n \in PNum : att[n].outcome # "ACKED"
        /\ lane.pc = "idle" /\ confirmed = {}
    BY RoomChargeConstants
    DEF Init, RelayInit, LedgerInit, NoPA, NoResponse, NoAttempt, IdleLane
  <2> QED
    BY <2>1, <2>2 DEF AnswersTrue, TrueOf
<1>4. QueuedIsSendable /\ GrantedIsDebited
  BY DEF Init, LedgerInit, QueuedIsSendable, GrantedIsDebited
<1> QED
  BY <1>1, <1>2, <1>3, <1>4 DEF MoneyInv

\* The money invariant is inductive beside Inv.
LEMMA NextMoney ==
    ASSUME Inv, MoneyInv, [Next]_vars
    PROVE  MoneyInv'
<1>1. FolioOnWire' /\ RetriedAreSpent' /\ UsedIsAllocated' /\ AnswersTrue'
  BY FolioKept, RetriedKept, AnswersKept
<1>2. SendingIsLatest' /\ QueuedIsSendable' /\ GrantedIsDebited'
  BY SendingKept, QueuedKept, GrantedKept
<1> QED
  BY <1>1, <1>2 DEF MoneyInv

\* What was authorised again, answered, queued and granted is so for good reason, at
\* every moment of every execution.
THEOREM MoneyInvariance == Spec => []MoneyInv
BY InitMoney, NextMoney, Invariance, PTL DEF Spec

\* A room charge is debited to the guest's folio at most once, for any number of
\* attempts, crashes, lost answers and retries: the second of two debits would need the
\* audited retry, which is given only when the first attempts are spent and not on the folio.
THEOREM DebitedOnce == Spec => []DebitedAtMostOnce
<1>1. ASSUME Inv, MoneyInv
      PROVE  DebitedAtMostOnce
  <2>1. ASSUME NEW p \in Posting, NEW m \in Debits(p), NEW n \in Debits(p), m < n
        PROVE  FALSE
    <3>1. /\ m \in PNum /\ n \in PNum /\ att[m].posting = p /\ att[n].posting = p
          /\ m \in folio /\ m \in onWire
      BY <1>1, <2>1 DEF Debits, AttemptsOf, MoneyInv, FolioOnWire
    <3>2. att[m].outcome # "NOT_SENT"
      BY <1>1, <3>1 DEF Inv, NotSentIsOver
    <3>3. m < review[p].used
      BY <1>1, <2>1, <3>1, <3>2 DEF Inv, AuthorisedInTurn
    <3> QED
      BY <1>1, <3>1, <3>3 DEF MoneyInv, RetriedAreSpent
  <2>2. \A p \in Posting : \A m, n \in Debits(p) : m \in Nat /\ n \in Nat
    BY BaseConstants DEF Debits, AttemptsOf, PNum
  <2>3. \A p \in Posting : \A m, n \in Debits(p) : m < n \/ n < m \/ m = n
    BY <2>2
  <2> QED
    BY <2>1, <2>3 DEF DebitedAtMostOnce
<1> QED
  BY <1>1, Invariance, MoneyInvariance, PTL

\* Access is granted only against a debit: every SETTLED settlement has its folio entry,
\* whether the outcome function, recovery, catch-up or a reviewer settled it.
THEOREM GrantedAgainstDebit == Spec => []GrantedIsDebited
<1>1. MoneyInv => GrantedIsDebited
  BY DEF MoneyInv
<1> QED
  BY <1>1, MoneyInvariance, PTL

\* The lane cannot wedge on its head: the retry gate admits the next attempt of every
\* QUEUED row, however the row got back into the queue.
THEOREM QueueNeverWedges == Spec => []QueuedIsSendable
<1>1. MoneyInv => QueuedIsSendable
  BY DEF MoneyInv
<1> QED
  BY <1>1, MoneyInvariance, PTL

-----------------------------------------------------------------------------
(* The room on the wire *)

\* No step leaves the relay's view behind the PMS while the link is in use.
LEMMA ViewKept ==
    ASSUME Inv, ViewIsCurrent, [Next]_vars
    PROVE  ViewIsCurrent'
<1>0. /\ link \in LinkState /\ seen \in [Stay -> Room \cup {Away, Unseen}]
      /\ pmsRoom \in [Stay -> Room \cup {Away}] /\ inbox \in [Stay -> Room \cup {Away}]
  BY DEF Inv, TypeOK, RelayTypeOK
<1>1. ASSUME UNCHANGED <<seen, inbox, pmsRoom>>,
             link' \in {"STEADY", "RESYNC", "BROKEN"} => link \in {"STEADY", "RESYNC", "BROKEN"}
      PROVE  ViewIsCurrent'
  BY <1>1 DEF ViewIsCurrent
<1>2. ASSUME link' \in {"DOWN", "INITIAL", "DETACHING"}
      PROVE  ViewIsCurrent'
  BY <1>2 DEF ViewIsCurrent
<1>3. CASE SweepEnds
  <2>1. /\ pmsRoom' = pmsRoom /\ inbox' = pmsRoom
        /\ \A s \in Stay : pmsRoom[s] # Away => seen'[s] = pmsRoom[s]
    BY <1>3 DEF SweepEnds, ResyncEnds
  <2> QED
    BY <2>1 DEF ViewIsCurrent
<1>4. ASSUME NEW s \in Stay, NEW r \in Room \cup {Away}, GuestMoves(s, r)
      PROVE  ViewIsCurrent'
  <2>1. CASE link \in {"DOWN", "DETACHING"}
    BY <1>2, <1>4, <2>1 DEF GuestMoves, relayVars
  <2>2. CASE link \notin {"DOWN", "DETACHING"}
    BY <1>0, <1>4, <2>2 DEF GuestMoves, Observe, ViewIsCurrent
  <2> QED
    BY <2>1, <2>2
<1>5. ASSUME NEW n \in PNum, Asks(n) \/ AuthoriserUnavailable(n) \/ RelayStep(n) \/ WriterStep(n)
                             \/ WriterBreaks(n) \/ PaArrives(n)
      PROVE  ViewIsCurrent'
  BY <1>1, <1>5 DEF Asks, AuthoriserUnavailable, RelayStep, WriterStep, WriterBreaks, PaArrives, Authorise,
     CheckCarried, Register, Submit, WriterGone, TakeAnswer, GiveUp, GuardRefuses, Write, WriteFails,
     DeliverPA, envVars, linkVars
<1>6. ASSUME LinkCycles \/ LinkStep \/ LinkLost
      PROVE  ViewIsCurrent'
  BY <1>1, <1>2, <1>6 DEF LinkCycles, LinkStep, LinkLost, LinkUp, DetachEnds, ResyncBegins, WriterEnds,
     ResyncUnanswered, LinkDown, RelayStops, envVars
<1>7. ASSUME LaneStep \/ UNCHANGED vars
      PROVE  ViewIsCurrent'
  <2>1. UNCHANGED <<seen, inbox, pmsRoom, link>>
    BY <1>7 DEF LaneStep, LaneBegins, LaneRefuses, DialFails, HandsOff, GetsResponse, LosesConnection,
       ResponseLost, Settles, FollowsOutcome, WorkerStops, RecoversOrphan, CatchesUp, relayVars,
       envVars, Receive, vars, linkVars
  <2> QED
    BY <1>1, <2>1
<1>8. ASSUME EnvStep, ~(\E s \in Stay : \E r \in Room \cup {Away} : GuestMoves(s, r))
      PROVE  ViewIsCurrent'
  <2>1. UNCHANGED <<seen, inbox, pmsRoom, link>>
    BY <1>8 DEF EnvStep, PmsSilent, PmsAnswers, FeedApplied, Blocks, Requeues,
         GuestBuys, Reviews, Confirms, LifecycleSet, Retires, AxisChanges, relayVars, envVars
  <2> QED
    BY <1>1, <2>1
<1> QED
  BY <1>3, <1>4, <1>5, <1>6, <1>7, <1>8 DEF Next, PmsdStep

\* The room on the wire is the one the PMS announced last for a guest in house, however
\* rooms, links and resyncs changed between building the command and its first byte.
THEOREM RoomOnWire == Spec => WrittenRoomIsAnnounced
<1>1. Init => ViewIsCurrent
  BY DEF Init, RelayInit, ViewIsCurrent
<1>2. ASSUME Inv, ViewIsCurrent, [Next]_vars
      PROVE  [link # "DETACHING" =>
                 \A n \in onWire' \ onWire :
                    LET s == stayOf[att[n].posting] IN
                    pmsRoom[s] # Away => att[n].rn = inbox[s]]_vars
  <2> SUFFICES ASSUME link # "DETACHING", NEW n \in onWire' \ onWire,
                      pmsRoom[stayOf[att[n].posting]] # Away
               PROVE  att[n].rn = inbox[stayOf[att[n].posting]]
    OBVIOUS
  <2> DEFINE s == stayOf[att[n].posting]
  <2>1. PICK c \in PNum : WriterStep(c) \/ WriterBreaks(c)
    <3>1. CASE LaneStep \/ UNCHANGED vars
      BY <3>1 DEF LaneStep, LaneBegins, LaneRefuses, DialFails, HandsOff, GetsResponse, LosesConnection,
         ResponseLost, Settles, FollowsOutcome, WorkerStops, RecoversOrphan, CatchesUp, relayVars,
         Receive, vars
    <3>2. CASE EnvStep
      BY <3>2 DEF EnvStep, PmsSilent, PmsAnswers, FeedApplied, Blocks, GuestMoves, Observe, Requeues,
         GuestBuys, Reviews, Confirms, LifecycleSet, Retires, AxisChanges, relayVars
    <3>3. CASE PmsdStep
      BY <3>3 DEF PmsdStep, Asks, AuthoriserUnavailable, RelayStep, PaArrives, LinkCycles,
         SweepEnds, LinkStep, LinkLost, Authorise, CheckCarried, Register, Submit,
         WriterGone, TakeAnswer, GiveUp, DeliverPA, LinkUp, DetachEnds,
         ResyncEnds, ResyncBegins, WriterEnds, ResyncUnanswered, LinkDown, RelayStops
    <3> QED
      BY <1>2, <3>1, <3>2, <3>3 DEF Next
  <2>2. hs[c] = "enqueued" /\ onWire' \subseteq onWire \cup {cmd[c]}
        /\ GuardCode(c, stayOf[att[c].posting], att[c].rn) = ""
    BY <2>1 DEF WriterStep, WriterBreaks, GuardRefuses, Write, WriteFails
  <2>3. n = c /\ c < nextP
    BY <1>2, <2>2 DEF Inv, HandlersKnow
  <2>4. s \in Stay /\ seen[s] \in Room \cup {Away, Unseen} /\ pmsRoom[s] \in Room
    <3>1. att[c].posting \in Posting /\ outbox[att[c].posting] # "NONE"
      BY <1>2, <2>3, AllocationFacts
    <3>2. s \in Stay
      BY <1>2, <2>3, <3>1 DEF Inv, ChargesHaveStays
    <3> QED
      BY <1>2, <3>2 DEF Inv, TypeOK, RelayTypeOK
  <2>5. link = "STEADY" /\ seen[s] \notin Room \ {att[n].rn}
    BY <2>2, <2>3 DEF GuardCode
  <2>6. seen[s] = pmsRoom[s] /\ inbox[s] = pmsRoom[s]
    BY <1>2, <2>4, <2>5 DEF ViewIsCurrent
  <2> QED
    BY <2>4, <2>5, <2>6
<1> QED
  BY <1>1, <1>2, ViewKept, Invariance, PTL DEF Spec, WrittenRoomIsAnnounced

-----------------------------------------------------------------------------
(* The contract, where reviewers decide on rows at rest *)

\* A row that will be attempted is of an open charge, and no charge is closed under it.
LEMMA RowsKept ==
    ASSUME Inv, MoneyInv, ContractInv, [Next]_vars, ReviewScope = "AtRest"
    PROVE  RowsOpen'
<1>0. /\ outbox \in [Posting -> OutboxState] /\ settlement \in [Posting -> SettlementState]
      /\ parked \in SUBSET Posting /\ RowsOpen /\ AckedIsDone
      /\ \A n \in PNum : n < nextP => outbox[att[n].posting] # "NONE"
      /\ \A q \in Posting : latest[q] # 0 =>
           latest[q] \in PNum /\ att[latest[q]].posting = q /\ latest[q] < nextP
      /\ nextP \in Nat /\ \A n \in PNum : n # 0
  BY AllocationFacts DEF ContractInv, Inv, TypeOK, LedgerTypeOK
<1> DEFINE Row(p) ==
             /\ (settlement[p] = "NONE") <=> (outbox[p] = "NONE")
             /\ outbox[p] \in {"QUEUED", "IN_FLIGHT"} \/ p \in parked => RoomChargeOpen(p)
             /\ p \in parked => outbox[p] = "HELD_RECOVERY"
             /\ outbox[p] = "HELD_RECOVERY" => RoomChargeOpen(p) \/ review[p].term # "none"
           Decided(p) == review[p].auth \/ review[p].used # 0 => review[p].term = "CONFIRM_NOT_POSTED_RETRY"
<1>r. \A p \in Posting : Row(p) /\ Decided(p)
  BY <1>0 DEF RowsOpen
<1>1. \A p \in Posting : Decided(p)'
  <2>1. ASSUME NEW p \in Posting, LaneBegins(p)
        PROVE  \A q \in Posting : Decided(q)'
    <3>1. /\ \A q \in Posting : q # p => review'[q] = review[q]
          /\ review'[p].term = review[p].term
          /\ ~review[p].auth => review'[p] = review[p]
      BY <2>1, BeginFacts
    <3> QED
      BY <1>r, <3>1
  <2>2. ASSUME NEW p \in Posting, NEW a \in TerminalAction, Reviews(p, a)
        PROVE  \A q \in Posting : Decided(q)'
    <3>1. /\ \A q \in Posting : q # p => review'[q] = review[q]
          /\ review'[p].term = a /\ review'[p].used = 0
          /\ review'[p].auth <=> a = "CONFIRM_NOT_POSTED_RETRY"
      BY <2>2, ReviewFacts
    <3> QED
      BY <1>r, <3>1
  <2>3. ASSUME UNCHANGED review
        PROVE  \A q \in Posting : Decided(q)'
    BY <1>r, <2>3
  <2> QED
    BY <2>1, <2>2, <2>3, ReviewWriters
<1>s. ASSUME NEW q \in Posting, settlement'[q] = settlement[q], outbox'[q] = outbox[q],
             q \in parked' <=> q \in parked, review'[q].term = review[q].term \/ review'[q].term # "none"
      PROVE  Row(q)'
  BY <1>r, <1>s DEF RoomChargeOpen
<1>2. \A q \in Posting : Row(q)'
  <2>1. ASSUME NEW p \in Posting, LaneBegins(p), NEW q \in Posting
        PROVE  Row(q)'
    <3>1. /\ \A x \in Posting : x # p => review'[x] = review[x] /\ outbox'[x] = outbox[x]
          /\ outbox[p] = "QUEUED" /\ outbox'[p] = "IN_FLIGHT" /\ review'[p].term = review[p].term
      BY <2>1, BeginFacts, ZenonT(30)
    <3>2. UNCHANGED <<settlement, parked>>
      BY <2>1 DEF LaneBegins, BeginAttempt, moneyVars
    <3> QED
      BY <1>r, <3>1, <3>2 DEF RoomChargeOpen
  <2>2. ASSUME NEW p \in Posting, LaneRefuses(p), NEW q \in Posting
        PROVE  Row(q)'
    <3>1. outbox[p] = "QUEUED" /\ UNCHANGED review /\ p \notin parked
      BY <1>r, <2>2 DEF LaneRefuses, AbortBeforeSend, ReturnToReview, Decline, Claimable
    <3>2. q # p => settlement'[q] = settlement[q] /\ outbox'[q] = outbox[q] /\ (q \in parked' <=> q \in parked)
      BY <1>0, <2>2 DEF LaneRefuses, AbortBeforeSend, ReturnToReview, Decline, moneyVars
    <3>3. CASE q # p
      BY <1>s, <3>1, <3>2, <3>3
    <3>4. CASE q = p
      <4>1. RoomChargeOpen(p)
        BY <1>r, <3>1
      <4>2. CASE AbortBeforeSend(p)
        BY <1>0, <3>1, <3>4, <4>1, <4>2 DEF AbortBeforeSend, RoomChargeOpen
      <4>3. CASE ReturnToReview(p)
        BY <1>0, <3>1, <3>4, <4>1, <4>3 DEF ReturnToReview, RoomChargeOpen, moneyVars
      <4>4. CASE Decline(p)
        <5>1. UNCHANGED settlement
          BY <4>4 DEF Decline, moneyVars
        <5>2. \/ UNCHANGED <<outbox, parked>>
              \/ outbox'[p] = "HELD_RECOVERY"
          BY <1>0, <4>4 DEF Decline
        <5> QED
          BY <1>r, <3>1, <3>4, <4>1, <5>1, <5>2 DEF RoomChargeOpen
      <4> QED
        BY <2>2, <4>2, <4>3, <4>4 DEF LaneRefuses
    <3> QED
      BY <3>3, <3>4
  <2>3. ASSUME NEW p \in Posting, Requeues(p), NEW q \in Posting
        PROVE  Row(q)'
    <3>1. /\ outbox[p] = "HELD_RECOVERY" /\ p \in parked /\ UNCHANGED <<settlement, review>>
          /\ outbox' = [outbox EXCEPT ![p] = "QUEUED"] /\ parked' = parked \ {p}
      BY <2>3 DEF Requeues, RequeueParked, moneyVars
    <3> QED
      BY <1>0, <1>r, <3>1 DEF RoomChargeOpen
  <2>4. ASSUME NEW p \in Posting, NEW s \in Stay, GuestBuys(p, s), NEW q \in Posting
        PROVE  Row(q)'
    <3>1. /\ outbox[p] = "NONE" /\ UNCHANGED <<parked, review>>
          /\ outbox' = [outbox EXCEPT ![p] = "QUEUED"]
          /\ settlement' = [settlement EXCEPT ![p] = "IN_PROGRESS"]
      BY <2>4 DEF GuestBuys, CreateRoomCharge
    <3> QED
      BY <1>0, <1>r, <3>1 DEF RoomChargeOpen
  <2>5. ASSUME NEW p \in Posting, NEW a \in TerminalAction, Reviews(p, a), NEW q \in Posting
        PROVE  Row(q)'
    <3>1. /\ \A x \in Posting : x # p => review'[x] = review[x]
          /\ review[p].term = "none" /\ review'[p].term = a /\ a # "none" /\ UNCHANGED parked
      BY <2>5, ReviewFacts DEF TerminalAction
    <3>2. outbox[p] \in {"HELD_RECOVERY", "DONE"} /\ p \notin parked
      BY <2>5 DEF Reviews, AtRest
    <3>3. q # p => settlement'[q] = settlement[q] /\ outbox'[q] = outbox[q]
      BY <1>0, <2>5 DEF Reviews, DecideReview, TerminalAction
    <3>4. CASE q # p
      BY <1>s, <3>1, <3>3, <3>4
    <3>5. CASE q = p
      <4>1. CASE a = "CONFIRM_NOT_POSTED_RETRY"
        <5>1. /\ UNCHANGED settlement
              /\ outbox' = [outbox EXCEPT ![p] = IF @ = "HELD_RECOVERY" THEN "QUEUED" ELSE @]
          BY <2>5, <4>1 DEF Reviews, DecideReview
        <5> QED
          BY <1>0, <1>r, <3>1, <3>2, <3>5, <5>1 DEF RoomChargeOpen
      <4>2. CASE a # "CONFIRM_NOT_POSTED_RETRY"
        <5>1. /\ UNCHANGED outbox
              /\ settlement'[p] = settlement[p] \/ settlement'[p] \in {"SETTLED", "FAILED"}
          BY <1>0, <2>5, <4>2 DEF Reviews, DecideReview, TerminalAction
        <5>2. settlement[p] # "NONE"
          BY <1>r, <3>2
        <5> QED
          BY <1>r, <3>1, <3>2, <3>5, <5>1, <5>2 DEF RoomChargeOpen
      <4> QED
        BY <4>1, <4>2
    <3> QED
      BY <3>4, <3>5
  <2>6. ASSUME NEW k \in PNum, Concluded(k), NEW q \in Posting
        PROVE  Row(q)'
    <3>1. outbox[att[k].posting] = "IN_FLIGHT"
      BY <2>6 DEF Concluded, MoneyInv, SendingIsLatest
    <3>2. CASE q # att[k].posting
      BY <1>s, <2>6, <3>2 DEF Concluded
    <3>3. CASE q = att[k].posting
      <4>1. RoomChargeOpen(q) /\ q \notin parked /\ settlement[q] # "NONE"
        BY <1>r, <3>1, <3>3
      <4>2. outbox'[q] \in {"DONE", "QUEUED", "HELD_RECOVERY"} /\ UNCHANGED <<settlement, parked>>
        BY <2>6, <3>3 DEF Concluded
      <4> QED
        BY <4>1, <4>2 DEF RoomChargeOpen
    <3> QED
      BY <3>2, <3>3
  <2>7. ASSUME FollowsOutcome, NEW q \in Posting
        PROVE  Row(q)'
    <3>1. UNCHANGED <<outbox, parked, review>> /\ lane.p \in Posting /\ SettlementFollows(lane.p)
      BY <2>7 DEF FollowsOutcome, SettlementFollows, queueVars, Inv, LaneKnows
    <3>2. CASE UNCHANGED settlement
      BY <1>s, <3>1, <3>2
    <3>3. CASE settlement' # settlement
      <4>1. /\ SettlementTarget(lane.p) # "none"
            /\ settlement' = [settlement EXCEPT ![lane.p] =
                 IF settlement[lane.p] = "FAILED" THEN "FAILED" ELSE SettlementTarget(lane.p)]
        BY <3>1, <3>3 DEF SettlementFollows, moneyVars
      <4>2. CASE q # lane.p
        BY <1>0, <1>s, <3>1, <4>1, <4>2
      <4>3. CASE q = lane.p
        <5>1. LastOutcome(q) \in {"ACKED", "UNKNOWN"} /\ SettlementTarget(q) \in {"SETTLED", "FAILED", "MANUAL_REVIEW"}
          BY <4>1, <4>3 DEF SettlementTarget
        <5>2. latest[q] \in PNum /\ att[latest[q]].posting = q /\ outbox[q] # "NONE"
          BY <1>0, <5>1 DEF LastOutcome
        <5>3. CASE SettlementTarget(q) = "MANUAL_REVIEW"
          BY <1>0, <1>r, <3>1, <4>1, <4>3, <5>2, <5>3 DEF RoomChargeOpen
        <5>4. CASE SettlementTarget(q) # "MANUAL_REVIEW"
          <6>1. LastOutcome(q) = "ACKED" /\ latest[q] # 0
            BY <5>1, <5>4 DEF SettlementTarget, LastOutcome
          <6>2. outbox[q] = "DONE"
            BY <1>0, <5>2, <6>1 DEF AckedIsDone, LastOutcome
          <6>3. settlement'[q] # "NONE"
            BY <1>0, <4>1, <4>3, <5>1
          <6> QED
            BY <1>r, <3>1, <6>2, <6>3
        <5> QED
          BY <5>3, <5>4
      <4> QED
        BY <4>2, <4>3
    <3> QED
      BY <3>2, <3>3
  <2>8. ASSUME SiteStep \/ UNCHANGED ledgerVars, NEW q \in Posting
        PROVE  Row(q)'
    <3>1. UNCHANGED <<outbox, parked, review, settlement>>
      BY <2>8 DEF SiteStep, RecordConfirmation, AdminBlock, ApplyGuestRecord, SetLifecycle,
         Decommission, FreshnessChanges, PinnedConfigChanges, ledgerVars, queueVars, moneyVars
    <3> QED
      BY <1>s, <3>1
  <2>9. ASSUME Settles \/ \E n \in PNum : RecoversOrphan(n)
        PROVE  \A q \in Posting : Row(q)'
    BY <2>6, <2>9, ConcludeFacts
  <2> HIDE DEF Row
  <2> QED
    BY <2>1, <2>2, <2>3, <2>4, <2>5, <2>7, <2>8, <2>9, StepKinds DEF StepKind
<1> QED
  BY <1>1, <1>2 DEF RowsOpen

\* A row of an acknowledged charge is done for good.
LEMMA AckedKept ==
    ASSUME Inv, MoneyInv, ContractInv, [Next]_vars
    PROVE  AckedIsDone'
<1>0. /\ AckedIsDone /\ SendingIsLatest
      /\ \A n \in PNum : att[n].posting \in Posting <=> n < nextP
      /\ \A n \in PNum : ~(n < nextP) => att[n] = NoAttempt
      /\ NoAttempt.outcome = "NONE"
  BY AllocationFacts DEF ContractInv, MoneyInv, NoAttempt
<1>1. ASSUME NEW p \in Posting, LaneBegins(p)
      PROVE  AckedIsDone'
  <2>1. /\ \A n \in PNum : n # nextP => att'[n] = att[n]
        /\ att'[nextP].outcome = "SENDING"
        /\ \A q \in Posting : q # p => outbox'[q] = outbox[q]
        /\ outbox[p] = "QUEUED"
    BY <1>1, BeginFacts
  <2> SUFFICES ASSUME NEW n \in PNum, att'[n].outcome = "ACKED" PROVE outbox'[att'[n].posting] = "DONE"
    BY DEF AckedIsDone
  <2>2. att'[n] = att[n] /\ outbox[att[n].posting] = "DONE" /\ att[n].posting \in Posting
    BY <1>0, <2>1 DEF AckedIsDone
  <2> QED
    BY <2>1, <2>2
<1>2. ASSUME NEW k \in PNum, Concluded(k)
      PROVE  AckedIsDone'
  <2> SUFFICES ASSUME NEW n \in PNum, att'[n].outcome = "ACKED" PROVE outbox'[att'[n].posting] = "DONE"
    BY DEF AckedIsDone
  <2>1. CASE n = k
    BY <1>2, <2>1 DEF Concluded
  <2>2. CASE n # k
    <3>1. att'[n] = att[n] /\ outbox[att[n].posting] = "DONE" /\ att[n].posting \in Posting
      BY <1>0, <1>2, <2>2 DEF AckedIsDone, Concluded
    <3>2. outbox[att[k].posting] = "IN_FLIGHT"
      BY <1>0, <1>2 DEF Concluded, SendingIsLatest
    <3> QED
      BY <1>2, <3>1, <3>2 DEF Concluded
  <2> QED
    BY <2>1, <2>2
<1>3. CASE QueueMoves
  <2> SUFFICES ASSUME NEW n \in PNum, att'[n].outcome = "ACKED" PROVE outbox'[att'[n].posting] = "DONE"
    BY DEF AckedIsDone
  <2>1. att'[n] = att[n] /\ outbox[att[n].posting] = "DONE" /\ att[n].posting \in Posting
    BY <1>0, <1>3 DEF AckedIsDone, QueueMoves, attemptVars
  <2> QED
    BY <1>3, <2>1 DEF QueueMoves
<1> QED
  BY <1>1, <1>2, <1>3, RowSteps

\* An attempt is spent as soon as it is NOT_SENT, or before an authorised one.
LEMMA EarlierSpent ==
    ASSUME Inv, MoneyInv, NEW p \in Posting, NEW d \in PNum, NEW n \in PNum,
           att[d].posting = p, att[n].posting = p, n < d
    PROVE  Spent(n) /\ n \notin folio
<1>1. CASE att[n].outcome = "NOT_SENT"
  BY <1>1 DEF Inv, NotSentIsOver, MoneyInv, FolioOnWire, Spent
<1>2. CASE att[n].outcome # "NOT_SENT"
  <2>1. n < review[p].used
    BY <1>2 DEF Inv, AuthorisedInTurn
  <2> QED
    BY <2>1 DEF MoneyInv, RetriedAreSpent
<1> QED
  BY <1>1, <1>2

\* A charge is closed only when none of its attempts can still reach the PMS or the
\* folio, and failed only when none is on it.
LEMMA ClosedKept ==
    ASSUME Inv, MoneyInv, ContractInv, [Next]_vars, ReviewScope = "AtRest"
    PROVE  ClosedIsSpent'
<1>0. /\ settlement \in [Posting -> SettlementState]
      /\ \A n \in PNum : n \in Nat
      /\ nextP \in Nat
      /\ \A n \in PNum : att[n].posting \in Posting <=> n < nextP
      /\ \A q \in Posting : latest[q] \in Nat
      /\ \A q \in Posting : latest[q] # 0 => latest[q] \in PNum /\ att[latest[q]].posting = q
      /\ \A n \in PNum : att[n].posting \in Posting => n <= latest[att[n].posting]
      /\ FolioOnWire /\ AnswersTrue
  BY AllocationFacts DEF Inv, TypeOK, LedgerTypeOK, LatestIsLast, MoneyInv
<1> DEFINE Closed(n, status) == Spent(n) /\ (status = "FAILED" => n \notin folio)
\* What is closed stays spent; so it is enough to look at the charge that is closed now.
<1>1. ASSUME NEW n \in PNum, n < nextP, NEW st, Closed(n, st)
      PROVE  Closed(n, st)'
  <2>1. Spent(n)'
    BY <1>1, SpentStays
  <2>2. n \notin onWire \ processed
    BY <1>1 DEF Spent
  <2> QED
    BY <1>1, <2>1, <2>2, FolioSteps DEF FolioMoves
<1>2. ASSUME NEW n \in PNum, n < nextP, att[n].posting \in Posting,
             settlement[att[n].posting] \in {"SETTLED", "FAILED"}
      PROVE  Closed(n, settlement[att[n].posting])
  BY <1>2 DEF ContractInv, ClosedIsSpent
<1>3. ASSUME NEW p \in Posting, NEW st \in {"SETTLED", "FAILED"},
             settlement'[p] = st, settlement[p] # st,
             NEW n \in PNum, att[n].posting = p
      PROVE  Closed(n, st)
  <2>1. ASSUME NEW q \in Posting, LaneRefuses(q)
        PROVE  Closed(n, st)
    <3>1. q = p /\ AbortBeforeSend(p)
      BY <1>0, <1>3, <2>1 DEF LaneRefuses, AbortBeforeSend, ReturnToReview, Decline, moneyVars
    <3>2. att[n].outcome = "NOT_SENT"
      BY <1>3, <3>1 DEF AbortBeforeSend, MayHaveSent, AttemptsOf
    <3> QED
      BY <1>0, <3>2 DEF Inv, NotSentIsOver, Spent, FolioOnWire
  <2>2. CASE FollowsOutcome
    <3>1. lane.p = p /\ SettlementTarget(p) = st
      <4>1. lane.p \in Posting /\ SettlementFollows(lane.p)
        BY <2>2 DEF FollowsOutcome, Inv, LaneKnows
      <4>2. CASE UNCHANGED settlement
        BY <1>3, <4>2
      <4>3. CASE settlement' = [settlement EXCEPT ![lane.p] =
                   IF settlement[lane.p] = "FAILED" THEN "FAILED" ELSE SettlementTarget(lane.p)]
        BY <1>0, <1>3, <4>1, <4>3
      <4> QED
        BY <4>1, <4>2, <4>3 DEF SettlementFollows, moneyVars
    <3>2. LastOutcome(p) = "ACKED" /\ latest[p] # 0
      BY <1>3, <3>1 DEF SettlementTarget, LastOutcome
    <3> DEFINE d == latest[p]
    <3>3. d \in PNum /\ att[d].posting = p /\ att[d].outcome = "ACKED" /\ n <= d
      BY <1>0, <1>3, <3>2 DEF LastOutcome
    <3>4. IF st = "SETTLED" THEN att[d].as = "OK" ELSE att[d].as \in NotPosted
      <4>1. CASE st = "SETTLED"
        BY <3>1, <3>2, <4>1 DEF SettlementTarget, AnswerEffect, LastAnswer
      <4>2. CASE st = "FAILED"
        <5>1. AnswerEffect(confirmed, LastAnswer(p)) \notin {"POSTED", "UNPROVEN"}
          BY <3>1, <4>2 DEF SettlementTarget
        <5>2. LastAnswer(p) \in confirmed
          BY <5>1 DEF AnswerEffect
        <5> QED
          BY <1>0, <3>2, <4>2, <5>2 DEF LastAnswer, AnswersTrue
      <4> QED
        BY <1>3, <4>1, <4>2
    <3>5. Closed(d, st)
      <4>1. TrueOf(d, att[d].as)
        BY <1>0, <3>3 DEF AnswersTrue
      <4> QED
        BY <1>0, <1>3, <3>4, <4>1 DEF TrueOf, Spent, FolioOnWire
    <3>6. CASE n < d
      BY <1>3, <3>3, <3>6, EarlierSpent
    <3> QED
      BY <1>0, <3>3, <3>5, <3>6
  <2>3. ASSUME NEW q \in Posting, NEW a \in TerminalAction, Reviews(q, a)
        PROVE  Closed(n, st)
    <3>1. q = p /\ (st = "SETTLED" => a = "CONFIRM_POSTED") /\ (st = "FAILED" => a = "CONFIRM_NOT_POSTED_ABANDON")
      BY <1>0, <1>3, <2>3 DEF Reviews, DecideReview, TerminalAction
    <3>2. review[p].used = 0
      BY <2>3, <3>1, ReviewFacts
    <3>3. CASE st = "FAILED"
      <4>1. Quiet(p) /\ Debits(p) = {}
        BY <2>3, <3>1, <3>3 DEF Reviews, Truthful
      <4> QED
        BY <1>3, <4>1 DEF Quiet, Debits, AttemptsOf, Spent
    <3>4. CASE st = "SETTLED"
      <4>1. PICK d : d \in Debits(p)
        BY <2>3, <3>1, <3>4 DEF Reviews, Truthful
      <4>2. d \in PNum /\ att[d].posting = p /\ d \in processed /\ d \in onWire
        BY <1>0, <4>1 DEF Debits, AttemptsOf, FolioOnWire
      <4>3. ~(d < n)
        <5>1. att[d].outcome # "NOT_SENT"
          BY <4>2 DEF Inv, NotSentIsOver
        <5>2. d < n => d < 0
          BY <1>3, <3>2, <4>2, <5>1 DEF Inv, AuthorisedInTurn
        <5> QED
          BY <1>0, <4>2, <5>2
      <4>4. n = d => Spent(n)
        BY <4>2 DEF Spent
      <4>5. n < d => Spent(n)
        BY <1>3, <4>2, EarlierSpent
      <4> QED
        BY <1>0, <3>4, <4>2, <4>3, <4>4, <4>5
    <3> QED
      BY <1>3, <3>3, <3>4
  <2>4. ASSUME NEW q \in Posting, LaneBegins(q) \/ Requeues(q)
        PROVE  UNCHANGED settlement
    BY <2>4 DEF LaneBegins, BeginAttempt, Requeues, RequeueParked, moneyVars
  <2>5. ASSUME NEW q \in Posting, NEW s \in Stay, GuestBuys(q, s)
        PROVE  settlement'[p] # st
    BY <1>0, <1>3, <2>5 DEF GuestBuys, CreateRoomCharge
  <2>6. ASSUME Settles \/ (\E k \in PNum : RecoversOrphan(k)) \/ SiteStep \/ UNCHANGED ledgerVars
        PROVE  UNCHANGED settlement
    BY <2>6 DEF Settles, SettleAttempt, RecoversOrphan, ConcludeOrphan, SiteStep, RecordConfirmation,
       AdminBlock, ApplyGuestRecord, SetLifecycle, Decommission, FreshnessChanges, PinnedConfigChanges,
       ledgerVars, moneyVars
  <2> HIDE DEF Closed
  <2> QED
    BY <1>3, <2>1, <2>2, <2>3, <2>4, <2>5, <2>6, StepKinds DEF StepKind
<1>4. SUFFICES ASSUME NEW n \in PNum, att'[n].posting \in Posting, NEW st,
                      st = settlement'[att'[n].posting], st \in {"SETTLED", "FAILED"}
               PROVE  Closed(n, st)'
  BY DEF ClosedIsSpent
<1>5. CASE n < nextP
  <2>1. att'[n].posting = att[n].posting /\ att[n].posting \in Posting
    BY <1>0, <1>5, AttemptsKept
  <2>2. Closed(n, st)
    <3> HIDE DEF Closed
    <3> QED
      BY <1>2, <1>3, <1>4, <1>5, <2>1
  <2> HIDE DEF Closed
  <2> QED
    BY <1>1, <1>5, <2>2
<1>6. CASE ~(n < nextP)
  <2>1. PICK p \in Posting : LaneBegins(p)
    <3>1. ASSUME QueueMoves \/ \E k \in PNum : Concluded(k)
          PROVE  att'[n].posting = att[n].posting
      BY <3>1 DEF QueueMoves, attemptVars, Concluded
    <3> QED
      BY <1>0, <1>4, <1>6, <3>1, RowSteps
  <2>2. att'[n].posting = p
    <3>1. /\ \A k \in PNum : k # nextP => att'[k] = att[k]
          /\ att'[nextP].posting = p
      BY <2>1, BeginFacts
    <3> QED
      BY <1>0, <1>4, <1>6, <3>1
  <2>3. settlement' = settlement /\ outbox[p] = "QUEUED"
    BY <2>1 DEF LaneBegins, BeginAttempt, Claimable, moneyVars
  <2>4. RoomChargeOpen(p)
    BY <2>3 DEF ContractInv, RowsOpen
  <2> QED
    BY <1>4, <2>2, <2>3, <2>4 DEF RoomChargeOpen
<1> QED
  BY <1>5, <1>6

\* The contract's invariant is inductive beside Inv and MoneyInv.
LEMMA ContractInvariance ==
    ASSUME ReviewScope = "AtRest"
    PROVE  Spec => []ContractInv
<1>1. Init => ContractInv
  <2>1. 0 \notin Posting
    BY LedgerConstants DEF Posting
  <2> QED
    BY <2>1 DEF Init, LedgerInit, ContractInv, RowsOpen, AckedIsDone, ClosedIsSpent, NoAttempt, NoReview
<1>2. ASSUME Inv, MoneyInv, ContractInv, [Next]_vars
      PROVE  ContractInv'
  BY <1>2, RowsKept, AckedKept, ClosedKept DEF ContractInv
<1> QED
  BY <1>1, <1>2, Invariance, MoneyInvariance, PTL DEF Spec

-----------------------------------------------------------------------------
(* The refinement of the contract *)

SendsOf(p) == Cardinality(onWire \cap AttemptsOf(p))
RetriesOf(p) == IF review[p].term = "CONFIRM_NOT_POSTED_RETRY" THEN 1 ELSE 0
DebitsOf(p) == Cardinality(Debits(p))

\* Cardinality on sets of P#s.
LEMMA PNumCardinality ==
    /\ \A T \in SUBSET PNum : /\ Cardinality(T) \in Nat
                              /\ Cardinality(T) = 0 <=> T = {}
                              /\ \A x \in PNum \ T : Cardinality(T \cup {x}) = Cardinality(T) + 1
    /\ \A x : Cardinality({x}) = 1
<1>1. IsFiniteSet(PNum)
  BY FS_Interval, BaseConstants DEF PNum
<1>2. \A T \in SUBSET PNum : IsFiniteSet(T)
  BY <1>1, FS_Subset
<1> QED
  BY <1>2, FS_CardinalityType, FS_EmptySet, FS_AddElement, FS_Singleton

\* Only the writer puts a P# on the wire, its handler's own, and changes nothing else
\* the contract sees.
LEMMA WireWriters ==
    ASSUME Inv, [Next]_vars
    PROVE  \/ onWire' = onWire
           \/ \E c \in PNum : /\ WriterStep(c) \/ WriterBreaks(c)
                              /\ hs[c] = "enqueued" /\ c \notin onWire /\ c < nextP
                              /\ onWire' = onWire \cup {c}
                              /\ UNCHANGED <<ledgerVars, processed, folio>>
<1>1. CASE LaneStep \/ UNCHANGED vars
  BY <1>1 DEF LaneStep, LaneBegins, LaneRefuses, DialFails, HandsOff, GetsResponse, LosesConnection,
     ResponseLost, Settles, FollowsOutcome, WorkerStops, RecoversOrphan, CatchesUp, relayVars,
     Receive, vars
<1>2. CASE EnvStep
  BY <1>2 DEF EnvStep, PmsSilent, PmsAnswers, FeedApplied, Blocks, GuestMoves, Observe, Requeues,
     GuestBuys, Reviews, Confirms, LifecycleSet, Retires, AxisChanges, relayVars
<1>3. CASE PmsdStep
  <2>1. ASSUME NEW c \in PNum, WriterStep(c) \/ WriterBreaks(c), onWire' # onWire
        PROVE  /\ hs[c] = "enqueued" /\ c \notin onWire /\ c < nextP
               /\ onWire' = onWire \cup {c}
    <3>1. hs[c] = "enqueued" /\ onWire' = onWire \cup {cmd[c]}
      BY <2>1 DEF WriterStep, WriterBreaks, GuardRefuses, Write, WriteFails
    <3> QED
      BY <3>1 DEF Inv, HandlersKnow, Unwritten
  <2>2. UNCHANGED <<ledgerVars, processed, folio>>
    BY <1>3, PmsdSteps
  <2> QED
    BY <1>3, <2>1, <2>2 DEF PmsdStep, Asks, AuthoriserUnavailable, RelayStep, PaArrives, LinkCycles,
       SweepEnds, LinkStep, LinkLost, Authorise, CheckCarried, Register, Submit,
       WriterGone, TakeAnswer, GiveUp, DeliverPA, LinkUp, DetachEnds,
       ResyncEnds, ResyncBegins, WriterEnds, ResyncUnanswered, LinkDown, RelayStops
<1> QED
  BY <1>1, <1>2, <1>3 DEF Next

\* What is on the wire belongs to an attempt that was handed out before the step.
LEMMA WireAllocated ==
    ASSUME Inv, MoneyInv, MoneyInv', [Next]_vars
    PROVE  /\ \A n \in onWire' : n \in PNum /\ n < nextP
           /\ \A p \in Posting : onWire' \cap AttemptsOf(p)' = onWire' \cap AttemptsOf(p)
           /\ \A p \in Posting : Debits(p)' = folio' \cap AttemptsOf(p)
<1>1. \A n \in onWire : n \in PNum /\ n < nextP
  BY RoomChargeConstants DEF Inv, TypeOK, RelayTypeOK, HandlersKnow, Unwritten
<1>2. \A n \in onWire' : n \in PNum /\ n < nextP
  BY <1>1, WireWriters
<1>3. \A n \in onWire' : att'[n].posting = att[n].posting
  BY <1>2, AttemptsKept
<1>4. ASSUME NEW p \in Posting
      PROVE  onWire' \cap AttemptsOf(p)' = onWire' \cap AttemptsOf(p)
  BY <1>2, <1>3 DEF AttemptsOf
<1>5. folio' \subseteq onWire'
  BY DEF MoneyInv, FolioOnWire
<1>6. ASSUME NEW p \in Posting
      PROVE  Debits(p)' = folio' \cap AttemptsOf(p)
  BY <1>4, <1>5 DEF Debits
<1> QED
  BY <1>2, <1>4, <1>6

\* A PS of a charge goes out only while the charge is open, as its first transmission or
\* as its second after the authorised retry.
LEMMA TransmitMaps ==
    ASSUME Inv, MoneyInv, ContractInv, NEW c \in PNum, c < nextP, hs[c] = "enqueued", c \notin onWire,
           onWire' = onWire \cup {c}, UNCHANGED <<ledgerVars, folio>>
    PROVE  Contract!Next
<1>p. PICK p : p = att[c].posting
  OBVIOUS
<1> DEFINE S == onWire \cap AttemptsOf(p)
<1>0. p \in Posting /\ outbox[p] # "NONE" /\ att[c].posting = p
  BY <1>p, AllocationFacts
<1>1. ChargeStatus(p) = "OPEN"
  <2>1. ~Spent(c)
    BY DEF Spent
  <2>2. settlement[p] \notin {"SETTLED", "FAILED"}
    <3>1. settlement[att[c].posting] \in {"SETTLED", "FAILED"} => Spent(c)
      BY <1>0 DEF ContractInv, ClosedIsSpent
    <3> QED
      BY <1>0, <2>1, <3>1
  <2>3. settlement[p] # "NONE" /\ settlement[p] \in SettlementState
    BY <1>0 DEF ContractInv, RowsOpen, Inv, TypeOK, LedgerTypeOK
  <2> QED
    BY <2>2, <2>3 DEF ChargeStatus, RoomChargeOpen, SettlementState
<1>2. S \in SUBSET PNum /\ c \in PNum \ S
  BY DEF AttemptsOf
<1>3. ASSUME NEW x \in S \cup {c}, NEW y \in S \cup {c}, x < y
      PROVE  x < review[p].used /\ review[p].used <= y
  <2>1. x \in PNum /\ y \in PNum /\ att[x].posting = p /\ att[y].posting = p
    BY <1>0, <1>3 DEF AttemptsOf
  <2>2. att[x].outcome # "NOT_SENT"
    BY <1>3, <2>1 DEF Inv, NotSentIsOver
  <2> QED
    BY <1>0, <1>3, <2>1, <2>2 DEF Inv, AuthorisedInTurn
<1>4. /\ \A x \in PNum : x \in Nat
      /\ review[p].used \in Nat
  BY <1>0, BaseConstants DEF PNum, Inv, TypeOK, LedgerTypeOK, Review
<1>5. Cardinality(S) < 1 + RetriesOf(p)
  <2>1. CASE S = {}
    <3>1. Cardinality(S) = 0
      BY <1>2, <2>1, PNumCardinality
    <3> QED
      BY <3>1 DEF RetriesOf
  <2>2. ASSUME NEW m \in S
        PROVE  Cardinality(S) < 1 + RetriesOf(p)
    <3>1. m # c /\ m \in PNum
      BY <1>2, <2>2
    <3>2. review[p].used # 0
      BY <1>2, <1>3, <1>4, <2>2, <3>1
    <3>3. RetriesOf(p) = 1
      BY <1>0, <3>2 DEF ContractInv, RowsOpen, RetriesOf
    <3>4. S = {m}
      <4> SUFFICES ASSUME NEW k \in S, k # m PROVE FALSE
        BY <2>2
      <4>1. k \in PNum /\ k # c
        BY <1>2
      <4> HIDE DEF S
      <4>2. ASSUME NEW x \in S \cup {c}, NEW y \in S \cup {c}, NEW z \in S \cup {c}, x < y, y < z
            PROVE  FALSE
        <5>1. x \in PNum /\ y \in PNum /\ z \in PNum
          BY <1>2
        <5> QED
          BY <1>3, <1>4, <4>2, <5>1
      <4> QED
        BY <1>2, <1>4, <2>2, <3>1, <4>1, <4>2
    <3>5. Cardinality(S) = 1
      BY <3>4, PNumCardinality
    <3> QED
      BY <3>3, <3>5
  <2> QED
    BY <2>1, <2>2
<1>6. /\ \A q \in Posting : ChargeStatus(q)' = ChargeStatus(q) /\ RetriesOf(q)' = RetriesOf(q)
      /\ \A q \in Posting : DebitsOf(q)' = DebitsOf(q)
      /\ \A q \in Posting : AttemptsOf(q)' = AttemptsOf(q)
  BY DEF ledgerVars, ChargeStatus, RoomChargeOpen, RetriesOf, DebitsOf, Debits, AttemptsOf
<1>7. SendsOf(p)' = SendsOf(p) + 1
  <2>0. AttemptsOf(p)' = AttemptsOf(p) /\ c \in AttemptsOf(p)
    BY <1>0, <1>6 DEF AttemptsOf
  <2>1. onWire' \cap AttemptsOf(p)' = S \cup {c}
    BY <2>0
  <2>2. Cardinality(S \cup {c}) = Cardinality(S) + 1
    BY <1>2, PNumCardinality
  <2> QED
    BY <2>1, <2>2, <1>0, <1>6 DEF SendsOf, ledgerVars
<1>8. \A q \in Posting : q # p => SendsOf(q)' = SendsOf(q)
  <2> SUFFICES ASSUME NEW q \in Posting, q # p PROVE SendsOf(q)' = SendsOf(q)
    OBVIOUS
  <2>0. AttemptsOf(q)' = AttemptsOf(q) /\ c \notin AttemptsOf(q)
    BY <1>0, <1>6 DEF AttemptsOf
  <2>1. onWire' \cap AttemptsOf(q)' = onWire \cap AttemptsOf(q)
    BY <2>0
  <2> QED
    BY <2>1 DEF SendsOf
<1>9. Contract!Transmit(p)
  <2>1. SendsOf(p) < 1 + RetriesOf(p)
    BY <1>5 DEF SendsOf
  <2> QED
    BY <1>0, <1>1, <1>6, <1>7, <1>8, <2>1 DEF Contract!Transmit, SendsOf, RetriesOf, DebitsOf
<1> QED
  BY <1>0, <1>9 DEF Contract!Next

\* The PMS debits a charge only while it is open, on the wire and not debited yet.
LEMMA DebitMaps ==
    ASSUME Inv, MoneyInv, ContractInv, DebitedAtMostOnce', NEW n \in PNum,
           n \in onWire \ processed, folio' = folio \cup {n}, UNCHANGED <<ledgerVars, onWire>>
    PROVE  Contract!Next
<1>1. n < nextP
  BY DEF Inv, HandlersKnow, Unwritten
<1>p. PICK p : p = att[n].posting
  OBVIOUS
<1>0. p \in Posting /\ outbox[p] # "NONE" /\ att[n].posting = p /\ n \notin folio
  BY <1>1, <1>p, AllocationFacts DEF MoneyInv, FolioOnWire
<1>2. ChargeStatus(p) = "OPEN"
  <2>1. settlement[att[n].posting] \in {"SETTLED", "FAILED"} => Spent(n)
    BY <1>0 DEF ContractInv, ClosedIsSpent
  <2>2. ~Spent(n)
    BY DEF Spent
  <2>3. settlement[p] # "NONE" /\ settlement[p] \in SettlementState
    BY <1>0 DEF ContractInv, RowsOpen, Inv, TypeOK, LedgerTypeOK
  <2> QED
    BY <1>0, <2>1, <2>2, <2>3 DEF ChargeStatus, RoomChargeOpen, SettlementState
<1>3. SendsOf(p) > 0
  <2>1. n \in onWire \cap AttemptsOf(p) /\ onWire \cap AttemptsOf(p) \in SUBSET PNum
    BY <1>0 DEF AttemptsOf
  <2> QED
    BY <2>1, PNumCardinality DEF SendsOf
<1>4. /\ \A q \in Posting : ChargeStatus(q)' = ChargeStatus(q) /\ RetriesOf(q)' = RetriesOf(q)
      /\ \A q \in Posting : AttemptsOf(q)' = AttemptsOf(q) /\ SendsOf(q)' = SendsOf(q)
  BY DEF ledgerVars, ChargeStatus, RoomChargeOpen, RetriesOf, SendsOf, AttemptsOf
<1>5. Debits(p)' = Debits(p) \cup {n} /\ n \notin Debits(p)
  <2>1. AttemptsOf(p)' = AttemptsOf(p) /\ n \in AttemptsOf(p)
    BY <1>0, <1>4 DEF AttemptsOf
  <2> QED
    BY <1>0, <2>1 DEF Debits
<1>6. Debits(p) = {}
  <2> SUFFICES ASSUME NEW m \in Debits(p) PROVE FALSE
    OBVIOUS
  <2>1. m = n
    BY <1>0, <1>5 DEF DebitedAtMostOnce
  <2> QED
    BY <1>5, <2>1
<1>7. DebitsOf(p) = 0 /\ DebitsOf(p)' = 1
  <2>1. Debits(p)' = {n}
    BY <1>5, <1>6
  <2> QED
    BY <1>6, <2>1, PNumCardinality DEF DebitsOf
<1>8. \A q \in Posting : q # p => DebitsOf(q)' = DebitsOf(q)
  <2> SUFFICES ASSUME NEW q \in Posting, q # p PROVE DebitsOf(q)' = DebitsOf(q)
    OBVIOUS
  <2>1. AttemptsOf(q)' = AttemptsOf(q) /\ n \notin AttemptsOf(q)
    BY <1>0, <1>4 DEF AttemptsOf
  <2>2. Debits(q)' = Debits(q)
    BY <2>1 DEF Debits
  <2> QED
    BY <2>2 DEF DebitsOf
<1>9. Contract!Debit(p)
  BY <1>0, <1>2, <1>3, <1>4, <1>7, <1>8 DEF Contract!Debit, SendsOf, RetriesOf, DebitsOf
<1> QED
  BY <1>0, <1>9 DEF Contract!Next

\* What the contract sees of a step that neither transmits nor debits.
Quietly == \A q \in Posting : SendsOf(q)' = SendsOf(q) /\ DebitsOf(q)' = DebitsOf(q)

\* Such a step that changes at most one charge's status, and closes it only as the money
\* says, is a step of the contract.
LEMMA StatusMaps ==
    ASSUME Inv, MoneyInv, ContractInv, MoneyInv', ContractInv', DebitedAtMostOnce', Quietly,
           NEW p \in Posting,
           \A q \in Posting : q # p => ChargeStatus(q)' = ChargeStatus(q),
           \A q \in Posting : RetriesOf(q)' = RetriesOf(q),
           \/ ChargeStatus(p)' = ChargeStatus(p)
           \/ ChargeStatus(p) = "NONE" /\ ChargeStatus(p)' = "OPEN"
           \/ ChargeStatus(p) = "OPEN" /\ ChargeStatus(p)' \in {"SETTLED", "FAILED"}
    PROVE  [Contract!Next]_(Contract!contractVars)
<1>1. CASE ChargeStatus(p)' = ChargeStatus(p)
  <2>1. \A q \in Posting : ChargeStatus(q)' = ChargeStatus(q)
    BY <1>1
  <2> QED
    BY <2>1 DEF Quietly, Contract!contractVars, SendsOf, RetriesOf, DebitsOf
<1>2. CASE ChargeStatus(p) = "NONE" /\ ChargeStatus(p)' = "OPEN"
  <2>1. Contract!Open(p)
    BY <1>2 DEF Quietly, Contract!Open, SendsOf, RetriesOf, DebitsOf
  <2> QED
    BY <2>1 DEF Contract!Next
<1>3. CASE ChargeStatus(p) = "OPEN" /\ ChargeStatus(p)' = "SETTLED"
  <2>1. settlement'[p] = "SETTLED"
    BY <1>3 DEF ChargeStatus, RoomChargeOpen
  <2>2. PICK d : d \in Debits(p)'
    BY <2>1 DEF MoneyInv, GrantedIsDebited
  <2>3. Debits(p)' = {d}
    BY <2>2 DEF DebitedAtMostOnce
  <2>4. DebitsOf(p)' = 1
    BY <2>3, PNumCardinality DEF DebitsOf
  <2>5. Contract!Settle(p)
    BY <1>3, <2>4 DEF Quietly, Contract!Settle, SendsOf, RetriesOf, DebitsOf
  <2> QED
    BY <2>5 DEF Contract!Next
<1>4. CASE ChargeStatus(p) = "OPEN" /\ ChargeStatus(p)' = "FAILED"
  <2>1. settlement'[p] = "FAILED"
    BY <1>4 DEF ChargeStatus, RoomChargeOpen
  <2>2. Debits(p)' = {}
    BY <2>1 DEF ContractInv, ClosedIsSpent, Debits, AttemptsOf
  <2>3. DebitsOf(p)' = 0
    BY <2>2, PNumCardinality DEF DebitsOf
  <2>4. Contract!Fail(p)
    BY <1>4, <2>3 DEF Quietly, Contract!Fail, SendsOf, RetriesOf, DebitsOf
  <2> QED
    BY <2>4 DEF Contract!Next
<1> QED
  BY <1>1, <1>2, <1>3, <1>4

\* A review decision: the authorised retry of a charge that is not on the folio, a
\* settlement, a failure, or nothing the contract sees.
LEMMA ReviewMaps ==
    ASSUME Inv, MoneyInv, ContractInv, MoneyInv', ContractInv', DebitedAtMostOnce', Quietly,
           NEW p \in Posting, NEW a \in TerminalAction, Reviews(p, a)
    PROVE  [Contract!Next]_(Contract!contractVars)
<1>0. /\ \A q \in Posting : q # p => review'[q] = review[q]
      /\ review[p].term = "none" /\ review'[p].term = a /\ latest[p] # 0
  BY ReviewFacts
<1>1. settlement \in [Posting -> SettlementState] /\ settlement[p] # "NONE"
  <2>1. outbox[p] # "NONE"
    BY <1>0, AllocationFacts
  <2> QED
    BY <2>1 DEF ContractInv, RowsOpen, Inv, TypeOK, LedgerTypeOK
<1>2. \A q \in Posting : q # p => RetriesOf(q)' = RetriesOf(q)
  BY <1>0 DEF RetriesOf
<1>3. CASE a = "CONFIRM_NOT_POSTED_RETRY"
  <2>1. UNCHANGED settlement /\ Debits(p) = {}
    BY <1>3 DEF Reviews, DecideReview, Truthful
  <2>2. \A q \in Posting : ChargeStatus(q)' = ChargeStatus(q)
    BY <2>1 DEF ChargeStatus, RoomChargeOpen
  <2>3. ChargeStatus(p) \in {"OPEN", "FAILED"}
    BY <1>1, <2>1 DEF MoneyInv, GrantedIsDebited, ChargeStatus, RoomChargeOpen, SettlementState
  <2>4. DebitsOf(p) = 0
    BY <2>1, PNumCardinality DEF DebitsOf
  <2>5. RetriesOf(p) = 0 /\ RetriesOf(p)' = 1
    BY <1>0, <1>3 DEF RetriesOf
  <2>6. Contract!AuthoriseRetry(p)
    BY <1>2, <2>2, <2>3, <2>4, <2>5 DEF Quietly, Contract!AuthoriseRetry, SendsOf, RetriesOf, DebitsOf
  <2> QED
    BY <2>6 DEF Contract!Next
<1>4. CASE a # "CONFIRM_NOT_POSTED_RETRY"
  <2>1. \A q \in Posting : RetriesOf(q)' = RetriesOf(q)
    BY <1>0, <1>2, <1>4 DEF RetriesOf
  <2>2. /\ \A q \in Posting : q # p => settlement'[q] = settlement[q]
        /\ \/ settlement'[p] = settlement[p]
           \/ RoomChargeOpen(p) /\ settlement'[p] \in {"SETTLED", "FAILED"}
    BY <1>1, <1>4 DEF Reviews, DecideReview, TerminalAction
  <2>3. /\ \A q \in Posting : q # p => ChargeStatus(q)' = ChargeStatus(q)
        /\ \/ ChargeStatus(p)' = ChargeStatus(p)
           \/ ChargeStatus(p) = "OPEN" /\ ChargeStatus(p)' \in {"SETTLED", "FAILED"}
    BY <2>2 DEF ChargeStatus, RoomChargeOpen
  <2> QED
    BY <2>1, <2>3, StatusMaps
<1> QED
  BY <1>3, <1>4

\* The transactions that move a settlement besides the reviewers', and the others.
LEMMA LedgerMaps ==
    ASSUME Inv, MoneyInv, ContractInv, MoneyInv', ContractInv', DebitedAtMostOnce', Quietly,
           [Next]_vars, ~(\E p \in Posting : \E a \in TerminalAction : Reviews(p, a))
    PROVE  [Contract!Next]_(Contract!contractVars)
<1>0. settlement \in [Posting -> SettlementState]
  BY DEF Inv, TypeOK, LedgerTypeOK
<1>1. \A q \in Posting : RetriesOf(q)' = RetriesOf(q)
  <2>1. ASSUME NEW p \in Posting, LaneBegins(p)
        PROVE  \A q \in Posting : review'[q].term = review[q].term
    BY <2>1, BeginFacts
  <2>2. \A q \in Posting : review'[q].term = review[q].term
    BY <2>1, ReviewWriters
  <2> QED
    BY <2>2 DEF RetriesOf
<1>2. ASSUME UNCHANGED settlement
      PROVE  [Contract!Next]_(Contract!contractVars)
  <2>1. \A q \in Posting : ChargeStatus(q)' = ChargeStatus(q)
    BY <1>2 DEF ChargeStatus, RoomChargeOpen
  <2> QED
    BY <1>1, <2>1 DEF Quietly, Contract!contractVars, SendsOf, RetriesOf, DebitsOf
<1>3. ASSUME NEW p \in Posting, \A q \in Posting : q # p => settlement'[q] = settlement[q],
             \/ settlement'[p] = settlement[p]
             \/ settlement[p] = "NONE" /\ settlement'[p] = "IN_PROGRESS"
             \/ RoomChargeOpen(p) /\ settlement'[p] \in {"SETTLED", "FAILED", "MANUAL_REVIEW"}
      PROVE  [Contract!Next]_(Contract!contractVars)
  <2>1. /\ \A q \in Posting : q # p => ChargeStatus(q)' = ChargeStatus(q)
        /\ \/ ChargeStatus(p)' = ChargeStatus(p)
           \/ ChargeStatus(p) = "NONE" /\ ChargeStatus(p)' = "OPEN"
           \/ ChargeStatus(p) = "OPEN" /\ ChargeStatus(p)' \in {"SETTLED", "FAILED"}
    BY <1>3 DEF ChargeStatus, RoomChargeOpen
  <2> QED
    BY <1>1, <2>1, StatusMaps
<1>4. ASSUME NEW p \in Posting, LaneBegins(p) \/ Requeues(p)
      PROVE  UNCHANGED settlement
  BY <1>4 DEF LaneBegins, BeginAttempt, Requeues, RequeueParked, moneyVars
<1>5. ASSUME NEW p \in Posting, LaneRefuses(p)
      PROVE  [Contract!Next]_(Contract!contractVars)
  <2>1. /\ \A q \in Posting : q # p => settlement'[q] = settlement[q]
        /\ \/ settlement'[p] = settlement[p]
           \/ RoomChargeOpen(p) /\ settlement'[p] \in {"SETTLED", "FAILED", "MANUAL_REVIEW"}
    BY <1>0, <1>5 DEF LaneRefuses, AbortBeforeSend, ReturnToReview, Decline, moneyVars, RoomChargeOpen
  <2> QED
    BY <1>3, <2>1
<1>6. ASSUME NEW p \in Posting, NEW s \in Stay, GuestBuys(p, s)
      PROVE  [Contract!Next]_(Contract!contractVars)
  <2>1. outbox[p] = "NONE" /\ settlement' = [settlement EXCEPT ![p] = "IN_PROGRESS"]
    BY <1>6 DEF GuestBuys, CreateRoomCharge
  <2>2. settlement[p] = "NONE"
    BY <2>1 DEF ContractInv, RowsOpen
  <2> QED
    BY <1>0, <1>3, <2>1, <2>2
<1>7. CASE FollowsOutcome
  <2>1. lane.p \in Posting /\ SettlementFollows(lane.p)
    BY <1>7 DEF FollowsOutcome, Inv, LaneKnows
  <2>2. CASE settlement' # settlement
    <3> DEFINE p == lane.p
               target == SettlementTarget(p)
    <3>1. /\ target # "none"
          /\ ~(settlement[p] = "SETTLED" /\ target # "SETTLED")
          /\ settlement' = [settlement EXCEPT ![p] = IF settlement[p] = "FAILED" THEN "FAILED" ELSE target]
      BY <2>1, <2>2 DEF SettlementFollows, moneyVars
    <3>2. target \in {"SETTLED", "FAILED", "MANUAL_REVIEW"}
      BY <3>1 DEF SettlementTarget
    <3>3. settlement[p] # "NONE"
      <4>1. latest[p] # 0
        BY <3>1 DEF SettlementTarget, LastOutcome
      <4>2. outbox[p] # "NONE"
        BY <2>1, <4>1, AllocationFacts
      <4> QED
        BY <2>1, <4>2 DEF ContractInv, RowsOpen
    <3>4. \A q \in Posting : q # p => settlement'[q] = settlement[q]
      BY <1>0, <3>1
    <3>5. \/ settlement'[p] = settlement[p]
          \/ RoomChargeOpen(p) /\ settlement'[p] \in {"SETTLED", "FAILED", "MANUAL_REVIEW"}
      BY <1>0, <2>1, <3>1, <3>2, <3>3 DEF RoomChargeOpen, SettlementState
    <3> HIDE DEF target
    <3> QED
      BY <1>3, <2>1, <3>4, <3>5
  <2> QED
    BY <1>2, <2>2
<1>8. ASSUME Settles \/ (\E k \in PNum : RecoversOrphan(k)) \/ SiteStep \/ UNCHANGED ledgerVars
      PROVE  UNCHANGED settlement
  BY <1>8 DEF Settles, SettleAttempt, RecoversOrphan, ConcludeOrphan, SiteStep, RecordConfirmation,
     AdminBlock, ApplyGuestRecord, SetLifecycle, Decommission, FreshnessChanges, PinnedConfigChanges,
     ledgerVars, moneyVars
<1> QED
  BY <1>2, <1>4, <1>5, <1>6, <1>7, <1>8, StepKinds DEF StepKind

\* Only the PMS debits, one PS it had not processed.
LEMMA FolioWriters ==
    ASSUME Inv, [Next]_vars
    PROVE  \/ folio' = folio
           \/ \E n \in PNum : /\ n \in onWire \ processed /\ folio' = folio \cup {n}
                              /\ UNCHANGED <<ledgerVars, onWire>>
<1>1. CASE LaneStep \/ UNCHANGED vars
  BY <1>1 DEF LaneStep, LaneBegins, LaneRefuses, DialFails, HandsOff, GetsResponse, LosesConnection,
     ResponseLost, Settles, FollowsOutcome, WorkerStops, RecoversOrphan, CatchesUp, envVars, vars
<1>2. CASE PmsdStep
  BY <1>2, PmsdSteps
<1>3. ASSUME NEW n \in PNum, PmsSilent(n) \/ \E as \in AnswerCode : PmsAnswers(n, as)
      PROVE  \/ folio' = folio
             \/ /\ n \in onWire \ processed /\ folio' = folio \cup {n}
                /\ UNCHANGED <<ledgerVars, onWire>>
  BY <1>3 DEF PmsSilent, PmsAnswers, relayVars
<1>4. CASE EnvStep
  BY <1>3, <1>4 DEF EnvStep, FeedApplied, Blocks, GuestMoves, Requeues, GuestBuys, Reviews, Confirms,
     LifecycleSet, Retires, AxisChanges, envVars
<1> QED
  BY <1>1, <1>2, <1>4 DEF Next

\* Every step of the pipeline is a step of the contract, or one the contract does not see.
LEMMA StepMaps ==
    ASSUME Inv, MoneyInv, ContractInv, Inv', MoneyInv', ContractInv', DebitedAtMostOnce', [Next]_vars
    PROVE  [Contract!Next]_(Contract!contractVars)
<1>1. CASE onWire' # onWire
  <2>1. PICK c \in PNum : /\ hs[c] = "enqueued" /\ c \notin onWire /\ c < nextP
                          /\ onWire' = onWire \cup {c}
                          /\ UNCHANGED <<ledgerVars, processed, folio>>
    BY <1>1, WireWriters
  <2> QED
    BY <2>1, TransmitMaps
<1>2. CASE folio' # folio
  <2>1. PICK n \in PNum : /\ n \in onWire \ processed /\ folio' = folio \cup {n}
                          /\ UNCHANGED <<ledgerVars, onWire>>
    BY <1>2, FolioWriters
  <2> QED
    BY <2>1, DebitMaps
<1>3. CASE onWire' = onWire /\ folio' = folio
  <2>1. Quietly
    <3> SUFFICES ASSUME NEW q \in Posting
                 PROVE  SendsOf(q)' = SendsOf(q) /\ DebitsOf(q)' = DebitsOf(q)
      BY DEF Quietly
    <3>1. (onWire \cap AttemptsOf(q))' = onWire \cap AttemptsOf(q) /\ Debits(q)' = Debits(q)
      BY <1>3, WireAllocated DEF Debits
    <3> QED
      BY <3>1 DEF SendsOf, DebitsOf
  <2> QED
    BY <2>1, ReviewMaps, LedgerMaps
<1> QED
  BY <1>1, <1>2, <1>3

\* The pipeline keeps the contract, for any number of charges, attempts and disturbances,
\* where reviewers decide on rows at rest: through crashes, lost answers, late writes,
\* recovery and review, a charge is transmitted once per authorisation, debited once,
\* granted only when debited, failed only when not, and left alone once it is final.
THEOREM ContractKept ==
    ASSUME ReviewScope = "AtRest"
    PROVE  Spec => KeepsContract
<1>1. Init => Contract!Init
  <2> SUFFICES ASSUME Init PROVE Contract!Init
    OBVIOUS
  <2>1. ASSUME NEW p \in Posting
        PROVE  ChargeStatus(p) = "NONE" /\ RetriesOf(p) = 0 /\ SendsOf(p) = 0 /\ DebitsOf(p) = 0
    <3>1. ChargeStatus(p) = "NONE" /\ RetriesOf(p) = 0
      BY DEF Init, LedgerInit, ChargeStatus, RoomChargeOpen, RetriesOf, NoReview
    <3>2. onWire \cap AttemptsOf(p) = {} /\ Debits(p) = {}
      BY DEF Init, RelayInit, Debits
    <3> QED
      BY <3>1, <3>2, PNumCardinality DEF SendsOf, DebitsOf
  <2> QED
    BY <2>1 DEF Contract!Init, SendsOf, RetriesOf, DebitsOf
<1>2. Spec => []ContractInv
  BY ContractInvariance
<1> QED
  BY <1>1, <1>2, StepMaps, Invariance, MoneyInvariance, DebitedOnce, PTL DEF Spec, KeepsContract, Contract!Spec

=============================================================================
