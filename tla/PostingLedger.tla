--------------------------- MODULE PostingLedger ---------------------------
(***************************************************************************)
(* The room-charge ledger of the data plane: the iam_v2 tables             *)
(* pms_postings, posting_outbox, posting_attempts, posting_review_state,   *)
(* settlements and stay_posting_blocks, and the database functions that    *)
(* move them (migrations 0011, 0012, 0097, 0100, 0103, 0167), for one PMS  *)
(* interface.  Every action below is one database transaction, so it is    *)
(* atomic; who runs it, and when, is module RoomCharge's business.         *)
(*                                                                         *)
(* Postings are numbered in the order they are enqueued, which is the      *)
(* order ClaimNext serves them in.  Backoff (not_before, not_sent_count)   *)
(* is left to interleaving: a row that backs off is simply not claimed     *)
(* yet.  A settlement and its purchase move together (0096, 0095), so the  *)
(* settlement stands for both: SETTLED is "the entitlement was granted".   *)
(***************************************************************************)
EXTENDS PostingBase

CONSTANTS
    NoStay,        \* the stay of a posting that does not exist yet
    MaxPosting,    \* bound: room charges created
    ParkAfter      \* posting_lane_settings.park_after_declines

ASSUME LedgerConstants ==
    /\ MaxPosting \in Nat
    /\ ParkAfter \in Nat \ {0}
    /\ NoStay \notin Stay

Posting == 1 .. MaxPosting

\* Only these codes can be confirmed as "definitely not posted"; UR never can.
Confirmable == {"NP", "NG", "NR", "NA", "RY"}

VARIABLES
    outbox,        \* posting_outbox.state
    parked,        \* postings whose parked_reason is set
    declines,      \* posting_outbox.decline_count
    stayOf,        \* pms_postings.stay_id
    settlement,    \* settlements.status
    att,           \* posting_attempts, by P#
    nextP,         \* pms_interface_pnumber_seq.next_p_number
    latest,        \* the P# of the posting's highest attempt_no, 0 if none
    review,        \* posting_review_state
    unresolved,    \* postings holding a POSTING_UNRESOLVED block on their stay
    blocks,        \* the stay's other active stay_posting_blocks
    stays,         \* stays.normalized_room_number, or Away when not IN_HOUSE
    lifecycle,     \* pms_interfaces.lifecycle_state
    fresh,         \* p4_interface_freshness_block returns NULL
    pinned,        \* the pinned revision and mapping are still the current ones
    confirmed      \* codes whose latest pms_answer_confirmations row is CONFIRM

ledgerVars == <<outbox, parked, declines, stayOf, settlement, att, nextP, latest,
                review, unresolved, blocks, stays, lifecycle, fresh, pinned, confirmed>>

\* What the lane and the outcome function write; the rest is written elsewhere.
moneyVars == <<settlement, unresolved, blocks>>
queueVars == <<outbox, parked, declines>>
attemptVars == <<att, nextP, latest>>
siteVars == <<stays, lifecycle, fresh, pinned, confirmed>>

OutboxState == {"NONE", "QUEUED", "IN_FLIGHT", "DONE", "HELD_RECOVERY"}
SettlementState == {"NONE", "IN_PROGRESS", "SETTLED", "FAILED", "MANUAL_REVIEW"}
Outcome == {"NONE", "SENDING", "ACKED", "NOT_SENT", "UNKNOWN"}
TerminalAction == {"CONFIRM_POSTED", "CONFIRM_NOT_POSTED_RETRY",
                   "CONFIRM_NOT_POSTED_ABANDON", "CREATE_REVERSAL"}
BlockReason == {"PMS_NO_POST", "PMS_DATA_SUSPECT", "ADMIN_BLOCK"}
Lifecycle == {"ACTIVE", "DRAINING", "DECOMMISSIONED"}

Attempt == [posting: Posting \cup {0}, rn: Room \cup {Away}, outcome: Outcome,
            as: AnswerCode \cup {"none"}]
NoAttempt == [posting |-> 0, rn |-> Away, outcome |-> "NONE", as |-> "none"]

\* auth: retry_authorized_attempt_no is set (it always names the next attempt);
\* used: the P# of the attempt that consumed it, 0 if none did.
Review == [term: TerminalAction \cup {"none"}, auth: BOOLEAN, used: 0 .. MaxAttempt]
NoReview == [term |-> "none", auth |-> FALSE, used |-> 0]

LedgerTypeOK ==
    /\ outbox \in [Posting -> OutboxState]
    /\ parked \in SUBSET Posting
    /\ declines \in [Posting -> 0 .. ParkAfter]
    /\ stayOf \in [Posting -> Stay \cup {NoStay}]
    /\ settlement \in [Posting -> SettlementState]
    /\ att \in [PNum -> Attempt]
    /\ nextP \in 1 .. MaxAttempt + 1
    /\ latest \in [Posting -> 0 .. MaxAttempt]
    /\ review \in [Posting -> Review]
    /\ unresolved \in SUBSET Posting
    /\ blocks \in [Stay -> SUBSET BlockReason]
    /\ stays \in [Stay -> Room \cup {Away}]
    /\ lifecycle \in Lifecycle
    /\ fresh \in BOOLEAN /\ pinned \in BOOLEAN
    /\ confirmed \in SUBSET (AnswerCode \cap Confirmable)

LedgerInit(rooms) ==
    /\ outbox = [p \in Posting |-> "NONE"]
    /\ parked = {}
    /\ declines = [p \in Posting |-> 0]
    /\ stayOf = [p \in Posting |-> NoStay]
    /\ settlement = [p \in Posting |-> "NONE"]
    /\ att = [n \in PNum |-> NoAttempt]
    /\ nextP = 1
    /\ latest = [p \in Posting |-> 0]
    /\ review = [p \in Posting |-> NoReview]
    /\ unresolved = {}
    /\ blocks = [s \in Stay |-> {}]
    /\ stays = rooms
    /\ lifecycle = "ACTIVE"
    /\ fresh = TRUE /\ pinned = TRUE
    /\ confirmed = {}

-----------------------------------------------------------------------------
(* Reading the ledger *)

AttemptsOf(p) == {n \in PNum : att[n].posting = p}
LastOutcome(p) == IF latest[p] = 0 THEN "NONE" ELSE att[latest[p]].outcome
LastAnswer(p) == IF latest[p] = 0 THEN "none" ELSE att[latest[p]].as

\* An attempt that is not NOT_SENT may have reached the PMS.
MayHaveSent(p) == \E n \in AttemptsOf(p) : att[n].outcome # "NOT_SENT"

\* The stay's posting_allowed column: in house and no active block at all.
PostingAllowed(s) ==
    /\ stays[s] # Away
    /\ blocks[s] = {}
    /\ \A q \in unresolved : stayOf[q] # s

\* Posting permission for one charge: its own unresolved block does not stop it.
PostableFor(p) ==
    /\ stays[stayOf[p]] # Away
    /\ blocks[stayOf[p]] = {}
    /\ \A q \in unresolved \ {p} : stayOf[q] # stayOf[p]

\* se.status IN ('REQUIRED','IN_PROGRESS','MANUAL_REVIEW')
RoomChargeOpen(p) == settlement[p] \in {"IN_PROGRESS", "MANUAL_REVIEW"}

FinanciallyReady == lifecycle = "ACTIVE"

\* What one PA status means on this interface, given the vendor confirmations c.
AnswerEffect(c, as) ==
    CASE as = "OK" -> "POSTED"
      [] as \in c /\ as = "NP" -> "NOT_POSTED_NO_POST"
      [] as \in c /\ as \in {"NG", "NR"} -> "NOT_POSTED_TARGET_INVALID"
      [] as \in c /\ as \in {"NA", "RY"} -> "NOT_POSTED_NO_STAY_EFFECT"
      [] OTHER -> "UNPROVEN"

\* pmsd's question to the database, in the order the function asks it.
CommandVerdict(n) ==
    LET p == att[n].posting IN
    IF att[n].outcome = "NONE" THEN "NO_SUCH_ATTEMPT"
    ELSE IF att[n].outcome # "SENDING" THEN "ATTEMPT_NOT_SENDING"
    ELSE IF outbox[p] # "IN_FLIGHT" THEN "POSTING_NOT_IN_FLIGHT"
    ELSE IF ~FinanciallyReady THEN "INTERFACE_NOT_FINANCIALLY_READY"
    ELSE IF ~PostableFor(p) THEN "STAY_NOT_POSTABLE"
    ELSE IF stays[stayOf[p]] # att[n].rn THEN "ROOM_CHANGED"
    ELSE IF ~fresh THEN "INTERFACE_NOT_FRESH"
    ELSE "AUTHORISED"

\* The execution gate (Gate.CheckFor, PurposeExecute), in its order: "PASS", "ABORT"
\* for the failures presendAbortReason names, "DECLINE" for every other one.
GateVerdict(p) ==
    IF lifecycle = "DECOMMISSIONED" THEN "DECLINE"
    ELSE IF ~fresh THEN "ABORT"
    ELSE IF ~pinned THEN "DECLINE"
    ELSE IF ~PostableFor(p) THEN "ABORT"
    ELSE "PASS"

\* p4_attempt_retry_gate: an attempt after an UNKNOWN or an ACKED one needs the
\* audited authorization; one after a NOT_SENT does not.
RetryGate(p) ==
    \/ LastOutcome(p) \in {"NONE", "NOT_SENT"}
    \/ LastOutcome(p) \in {"UNKNOWN", "ACKED"} /\ review[p].auth

\* The lane's head: the oldest QUEUED row, and only while no row is IN_FLIGHT
\* (outbox_one_inflight_per_interface).
Claimable(p) ==
    /\ outbox[p] = "QUEUED"
    /\ \A q \in Posting : outbox[q] = "QUEUED" => p <= q
    /\ \A q \in Posting : outbox[q] # "IN_FLIGHT"

-----------------------------------------------------------------------------
(* The lane's transactions *)

\* The guest buys by room charge: the posting and its QUEUED outbox row.
CreateRoomCharge(p, s) ==
    /\ outbox[p] = "NONE"
    /\ \A q \in Posting : q < p => outbox[q] # "NONE"
    /\ FinanciallyReady /\ fresh /\ pinned
    /\ PostingAllowed(s)
    /\ \A q \in Posting : stayOf[q] = s => ~RoomChargeOpen(q)
    /\ outbox' = [outbox EXCEPT ![p] = "QUEUED"]
    /\ stayOf' = [stayOf EXCEPT ![p] = s]
    /\ settlement' = [settlement EXCEPT ![p] = "IN_PROGRESS"]
    /\ UNCHANGED <<parked, declines, attemptVars, review, unresolved, blocks, siteVars>>

\* RunOnce up to its commit: claim, re-verify, allocate the P#, insert the
\* attempt with the reservation's current room, consume the authorization.
BeginAttempt(p) ==
    /\ Claimable(p)
    /\ GateVerdict(p) = "PASS"
    /\ RetryGate(p)
    /\ nextP \in PNum
    /\ outbox' = [outbox EXCEPT ![p] = "IN_FLIGHT"]
    /\ att' = [att EXCEPT ![nextP] = [posting |-> p, rn |-> stays[stayOf[p]],
                                      outcome |-> "SENDING", as |-> "none"]]
    /\ latest' = [latest EXCEPT ![p] = nextP]
    /\ nextP' = nextP + 1
    /\ review' = [review EXCEPT ![p] = IF @.auth THEN [@ EXCEPT !.auth = FALSE, !.used = nextP]
                                       ELSE @]
    /\ UNCHANGED <<parked, declines, stayOf, moneyVars, siteVars>>

\* abortBeforeSend, provably never transmitted: the charge fails for good.
AbortBeforeSend(p) ==
    /\ Claimable(p)
    /\ GateVerdict(p) = "ABORT"
    /\ ~MayHaveSent(p)
    /\ outbox' = [outbox EXCEPT ![p] = "DONE"]
    /\ settlement' = [settlement EXCEPT ![p] = IF @ = "IN_PROGRESS" THEN "FAILED" ELSE @]
    /\ UNCHANGED <<parked, declines, stayOf, attemptVars, review, unresolved, blocks, siteVars>>

\* abortBeforeSend after a possible transmission: back to manual review.
ReturnToReview(p) ==
    /\ Claimable(p)
    /\ GateVerdict(p) = "ABORT"
    /\ MayHaveSent(p)
    /\ outbox' = [outbox EXCEPT ![p] = "HELD_RECOVERY"]
    /\ UNCHANGED <<parked, declines, stayOf, moneyVars, attemptVars, review, siteVars>>

\* decline: posting_outbox_defer(DECLINED) backs off, or parks at the N-th refusal.
Decline(p) ==
    /\ Claimable(p)
    /\ GateVerdict(p) = "DECLINE"
    /\ LET v == declines[p] + 1 IN
       IF v >= ParkAfter
       THEN /\ outbox' = [outbox EXCEPT ![p] = "HELD_RECOVERY"]
            /\ parked' = parked \cup {p}
            /\ declines' = [declines EXCEPT ![p] = ParkAfter]
       ELSE /\ declines' = [declines EXCEPT ![p] = v]
            /\ UNCHANGED <<outbox, parked>>
    /\ UNCHANGED <<stayOf, moneyVars, attemptVars, review, siteVars>>

\* Mutant of SettleOutcome: an unproven hand-off is taken for "not sent".
SilenceMeansNotSent(result, as) ==
    IF result = "ANSWERED" /\ AnswerEffect(confirmed, as) # "UNPROVEN" THEN "ACKED" ELSE "NOT_SENT"

\* How settle classifies what SendPS returned: a result of the hand-off and, when
\* it is ANSWERED, the PA status.
SettleOutcome(result, as) ==
    CASE result = "ANSWERED" -> IF AnswerEffect(confirmed, as) = "UNPROVEN" THEN "UNKNOWN" ELSE "ACKED"
      [] result = "NOT_TRANSMITTED" -> "NOT_SENT"
      [] OTHER -> "UNKNOWN"

\* settle's transaction: the attempt's terminal outcome and the outbox row.
SettleAttempt(n, result, as) ==
    LET o == SettleOutcome(result, as)
        p == att[n].posting
    IN  /\ att[n].outcome = "SENDING"
        /\ att' = [att EXCEPT ![n] = [@ EXCEPT !.outcome = o,
                                               !.as = IF result = "ANSWERED" THEN as ELSE "none"]]
        /\ outbox' = [outbox EXCEPT ![p] = CASE o = "ACKED" -> "DONE"
                                             [] o = "NOT_SENT" -> "QUEUED"
                                             [] OTHER -> "HELD_RECOVERY"]
        /\ UNCHANGED <<parked, declines, stayOf, moneyVars, nextP, latest, review, siteVars>>

\* Mutant of ConcludeOrphan: the orphan goes back to the queue like a deferred row.
RequeueOrphan(n) ==
    LET p == att[n].posting IN
    /\ att[n].outcome = "SENDING"
    /\ outbox[p] = "IN_FLIGHT"
    /\ att' = [att EXCEPT ![n].outcome = "UNKNOWN"]
    /\ outbox' = [outbox EXCEPT ![p] = "QUEUED"]
    /\ UNCHANGED <<parked, declines, stayOf, moneyVars, nextP, latest, review, siteVars>>

\* Mutant of ConcludeOrphan: a lane that stopped is taken for one that sent nothing.
OrphanNeverSent(n) ==
    LET p == att[n].posting IN
    /\ att[n].outcome = "SENDING"
    /\ outbox[p] = "IN_FLIGHT"
    /\ att' = [att EXCEPT ![n].outcome = "NOT_SENT"]
    /\ outbox' = [outbox EXCEPT ![p] = "QUEUED"]
    /\ UNCHANGED <<parked, declines, stayOf, moneyVars, nextP, latest, review, siteVars>>

\* Mutant of ConcludeOrphan: recovery joins the attempt with the wrong outbox state.
ConcludeHeldOrphan(n) ==
    LET p == att[n].posting IN
    /\ att[n].outcome = "SENDING"
    /\ outbox[p] = "HELD_RECOVERY"
    /\ att' = [att EXCEPT ![n].outcome = "UNKNOWN"]
    /\ UNCHANGED <<queueVars, stayOf, moneyVars, nextP, latest, review, siteVars>>

\* RecoverOrphanedAttempts' transaction: SENDING becomes UNKNOWN, nothing resends it.
ConcludeOrphan(n) ==
    LET p == att[n].posting IN
    /\ att[n].outcome = "SENDING"
    /\ outbox[p] = "IN_FLIGHT"
    /\ att' = [att EXCEPT ![n].outcome = "UNKNOWN"]
    /\ outbox' = [outbox EXCEPT ![p] = "HELD_RECOVERY"]
    /\ UNCHANGED <<parked, declines, stayOf, moneyVars, nextP, latest, review, siteVars>>

\* Mutant of SettlementTarget: any acknowledgement settles.
AnyAckSettles(p) ==
    CASE LastOutcome(p) = "ACKED" -> "SETTLED"
      [] LastOutcome(p) = "UNKNOWN" -> "MANUAL_REVIEW"
      [] OTHER -> "none"

\* Mutant of SettlementTarget: only an acknowledged attempt has an outcome.
OnlyAckedConcludes(p) ==
    IF LastOutcome(p) = "ACKED"
    THEN IF LastAnswer(p) = "OK" THEN "SETTLED" ELSE "FAILED"
    ELSE "none"

\* Where the latest attempt says the settlement should be; "none" is NO_ATTEMPT or
\* NOT_CONCLUSIVE.
SettlementTarget(p) ==
    LET effect == AnswerEffect(confirmed, LastAnswer(p)) IN
    CASE LastOutcome(p) = "ACKED" /\ effect = "POSTED" -> "SETTLED"
      [] LastOutcome(p) = "ACKED" /\ effect \notin {"POSTED", "UNPROVEN"} -> "FAILED"
      [] LastOutcome(p) = "UNKNOWN" \/ (LastOutcome(p) = "ACKED" /\ effect = "UNPROVEN")
           -> "MANUAL_REVIEW"
      [] OTHER -> "none"

\* The stay effect of a conclusive answer.
AnswerBlock(as) ==
    CASE AnswerEffect(confirmed, as) = "NOT_POSTED_NO_POST" -> {"PMS_NO_POST"}
      [] AnswerEffect(confirmed, as) = "NOT_POSTED_TARGET_INVALID" -> {"PMS_DATA_SUSPECT"}
      [] OTHER -> {}

\* p4_posting_settlement_outcome.  It raises, and changes nothing, on a SETTLED
\* settlement whose target is another one, and on a FAILED one whose grant is refused.
SettlementFollows(p) ==
    LET target == SettlementTarget(p)
        raises == \/ settlement[p] = "SETTLED" /\ target # "SETTLED"
                  \/ settlement[p] = "FAILED" /\ target = "SETTLED"
        moved == IF settlement[p] = "FAILED" THEN "FAILED" ELSE target
    IN  /\ IF target = "none" \/ raises
           THEN UNCHANGED moneyVars
           ELSE /\ settlement' = [settlement EXCEPT ![p] = moved]
                /\ IF target = "MANUAL_REVIEW"
                   THEN /\ unresolved' = unresolved \cup {p}
                        /\ UNCHANGED blocks
                   ELSE /\ unresolved' = unresolved \ {p}
                        /\ blocks' = [blocks EXCEPT ![stayOf[p]] = @ \cup AnswerBlock(LastAnswer(p))]
        /\ UNCHANGED <<queueVars, stayOf, attemptVars, review, siteVars>>

\* ApplySettlementOutcomes' query.
NeedsCatchUp(p) ==
    /\ settlement[p] = "IN_PROGRESS"
    /\ \E n \in AttemptsOf(p) : att[n].outcome \in {"ACKED", "UNKNOWN"}

-----------------------------------------------------------------------------
(* The operators' transactions *)

\* Mutant of ReviewAdmits: a charge can be decided again.
ReviewAdmitsAgain(p, action) ==
    /\ latest[p] # 0
    /\ action = "CONFIRM_NOT_POSTED_RETRY" =>
         /\ LastOutcome(p) # "SENDING"
         /\ ~(LastOutcome(p) = "ACKED" /\ LastAnswer(p) = "OK")
    /\ action = "CREATE_REVERSAL" =>
         \/ LastOutcome(p) = "UNKNOWN"
         \/ LastOutcome(p) = "ACKED" /\ LastAnswer(p) = "OK"

\* record_posting_review_action's refusals, for the four terminal actions.
ReviewAdmits(p, action) ==
    /\ latest[p] # 0
    /\ review[p].term = "none"
    /\ action = "CONFIRM_NOT_POSTED_RETRY" =>
         /\ LastOutcome(p) # "SENDING"
         /\ ~(LastOutcome(p) = "ACKED" /\ LastAnswer(p) = "OK")
    /\ action = "CREATE_REVERSAL" =>
         \/ LastOutcome(p) = "UNKNOWN"
         \/ LastOutcome(p) = "ACKED" /\ LastAnswer(p) = "OK"

\* postReviewAction: record_posting_review_action and p4_posting_review_apply in one
\* transaction.  ESCALATE decides nothing and is left out.
DecideReview(p, action) ==
    /\ ReviewAdmits(p, action)
    /\ review' = [review EXCEPT ![p] = [@ EXCEPT !.term = action,
                                                 !.auth = (action = "CONFIRM_NOT_POSTED_RETRY")]]
    /\ CASE action = "CONFIRM_NOT_POSTED_RETRY" ->
              /\ outbox' = [outbox EXCEPT ![p] = IF @ = "HELD_RECOVERY" THEN "QUEUED" ELSE @]
              /\ UNCHANGED <<settlement, unresolved>>
         [] action = "CONFIRM_POSTED" ->
              /\ settlement' = [settlement EXCEPT ![p] = IF RoomChargeOpen(p) THEN "SETTLED" ELSE @]
              /\ unresolved' = IF settlement[p] = "FAILED" THEN unresolved ELSE unresolved \ {p}
              /\ UNCHANGED outbox
         [] action = "CONFIRM_NOT_POSTED_ABANDON" ->
              /\ settlement' = [settlement EXCEPT ![p] = IF RoomChargeOpen(p) THEN "FAILED" ELSE @]
              /\ unresolved' = unresolved \ {p}
              /\ UNCHANGED outbox
         [] action = "CREATE_REVERSAL" -> UNCHANGED <<outbox, settlement, unresolved>>
    /\ UNCHANGED <<parked, declines, stayOf, attemptVars, blocks, siteVars>>

\* posting_outbox_requeue_parked: only a parked row the PMS cannot have seen.
RequeueParked(p) ==
    /\ outbox[p] = "HELD_RECOVERY" /\ p \in parked
    /\ ~MayHaveSent(p)
    /\ outbox' = [outbox EXCEPT ![p] = "QUEUED"]
    /\ parked' = parked \ {p}
    /\ declines' = [declines EXCEPT ![p] = 0]
    /\ UNCHANGED <<stayOf, moneyVars, attemptVars, review, siteVars>>

\* pms_answer_confirmation_record: CONFIRM or WITHDRAW one code.
RecordConfirmation(as) ==
    /\ as \in AnswerCode \cap Confirmable
    /\ confirmed' = IF as \in confirmed THEN confirmed \ {as} ELSE confirmed \cup {as}
    /\ UNCHANGED <<queueVars, stayOf, moneyVars, attemptVars, review, stays, lifecycle, fresh, pinned>>

\* p4_admin_posting_block: SET or CLEAR, by an operator.
AdminBlock(s) ==
    /\ blocks' = [blocks EXCEPT ![s] = IF "ADMIN_BLOCK" \in @ THEN @ \ {"ADMIN_BLOCK"}
                                       ELSE @ \cup {"ADMIN_BLOCK"}]
    /\ UNCHANGED <<queueVars, stayOf, settlement, unresolved, attemptVars, review, siteVars>>

\* setPMSInterfaceLifecycle between ACTIVE and DRAINING.
SetLifecycle(l) ==
    /\ <<lifecycle, l>> \in {<<"ACTIVE", "DRAINING">>, <<"DRAINING", "ACTIVE">>}
    /\ lifecycle' = l
    /\ UNCHANGED <<queueVars, stayOf, moneyVars, attemptVars, review, stays, fresh, pinned, confirmed>>

\* Retiring the connection, behind p4_interface_decommission_gate.
Decommission ==
    /\ lifecycle # "DECOMMISSIONED"
    /\ \A p \in Posting : outbox[p] \notin {"QUEUED", "IN_FLIGHT", "HELD_RECOVERY"}
    /\ \A n \in PNum : att[n].outcome \notin {"SENDING", "UNKNOWN"}
    /\ lifecycle' = "DECOMMISSIONED"
    /\ UNCHANGED <<queueVars, stayOf, moneyVars, attemptVars, review, stays, fresh, pinned, confirmed>>

\* The runtime axes p4_interface_freshness_block reads go stale or recover.
FreshnessChanges ==
    /\ fresh' = ~fresh
    /\ UNCHANGED <<queueVars, stayOf, moneyVars, attemptVars, review, stays, lifecycle, pinned, confirmed>>

\* An operator publishes a revision or retires a mapping, or puts it back.
PinnedConfigChanges ==
    /\ pinned' = ~pinned
    /\ UNCHANGED <<queueVars, stayOf, moneyVars, attemptVars, review, stays, lifecycle, fresh, confirmed>>

\* The stay-event applier, ACTIVE interfaces only, writes what the PMS announced; a
\* record that confirms the stay in house lifts the data-suspect block.
ApplyGuestRecord(s, r) ==
    /\ lifecycle = "ACTIVE"
    /\ stays' = [stays EXCEPT ![s] = r]
    /\ blocks' = IF r # Away THEN [blocks EXCEPT ![s] = @ \ {"PMS_DATA_SUSPECT"}] ELSE blocks
    /\ UNCHANGED <<queueVars, stayOf, settlement, unresolved, attemptVars, review,
                   lifecycle, fresh, pinned, confirmed>>

=============================================================================
