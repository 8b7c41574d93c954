----------------------------- MODULE RoomCharge -----------------------------
(***************************************************************************)
(* A room charge from the guest's purchase to the hotel's PMS and back:    *)
(* scd's posting lane, the ledger (PostingLedger), pmsd's relay            *)
(* (FinancialRelay), the PMS at the far end, the guest feed, and the       *)
(* operators who review, requeue and configure.                            *)
(*                                                                         *)
(* scd commits the attempt, then hands it to pmsd over a socket: one       *)
(* connection per attempt, so connection and P# coincide here (RelayAlone  *)
(* checks the relay against connections that repeat a P#).  Each step of   *)
(* the lane is one transaction or one message; scd and pmsd can stop       *)
(* between any two of them.                                                *)
(***************************************************************************)
EXTENDS PostingLedger, FinancialRelay

CONSTANTS
    NotPosted,     \* codes that, at this PMS, do mean "definitely not posted"
    MaxFaults,     \* bound: disturbances of the environment, all kinds together
    ReviewScope    \* "Any", or "AtRest": the postings reviewers decide on

ASSUME RoomChargeConstants ==
    /\ Conn = PNum
    /\ NotPosted \subseteq AnswerCode \cap Confirmable
    /\ MaxFaults \in Nat
    /\ ReviewScope \in {"Any", "AtRest"}

VARIABLES
    lane,          \* scd's lane goroutine: RunOnce, recovery and catch-up
    pmsRoom,       \* the PMS: the guest's room, Away after check-out
    inbox,         \* the last record of the stay pmsd read from the link
    processed,     \* the PMS: P#s it will not process any more
    folio,         \* the PMS: P#s debited to the reservation
    pa,            \* answers the PMS has sent and pmsd has not read
    faults         \* disturbances so far

envVars == <<pmsRoom, inbox, processed, folio, pa>>
vars == <<ledgerVars, relayVars, lane, envVars, faults>>

LaneState == {"idle", "dial", "wait", "settle", "outcome"}
Lane == [pc: LaneState, p: Posting \cup {0}, n: PNum \cup {0},
         result: Result \cup {"none"}, as: AnswerCode \cup {"none"}]
IdleLane == [pc |-> "idle", p |-> 0, n |-> 0, result |-> "none", as |-> "none"]

\* Type correctness of the whole pipeline.
TypeOK ==
    /\ LedgerTypeOK
    /\ RelayTypeOK
    /\ lane \in Lane
    /\ pmsRoom \in [Stay -> Room \cup {Away}]
    /\ inbox \in [Stay -> Room \cup {Away}]
    /\ processed \in SUBSET PNum
    /\ folio \in SUBSET PNum
    /\ pa \in [PNum -> AnswerCode \cup {"none"}]
    /\ faults \in 0 .. MaxFaults

Init ==
    /\ pmsRoom \in [Stay -> Room]
    /\ inbox = pmsRoom
    /\ LedgerInit(pmsRoom)
    /\ RelayInit
    /\ lane = IdleLane
    /\ processed = {} /\ folio = {}
    /\ pa = [n \in PNum |-> "none"]
    /\ faults = 0

Disturb == faults < MaxFaults /\ faults' = faults + 1
Calm == faults' = faults

-----------------------------------------------------------------------------
(* scd: the lane (engine.go, posting_worker.go) *)

LaneBegins(p) ==
    /\ lane.pc = "idle"
    /\ BeginAttempt(p)
    /\ lane' = [IdleLane EXCEPT !.pc = "dial", !.p = p, !.n = nextP]
    /\ UNCHANGED <<relayVars, envVars>> /\ Calm

LaneRefuses(p) ==
    /\ lane.pc = "idle"
    /\ AbortBeforeSend(p) \/ ReturnToReview(p) \/ Decline(p)
    /\ UNCHANGED <<lane, relayVars, envVars>> /\ Calm

\* postinghandoff.Send: a failed dial is the only error that proves nothing was sent.
DialFails ==
    /\ lane.pc = "dial"
    /\ lane' = [lane EXCEPT !.pc = "settle", !.result = "NOT_TRANSMITTED"]
    /\ UNCHANGED <<ledgerVars, relayVars, envVars>> /\ Disturb

HandsOff ==
    /\ lane.pc = "dial"
    /\ Receive(lane.n, lane.n)
    /\ lane' = [lane EXCEPT !.pc = "wait"]
    /\ UNCHANGED <<ledgerVars, envVars>> /\ Calm

\* RunOnce does not trust the transport: a PA with another P# leaves the attempt UNKNOWN.
Correlated(n, r) == IF r.result = "ANSWERED" /\ r.pa.pn # n THEN "UNKNOWN" ELSE r.result

GetsResponse ==
    /\ lane.pc = "wait"
    /\ hs[lane.n] = "done" /\ resp[lane.n].result # "none"
    /\ lane' = [lane EXCEPT !.pc = "settle", !.result = Correlated(lane.n, resp[lane.n]),
                            !.as = resp[lane.n].pa.as]
    /\ UNCHANGED <<ledgerVars, relayVars, envVars>> /\ Calm

\* The connection broke because pmsd stopped.
LosesConnection ==
    /\ lane.pc = "wait"
    /\ hs[lane.n] = "done" /\ resp[lane.n].result = "none"
    /\ lane' = [lane EXCEPT !.pc = "settle", !.result = "UNKNOWN"]
    /\ UNCHANGED <<ledgerVars, relayVars, envVars>> /\ Calm

\* Send's own deadline passes while pmsd still works on the command, or an answer
\* it wrote cannot be read.
ResponseLost ==
    /\ lane.pc = "wait"
    /\ lane' = [lane EXCEPT !.pc = "settle", !.result = "UNKNOWN"]
    /\ UNCHANGED <<ledgerVars, relayVars, envVars>> /\ Disturb

Settles ==
    /\ lane.pc = "settle"
    /\ SettleAttempt(lane.n, lane.result, lane.as)
    /\ lane' = IF SettleOutcome(lane.result, lane.as) = "NOT_SENT" THEN IdleLane
               ELSE [IdleLane EXCEPT !.pc = "outcome", !.p = lane.p]
    /\ UNCHANGED <<relayVars, envVars>> /\ Calm

FollowsOutcome ==
    /\ lane.pc = "outcome"
    /\ SettlementFollows(lane.p)
    /\ lane' = IdleLane
    /\ UNCHANGED <<relayVars, envVars>> /\ Calm

\* scd stops, or the transaction it was about to run fails.
WorkerStops ==
    /\ lane.pc # "idle"
    /\ lane' = IdleLane
    /\ UNCHANGED <<ledgerVars, relayVars, envVars>> /\ Disturb

\* postingLoop runs both with no lane in progress (lanes.wait).
RecoversOrphan(n) ==
    /\ lane.pc = "idle"
    /\ ConcludeOrphan(n)
    /\ lane' = [IdleLane EXCEPT !.pc = "outcome", !.p = att[n].posting]
    /\ UNCHANGED <<relayVars, envVars>> /\ Calm

CatchesUp(p) ==
    /\ lane.pc = "idle"
    /\ NeedsCatchUp(p)
    /\ lane' = [IdleLane EXCEPT !.pc = "outcome", !.p = p]
    /\ UNCHANGED <<ledgerVars, relayVars, envVars>> /\ Calm

-----------------------------------------------------------------------------
(* pmsd: the relay's steps, with the ledger as its authoriser *)

Asks(n) ==
    /\ Authorise(n, CommandVerdict(n))
    /\ UNCHANGED <<ledgerVars, lane, envVars>> /\ Calm

\* The query itself fails.
AuthoriserUnavailable(n) ==
    /\ Authorise(n, "AUTHORISATION_UNAVAILABLE")
    /\ UNCHANGED <<ledgerVars, lane, envVars>> /\ Disturb

RelayStep(n) ==
    /\ \/ CheckCarried(n) \/ Register(n) \/ Submit(n) \/ WriterGone(n)
       \/ TakeAnswer(n) \/ GiveUp(n)
    /\ UNCHANGED <<ledgerVars, lane, envVars>> /\ Calm

WriterStep(n) ==
    /\ LET g == stayOf[att[n].posting] IN
       GuardRefuses(n, g, att[n].rn) \/ Write(n, g, att[n].rn)
    /\ UNCHANGED <<ledgerVars, lane, envVars>> /\ Calm

WriterBreaks(n) ==
    /\ WriteFails(n, stayOf[att[n].posting], att[n].rn)
    /\ UNCHANGED <<ledgerVars, lane, envVars>> /\ Disturb

LinkCycles ==
    /\ LinkUp \/ DetachEnds
    /\ UNCHANGED <<ledgerVars, lane, envVars>> /\ Calm

\* The sweep describes every guest in house; the one it does not mention is gone.
SweepEnds ==
    /\ ResyncEnds([s \in {t \in Stay : pmsRoom[t] # Away} |-> pmsRoom[s]])
    /\ inbox' = pmsRoom
    /\ UNCHANGED <<ledgerVars, lane, pmsRoom, processed, folio, pa>> /\ Calm

LinkStep ==
    /\ \/ (ResyncBegins \/ WriterEnds) /\ Disturb
       \/ ResyncUnanswered /\ Calm
    /\ UNCHANGED <<ledgerVars, lane, envVars>>

\* The link drops, or pmsd stops: what the PMS had answered is lost with it.
LinkLost ==
    /\ \/ LinkDown /\ (IF link = "BROKEN" THEN Calm ELSE Disturb)
       \/ RelayStops /\ Disturb
    /\ pa' = [n \in PNum |-> "none"]
    /\ UNCHANGED <<ledgerVars, lane, pmsRoom, inbox, processed, folio>>

PaArrives(n) ==
    /\ pa[n] # "none"
    /\ DeliverPA(n, pa[n])
    /\ pa' = [pa EXCEPT ![n] = "none"]
    /\ UNCHANGED <<ledgerVars, lane, pmsRoom, inbox, processed, folio>> /\ Calm

-----------------------------------------------------------------------------
(* The PMS (external) and its guest feed *)

\* The PMS answers a PS: OK means debited, a NotPosted code means not debited, any
\* other code says nothing.
PmsAnswers(n, as) ==
    /\ n \in onWire \ processed
    /\ link \notin {"DOWN", "DETACHING"}
    /\ processed' = processed \cup {n}
    /\ pa' = [pa EXCEPT ![n] = as]
    /\ \/ as \notin NotPosted /\ folio' = folio \cup {n}
       \/ as # "OK" /\ UNCHANGED folio
    /\ UNCHANGED <<ledgerVars, relayVars, lane, pmsRoom, inbox>> /\ Calm

\* It debits without an answer, or the PS never reaches it whole.
PmsSilent(n) ==
    /\ n \in onWire \ processed
    /\ processed' = processed \cup {n}
    /\ folio' \in {folio, folio \cup {n}}
    /\ UNCHANGED <<ledgerVars, relayVars, lane, pmsRoom, inbox, pa>> /\ Calm

\* A guest changes rooms or checks out; an open link announces it at once.
GuestMoves(s, r) ==
    /\ pmsRoom[s] # Away /\ r # pmsRoom[s]
    /\ pmsRoom' = [pmsRoom EXCEPT ![s] = r]
    /\ IF link \notin {"DOWN", "DETACHING"}
       THEN /\ Observe(s, r)
            /\ inbox' = [inbox EXCEPT ![s] = r]
       ELSE UNCHANGED <<relayVars, inbox>>
    /\ UNCHANGED <<ledgerVars, lane, processed, folio, pa>> /\ Disturb

FeedApplied(s) ==
    /\ stays[s] # inbox[s] \/ "PMS_DATA_SUSPECT" \in blocks[s]
    /\ ApplyGuestRecord(s, inbox[s])
    /\ UNCHANGED <<relayVars, lane, envVars>> /\ Calm

-----------------------------------------------------------------------------
(* Guests and operators *)

GuestBuys(p, s) ==
    /\ CreateRoomCharge(p, s)
    /\ UNCHANGED <<relayVars, lane, envVars>> /\ Calm

Debits(p) == folio \cap AttemptsOf(p)

\* Nothing of the posting can still change the folio.
Quiet(p) ==
    \A n \in AttemptsOf(p) :
        /\ n \in onWire => n \in processed
        /\ hs[n] \in {"idle", "done"}
        /\ lane.n = n => lane.pc # "dial"

\* The evidence a decision needs: the reviewer looked at the folio, and late enough.
Truthful(p, action) ==
    IF action \in {"CONFIRM_POSTED", "CREATE_REVERSAL"} THEN Debits(p) # {}
    ELSE Quiet(p) /\ Debits(p) = {}

\* An assumption some runs make; the database admits decisions on other rows as well.
AtRest(p) == outbox[p] \in {"HELD_RECOVERY", "DONE"} /\ p \notin parked

Reviews(p, action) ==
    /\ Truthful(p, action)
    /\ ReviewScope = "AtRest" => AtRest(p)
    /\ DecideReview(p, action)
    /\ UNCHANGED <<relayVars, lane, envVars>> /\ Calm

Requeues(p) ==
    /\ RequeueParked(p)
    /\ UNCHANGED <<relayVars, lane, envVars>> /\ Calm

\* The vendor confirms only what is true of this PMS; a confirmation can be withdrawn.
Confirms(as) ==
    /\ RecordConfirmation(as)
    /\ IF as \in confirmed THEN Disturb ELSE as \in NotPosted /\ Calm
    /\ UNCHANGED <<relayVars, lane, envVars>>

Blocks(s) ==
    /\ AdminBlock(s)
    /\ IF "ADMIN_BLOCK" \in blocks[s] THEN Calm ELSE Disturb
    /\ UNCHANGED <<relayVars, lane, envVars>>

LifecycleSet(l) ==
    /\ SetLifecycle(l)
    /\ IF l = "ACTIVE" THEN Calm ELSE Disturb
    /\ UNCHANGED <<relayVars, lane, envVars>>

Retires ==
    /\ Decommission
    /\ UNCHANGED <<relayVars, lane, envVars>> /\ Disturb

AxisChanges ==
    /\ \/ FreshnessChanges /\ (IF fresh THEN Disturb ELSE Calm)
       \/ PinnedConfigChanges /\ (IF pinned THEN Disturb ELSE Calm)
    /\ UNCHANGED <<relayVars, lane, envVars>>

-----------------------------------------------------------------------------
LaneStep ==
    \/ \E p \in Posting : LaneBegins(p) \/ LaneRefuses(p)
    \/ DialFails \/ HandsOff \/ GetsResponse \/ LosesConnection \/ ResponseLost
    \/ Settles \/ FollowsOutcome \/ WorkerStops
    \/ \E n \in PNum : RecoversOrphan(n)
    \/ \E p \in Posting : CatchesUp(p)

PmsdStep ==
    \/ \E n \in PNum : \/ Asks(n) \/ AuthoriserUnavailable(n) \/ RelayStep(n)
                       \/ WriterStep(n) \/ WriterBreaks(n) \/ PaArrives(n)
    \/ LinkCycles \/ SweepEnds \/ LinkStep \/ LinkLost

EnvStep ==
    \/ \E n \in PNum : PmsSilent(n) \/ \E as \in AnswerCode : PmsAnswers(n, as)
    \/ \E s \in Stay : \/ FeedApplied(s) \/ Blocks(s)
                       \/ \E r \in Room \cup {Away} : GuestMoves(s, r)
    \/ \E p \in Posting : \/ Requeues(p) \/ \E s \in Stay : GuestBuys(p, s)
                          \/ \E a \in TerminalAction : Reviews(p, a)
    \/ \E as \in Confirmable : Confirms(as)
    \/ \E l \in Lifecycle : LifecycleSet(l)
    \/ Retires \/ AxisChanges

Next == LaneStep \/ PmsdStep \/ EnvStep

Spec == Init /\ [][Next]_vars

(* Fairness.  The lane goroutine runs to its end once started and postingLoop's      *)
(* tickers keep calling recovery and catch-up after lanes.wait(); a handler of pmsd  *)
(* ends by its deadlines (5 s authorisation, write deadline, answer timer).  Nothing *)
(* is assumed of the PMS, the link, guests or operators.                             *)
LaneProgress == GetsResponse \/ LosesConnection \/ Settles \/ FollowsOutcome \/ HandsOff
Fairness ==
    /\ WF_vars(LaneProgress)
    /\ \A n \in PNum : /\ WF_vars(RecoversOrphan(n))
                       /\ WF_vars(Asks(n) \/ RelayStep(n) \/ WriterStep(n))
    /\ \A p \in Posting : SF_vars(CatchesUp(p))
FairSpec == Spec /\ Fairness

-----------------------------------------------------------------------------
(* Properties: the money *)

\* One transmission per authorisation: of two PS records of one charge that may have
\* reached the PMS, the later one is at or after the attempt that consumed the audited
\* CONFIRM_NOT_POSTED_RETRY and the earlier one before it.  No retry, recovery,
\* requeue or late write adds a third, or a second without the decision.
OneTransmissionPerAuthorisation ==
    \A p \in Posting : \A m, n \in onWire \cap AttemptsOf(p) :
        m < n => m < review[p].used /\ review[p].used <= n

\* NOT_SENT is a proof: an attempt the ledger records as NOT_SENT (and will retry
\* without asking anyone) never reached the writer's first byte.
NotSentNeverOnWire == \A n \in PNum : att[n].outcome = "NOT_SENT" => n \notin onWire

\* A charge is debited to the reservation at most once, whatever the retries, provided
\* reviewers decide on the evidence.
DebitedAtMostOnce == \A p \in Posting : \A m, n \in Debits(p) : m = n

\* Internet access is granted only against a debit: SETTLED comes with a folio entry.
GrantedIsDebited == \A p \in Posting : settlement[p] = "SETTLED" => Debits(p) # {}

(* Properties: the ledger's own consistency *)

\* The lane cannot wedge on its head: a QUEUED row is always one whose next attempt
\* the retry gate admits (a refused insert would roll the claim back for ever).
QueuedIsSendable == \A p \in Posting : outbox[p] = "QUEUED" => RetryGate(p)

(* Properties: steps *)

\* The room on the wire is the one the PMS last announced for a guest still in house,
\* whatever moved between building the command and its first byte, and across links;
\* except while detach withdraws the port.
WrittenRoomIsAnnounced ==
    [][link # "DETACHING" =>
          \A n \in onWire' \ onWire :
             LET s == stayOf[att[n].posting] IN
             pmsRoom[s] # Away => att[n].rn = inbox[s]]_vars

(* Properties: progress *)

\* No attempt stays SENDING: the lane concludes it or recovery does.
SendingConcludes ==
    \A n \in PNum : att[n].outcome = "SENDING" ~> att[n].outcome \notin {"NONE", "SENDING"}

\* A first attempt's conclusive outcome reaches the settlement, crashes included.
OutcomeReachesSettlement ==
    \A p \in Posting : NeedsCatchUp(p) ~> settlement[p] # "IN_PROGRESS"

-----------------------------------------------------------------------------
(* What the pipeline promises, and how its state reads as the promise's *)

ChargeStatus(p) == IF RoomChargeOpen(p) THEN "OPEN" ELSE settlement[p]

Contract ==
    INSTANCE ChargeContract WITH
        Charge  <- Posting,
        status  <- [p \in Posting |-> ChargeStatus(p)],
        sends   <- [p \in Posting |-> Cardinality(onWire \cap AttemptsOf(p))],
        retries <- [p \in Posting |-> IF review[p].term = "CONFIRM_NOT_POSTED_RETRY" THEN 1 ELSE 0],
        debits  <- [p \in Posting |-> Cardinality(Debits(p))]

\* The pipeline implements the contract: through crashes, lost answers, late writes,
\* recovery and review, a charge is transmitted once per authorisation, debited once,
\* granted only when debited, failed only when not, and left alone once it is final.
KeepsContract == Contract!Spec

=============================================================================
