---------------------------- MODULE CardCheckout ----------------------------
(***************************************************************************)
(* Hosted card checkout: the purchase request that starts a checkout, the  *)
(* two callers of Reconcile (the return page and scd's background loop),   *)
(* the loop's other passes (unstarted purchases, captured but ungranted,   *)
(* the reversal sweep, the late-capture re-query), the payment provider,   *)
(* the guest, finance operators and financial recovery.                    *)
(*                                                                         *)
(* Every step is one database transaction or one provider call, so that    *)
(* whatever a caller has read may be old when it is used.                  *)
(***************************************************************************)
EXTENDS CardLedger

CONSTANTS Pages,           \* concurrent requests of the return page
          RecheckEnabled,  \* STAYCONNECT_PHASE4_PAYMENT_RECHECK
          MaxFaults,       \* bound on crashes, failed transactions and failed calls
          MaxEpochs,       \* bound on declared recovery epochs
          MaxResolved      \* bound on the cases of a charge that finance closes

ASSUME CheckoutAssumption ==
    /\ RecheckEnabled \in BOOLEAN
    /\ MaxFaults \in Nat
    /\ MaxEpochs \in Nat
    /\ MaxResolved \in Nat
    /\ "loop" \notin Pages

VARIABLES age,      \* of the checkout: see Tick
          buyer,    \* where the purchase request is in StartCheckout
          work,     \* where each caller is in Reconcile or in its pass
          prov,     \* the checkout at the provider
          pRefund,  \* money the provider has refunded
          pCase,    \* a dispute at the provider
          feed,     \* refunds are reported one by one, or as a running total
          faults    \* faults so far

procVars == <<age, buyer, work>>
provVars == <<prov, pRefund, pCase, feed>>
vars == <<ledgerVars, procVars, provVars, faults>>

Workers == Pages \cup {"loop"}

Event == [kind : {"REFUND", "CHARGEBACK", "DISPUTE"}, id : 1..Price, amount : 1..Price,
          total : BOOLEAN]
Verdict == [status : {"NONE", "CAPTURED", "FAILED", "UNKNOWN"}, reason : Reason]
NoVerdict == [status |-> "NONE", reason |-> "none"]
Idle(p) == [pc |-> "idle", job |-> "reconcile", p |-> p, seen |-> "PENDING", aged |-> 0,
            verdict |-> NoVerdict, evs |-> {}, touched |-> FALSE]

Init ==
    /\ LedgerInit
    /\ age = [p \in Purchases |-> 0]
    /\ buyer = [p \in Purchases |-> "idle"]
    /\ work \in [Workers -> {Idle(p) : p \in Purchases}]
    /\ prov = [p \in Purchases |-> "NONE"]
    /\ pRefund = [p \in Purchases |-> 0]
    /\ pCase = [p \in Purchases |-> "NONE"]
    /\ feed \in {"EACH", "TOTAL"}
    /\ faults = 0

Fault == faults < MaxFaults /\ faults' = faults + 1

-----------------------------------------------------------------------------
(* The purchase request: create the purchase, then StartCheckout.          *)

Buy(p) ==
    /\ buyer[p] = "idle"
    /\ InsertPurchase(p)
    /\ buyer' = [buyer EXCEPT ![p] = "bought"]
    /\ UNCHANGED <<age, work, provVars, faults>>

\* No account, no adapter, live mode refused: nothing is started.
CheckoutUnavailable(p) ==
    /\ buyer[p] = "bought"
    /\ buyer' = [buyer EXCEPT ![p] = "done"]
    /\ UNCHANGED <<ledgerVars, age, work, provVars, faults>>

\* The transaction of StartCheckout passes its gates ...
StartGate(p) ==
    /\ buyer[p] = "bought"
    /\ buyer' = [buyer EXCEPT ![p] = IF MayStart(p) THEN "gated" ELSE "done"]
    /\ UNCHANGED <<ledgerVars, age, work, provVars, faults>>

\* ... and commits, possibly after a recovery declared in between.
StartCommit(p) ==
    /\ buyer[p] = "gated"
    /\ CommitCheckout(p)
    /\ age' = [age EXCEPT ![p] = 0]
    /\ buyer' = [buyer EXCEPT ![p] = "creating"]
    /\ UNCHANGED <<work, provVars, faults>>

\* CreateCheckout: created; provably not created; or nobody knows.
CallCreate(p) ==
    /\ buyer[p] = "creating"
    /\ \E r \in {<<"created", "OPEN">>, <<"refused", "NONE">>, <<"ambiguous", "OPEN">>,
                 <<"ambiguous", "NONE">>} :
          /\ buyer' = [buyer EXCEPT ![p] = r[1]]
          /\ prov' = [prov EXCEPT ![p] = r[2]]
    /\ UNCHANGED <<ledgerVars, age, work, pRefund, pCase, feed, faults>>

\* The answer is saved.  A refused checkout is then concluded by the outcome authority.
SaveCreation(p) ==
    /\ \/ buyer[p] = "created" /\ SetCreation(p, "CREATED")
       \/ buyer[p] = "refused" /\ SetCreation(p, "NOT_CREATED")
       \/ buyer[p] = "ambiguous" /\ SetCreation(p, "AMBIGUOUS")
    /\ buyer' = [buyer EXCEPT ![p] = IF @ = "refused" THEN "concluding" ELSE "done"]
    /\ UNCHANGED <<age, work, provVars, faults>>

ConcludeNotCreated(p) ==
    /\ buyer[p] = "concluding"
    /\ ApplyOutcome(p, "FAILED", "not_created")
    /\ buyer' = [buyer EXCEPT ![p] = "done"]
    /\ UNCHANGED <<age, work, provVars, faults>>

\* A statement fails: the request ends (a failed save of NOT_CREATED is ignored).
RequestFails(p) ==
    /\ Fault
    /\ buyer[p] \in {"gated", "created", "refused", "ambiguous", "concluding"}
    /\ buyer' = [buyer EXCEPT ![p] = IF @ = "refused" THEN "concluding" ELSE "done"]
    /\ UNCHANGED <<ledgerVars, age, work, provVars>>

-----------------------------------------------------------------------------
(* The provider and the guest (external).                                  *)

\* Without a saved redirect nobody has an address to pay at.  A closed checkout (declined
\* or expired) may still be captured late.
GuestPays(p) ==
    /\ prov[p] \in {"OPEN", "CLOSED"} /\ creation[p] = "CREATED"
    /\ \E r \in {"PAID", "MISPAID"} : prov' = [prov EXCEPT ![p] = r]
    /\ UNCHANGED <<ledgerVars, procVars, pRefund, pCase, feed, faults>>

CheckoutCloses(p) ==
    /\ prov[p] = "OPEN"
    /\ prov' = [prov EXCEPT ![p] = "CLOSED"]
    /\ UNCHANGED <<ledgerVars, procVars, pRefund, pCase, feed, faults>>

MerchantRefunds(p) ==
    /\ prov[p] = "PAID" /\ pRefund[p] < Price
    /\ pRefund' = [pRefund EXCEPT ![p] = @ + 1]
    /\ UNCHANGED <<ledgerVars, procVars, prov, pCase, feed, faults>>

CardholderDisputes(p) ==
    /\ feed = "EACH" /\ prov[p] = "PAID" /\ pCase[p] # "LOST"
    /\ pCase' = [pCase EXCEPT ![p] = IF @ = "NONE" THEN "DISPUTE" ELSE "LOST"]
    /\ UNCHANGED <<ledgerVars, procVars, prov, pRefund, feed, faults>>

\* What QueryStatus reports besides the state: Stripe lists refunds and disputes, Paymob
\* has only the total refunded.
Events(p) ==
    (IF feed = "EACH"
     THEN {[kind |-> "REFUND", id |-> k, amount |-> 1, total |-> FALSE] : k \in 1..pRefund[p]}
     ELSE {[kind |-> "REFUND", id |-> k, amount |-> k, total |-> TRUE] : k \in {pRefund[p]} \ {0}})
    \cup (IF pCase[p] = "NONE" THEN {}
          ELSE {[kind |-> IF pCase[p] = "LOST" THEN "CHARGEBACK" ELSE "DISPUTE",
                 id |-> 1, amount |-> Price, total |-> FALSE]})

\* Without a session reference an unpaid checkout may not be found.
Answers(p, seen) ==
    CASE prov[p] = "NONE"    -> {"NOT_FOUND"}
      [] prov[p] = "OPEN"    -> IF seen = "CREATED" THEN {"OPEN"} ELSE {"OPEN", "NOT_FOUND"}
      [] prov[p] = "CLOSED"  -> IF seen = "CREATED" THEN {"DECLINED"} ELSE {"DECLINED", "NOT_FOUND"}
      [] prov[p] = "PAID"    -> {"CAPTURED"}
      [] prov[p] = "MISPAID" -> {"MISMATCH"}

-----------------------------------------------------------------------------
(* Time.  0: fresh; 1: reconcile grace after creation is over; 2: expiry   *)
(* plus grace, the deadline, is over; 3: the last late-capture re-query of *)
(* its window is over.  A request ends within the grace (its calls have    *)
(* timeouts).  A window holds several re-queries six hours apart, so a     *)
(* capture visible inside it is asked about before it closes.  Time is not *)
(* followed once the charge is captured: nothing reads it any more.        *)

CapturedAtProvider(p) == prov[p] \in {"PAID", "MISPAID"}

\* Mutant of LateCaptureCandidate: a charge recorded as FAILED is not asked about again.
LateCaptureCandidateUnknownOnly(p) ==
    /\ txn[p] = "UNKNOWN" /\ age[p] < 3 /\ cases[p]["LATE_CAPTURE"] = "NONE"

LateCaptureCandidate(p) ==
    /\ txn[p] \in {"FAILED", "UNKNOWN"} /\ age[p] < 3 /\ cases[p]["LATE_CAPTURE"] = "NONE"

Tick(p) ==
    /\ settle[p] # "NONE" /\ buyer[p] = "done" /\ txn[p] # "CAPTURED" /\ age[p] < 3
    /\ age[p] = 2 => /\ txn[p] \in {"FAILED", "UNKNOWN"}
                     /\ ~(RecheckEnabled /\ LateCaptureCandidate(p) /\ CapturedAtProvider(p))
    /\ age' = [age EXCEPT ![p] = @ + 1]
    /\ UNCHANGED <<ledgerVars, buyer, work, provVars, faults>>

-----------------------------------------------------------------------------
(* Reconcile and the passes of the loop.                                   *)

Begin(w, p, pc, job) ==
    /\ work[w].pc = "idle"
    /\ work' = [work EXCEPT ![w] = [Idle(p) EXCEPT !.pc = pc, !.job = job, !.seen = creation[p],
                                                   !.aged = age[p]]]
    /\ UNCHANGED <<ledgerVars, age, buyer, provVars, faults>>

\* The return page asks while the purchase awaits its settlement.
PageReconcile(w, p) ==
    /\ w \in Pages
    /\ buy[p] = "AWAITING_SETTLEMENT" /\ txn[p] # "NONE"
    /\ Begin(w, p, IF txn[p] = "PENDING" THEN "query" ELSE "regrant", "reconcile")

LoopReconcile(p) == txn[p] = "PENDING" /\ Begin("loop", p, "query", "reconcile")

\* Mutant of LoopRegrant: it looks for reviewed purchases only.
LoopRegrantReviewedOnly(p) ==
    /\ txn[p] = "CAPTURED" /\ settle[p] = "SETTLED" /\ ent[p] = "NONE" /\ buy[p] = "MANUAL_REVIEW"
    /\ Begin("loop", p, "regrant", "reconcile")

\* CapturedStillUngranted: the grant a crash left out.
LoopRegrant(p) ==
    /\ txn[p] = "CAPTURED" /\ settle[p] = "SETTLED" /\ ent[p] = "NONE"
    /\ Begin("loop", p, "regrant", "reconcile")

\* FOR UPDATE SKIP LOCKED: a settlement StartCheckout is working on is skipped.
LoopFailUnstarted(p) ==
    /\ work["loop"].pc = "idle" /\ age[p] >= 2 /\ buyer[p] # "gated"
    /\ FailUnstarted(p)
    /\ UNCHANGED <<age, buyer, work, provVars, faults>>

LoopSweep(p) == txn[p] = "CAPTURED" /\ Begin("loop", p, "query", "sweep")

LoopRecheck(p) == RecheckEnabled /\ LateCaptureCandidate(p) /\ Begin("loop", p, "query", "recheck")

\* Mutants: a capture of another amount is a capture; NOT_FOUND is believed at once; an open checkout is waited
\* for without end.
MismatchIsCapture == "CAPTURED"
NotFoundAtOnce(seen, aged) == aged >= 0
OpenForEver(aged) == FALSE

MismatchOutcome == "UNKNOWN"
NotFoundProves(seen, aged) == aged >= 2 \/ (seen = "AMBIGUOUS" /\ aged >= 1)
OpenIsOver(aged) == aged >= 2

\* queryAndApply's decision about an answer: which outcome to apply, if any.  The clock was
\* read before the query, with the row.
Decide(seen, aged, answer) ==
    LET outcome(s, r) == [status |-> s, reason |-> r]
    IN CASE answer = "CAPTURED"  -> outcome("CAPTURED", "captured")
         [] answer = "MISMATCH"  -> outcome(MismatchOutcome, "mismatch")
         [] answer = "DECLINED"  -> outcome("FAILED", "declined")
         [] answer = "NOT_FOUND" -> IF NotFoundProves(seen, aged) THEN outcome("FAILED", "not_found") ELSE NoVerdict
         [] answer = "OPEN"      -> IF OpenIsOver(aged) THEN outcome("UNKNOWN", "open_after_grace") ELSE NoVerdict
         [] answer = "ERROR"     -> IF aged >= 2 THEN outcome("UNKNOWN", "unresolved") ELSE NoVerdict

Goto(w, pc) ==
    work' = [work EXCEPT ![w] = IF pc = "idle" THEN Idle(@.p) ELSE [@ EXCEPT !.pc = pc]]

Hears(w, answer) ==
    LET p == work[w].p
        v == Decide(work[w].seen, work[w].aged, answer)
        told == IF answer = "CAPTURED" THEN Events(p) ELSE {}
    IN CASE work[w].job = "reconcile" ->
              work' = [work EXCEPT ![w].pc = IF v = NoVerdict THEN "regrant" ELSE "apply",
                                   ![w].verdict = v, ![w].evs = told, ![w].seen = "PENDING", ![w].aged = 0]
         [] work[w].job = "sweep" ->
              IF told = {} THEN Goto(w, "idle")
              ELSE work' = [work EXCEPT ![w].pc = "events", ![w].evs = told, ![w].seen = "PENDING", ![w].aged = 0]
         [] work[w].job = "recheck" ->
              IF answer \in {"CAPTURED", "MISMATCH"}
              THEN work' = [work EXCEPT ![w].pc = "late", ![w].seen = "PENDING", ![w].aged = 0]
              ELSE Goto(w, "idle")

Query(w) ==
    /\ work[w].pc = "query"
    /\ \/ \E answer \in Answers(work[w].p, work[w].seen) : Hears(w, answer) /\ UNCHANGED faults
       \/ Fault /\ Hears(w, "ERROR")
    /\ UNCHANGED <<ledgerVars, age, buyer, provVars>>

\* After an admitted capture queryAndApply grants and records; any other outcome, or a
\* refusal, returns to Reconcile.
Apply(w) ==
    LET p == work[w].p
        v == work[w].verdict
        captured == v.status = "CAPTURED" /\ OutcomeAdmitted(p, "CAPTURED")
    IN /\ work[w].pc = "apply"
       /\ ApplyOutcome(p, v.status, v.reason)
       /\ work' = [work EXCEPT ![w].pc = IF captured THEN "grant" ELSE "regrant",
                               ![w].verdict = NoVerdict,
                               ![w].evs = IF captured THEN @ ELSE {}]
       /\ UNCHANGED <<age, buyer, provVars, faults>>

GrantCaptured(w) ==
    /\ work[w].pc = "grant"
    /\ Grant(work[w].p)
    /\ Goto(w, IF work[w].evs = {} THEN "regrant" ELSE "events")
    /\ UNCHANGED <<age, buyer, provVars, faults>>

AfterEvents(w) == IF work[w].job = "sweep" THEN "idle" ELSE "regrant"

\* Mutant of NextEvent: the policy runs only when an event was new.
NextEventNewOnly(w, e) ==
    LET rest    == work[w].evs \ {e}
        touched == work[w].touched \/ (e.kind # "DISPUTE"
                                        /\ <<e.kind, e.id>> \notin recorded[work[w].p])
    IN IF rest = {} /\ ~touched THEN work' = [work EXCEPT ![w].evs = {}, ![w].pc = AfterEvents(w)]
       ELSE work' = [work EXCEPT ![w].evs = rest, ![w].touched = touched,
                                 ![w].pc = IF rest = {} THEN "policy" ELSE "events"]

\* The loop of recordReversals over one event.
NextEvent(w, e) ==
    LET rest    == work[w].evs \ {e}
        touched == work[w].touched \/ e.kind # "DISPUTE"
    IN IF rest = {} /\ ~touched THEN work' = [work EXCEPT ![w].evs = {}, ![w].pc = AfterEvents(w)]
       ELSE work' = [work EXCEPT ![w].evs = rest, ![w].touched = touched,
                                 ![w].pc = IF rest = {} THEN "policy" ELSE "events"]

RecordEvent(w) ==
    /\ work[w].pc = "events"
    /\ \E e \in work[w].evs :
          /\ IF e.kind = "DISPUTE" THEN OpenDisputeReview(work[w].p)
                                   ELSE RecordReversal(work[w].p, e)
          /\ NextEvent(w, e)
    /\ UNCHANGED <<age, buyer, provVars, faults>>

Policy(w) ==
    /\ work[w].pc = "policy"
    /\ ApplyRefundPolicy(work[w].p)
    /\ work' = [work EXCEPT ![w] = IF AfterEvents(w) = "idle" THEN Idle(@.p)
                                   ELSE [Idle(@.p) EXCEPT !.pc = "regrant"]]
    /\ UNCHANGED <<age, buyer, provVars, faults>>

\* Reconcile's last act: a captured charge whose grant did not happen is granted.
Regrant(w) ==
    /\ work[w].pc = "regrant"
    /\ IF txn[work[w].p] = "CAPTURED" THEN Grant(work[w].p) ELSE UNCHANGED ledgerVars
    /\ Goto(w, "idle")
    /\ UNCHANGED <<age, buyer, provVars, faults>>

OpenLate(w) ==
    /\ work[w].pc = "late"
    /\ OpenLateCaptureReview(work[w].p)
    /\ Goto(w, "idle")
    /\ UNCHANGED <<age, buyer, provVars, faults>>

\* A transaction fails and changes nothing; the caller logs it and goes on as it would.
StepFails(w) ==
    /\ Fault
    /\ \/ work[w].pc = "apply" /\ work' = [work EXCEPT ![w] = [Idle(@.p) EXCEPT !.pc = "regrant"]]
       \/ work[w].pc = "grant" /\ Goto(w, IF work[w].evs = {} THEN "regrant" ELSE "events")
       \/ work[w].pc = "events" /\ \E e \in work[w].evs : NextEvent(w, e)
       \/ work[w].pc = "policy" /\ work' = [work EXCEPT ![w] =
             IF AfterEvents(w) = "idle" THEN Idle(@.p) ELSE [Idle(@.p) EXCEPT !.pc = "regrant"]]
       \/ work[w].pc \in {"regrant", "late"} /\ Goto(w, "idle")
    /\ UNCHANGED <<ledgerVars, age, buyer, provVars>>

\* scd stops: what it had read and not yet written is gone.
Crash ==
    /\ Fault
    /\ work' = [w \in Workers |-> Idle(work[w].p)]
    /\ buyer' = [p \in Purchases |-> IF buyer[p] = "idle" THEN "idle" ELSE "done"]
    /\ UNCHANGED <<ledgerVars, age, provVars>>

WorkerStep(w) ==
    \/ Query(w) \/ Apply(w) \/ GrantCaptured(w) \/ RecordEvent(w) \/ Policy(w) \/ Regrant(w)
    \/ OpenLate(w)

-----------------------------------------------------------------------------
(* Finance operators, and whatever else ends access.                       *)

CloseCase(p) ==
    /\ Cardinality({k \in CaseKind : cases[p][k] = "RESOLVED"}) < MaxResolved
    /\ \E k \in CaseKind, end \in BOOLEAN : ResolveCase(p, k, end)
    /\ UNCHANGED <<procVars, provVars, faults>>

EnterRecovery == epochs < MaxEpochs /\ DeclareRecovery /\ UNCHANGED <<procVars, provVars, faults>>

DecideHold ==
    /\ \E h \in holds, notCompleted \in BOOLEAN : ResolveHold(h, notCompleted)
    /\ UNCHANGED <<procVars, provVars, faults>>

LeaveRecovery == ReleaseRecovery /\ UNCHANGED <<procVars, provVars, faults>>

OtherEnd(p) == AccessEnds(p) /\ UNCHANGED <<procVars, provVars, faults>>

Request(p) ==
    \/ StartGate(p) \/ StartCommit(p) \/ CallCreate(p) \/ SaveCreation(p)
    \/ ConcludeNotCreated(p)

Next ==
    \/ \E p \in Purchases :
          \/ Buy(p) \/ CheckoutUnavailable(p) \/ Request(p) \/ RequestFails(p)
          \/ GuestPays(p) \/ CheckoutCloses(p) \/ MerchantRefunds(p) \/ CardholderDisputes(p)
          \/ Tick(p)
          \/ LoopReconcile(p) \/ LoopRegrant(p) \/ LoopFailUnstarted(p) \/ LoopSweep(p)
          \/ LoopRecheck(p)
          \/ CloseCase(p) \/ OtherEnd(p)
    \/ \E w \in Workers :
          \/ WorkerStep(w) \/ StepFails(w)
          \/ \E p \in Purchases : PageReconcile(w, p)
    \/ Crash
    \/ EnterRecovery \/ DecideHold \/ LeaveRecovery

Spec == Init /\ [][Next]_vars

(* Requests and callers finish what they began, time passes, and every     *)
(* round of the loop starts every pass: a pass is infinitely often         *)
(* possible (the loop is idle between two), hence SF.                      *)
FairSpec ==
    /\ Spec
    /\ \A p \in Purchases : WF_vars(Request(p)) /\ WF_vars(Tick(p))
    /\ \A w \in Workers : WF_vars(WorkerStep(w))
    /\ \A p \in Purchases :
          /\ SF_vars(LoopReconcile(p)) /\ SF_vars(LoopRegrant(p))
          /\ SF_vars(LoopFailUnstarted(p)) /\ SF_vars(LoopSweep(p)) /\ SF_vars(LoopRecheck(p))

-----------------------------------------------------------------------------
(* Properties.                                                             *)

\* Nothing the browser, an old answer or an operator says grants access: the provider has
\* captured exactly the pinned amount.  Two callers, a mismatch and a recovery in between.
GrantedIsPaid == \A p \in Purchases : ent[p] # "NONE" => prov[p] = "PAID"

\* "The provider has no checkout for this reference.  After the grace, that proves no money
\* moved": a charge concluded as NOT_FOUND or NOT_CREATED is never captured, also later.
NotFoundIsUnpaid ==
    \A p \in Purchases : why[p] \in {"not_found", "not_created"} => ~CapturedAtProvider(p)

\* Two callers record what the provider returned from answers of different ages: the ledger
\* never holds more than really went back, nor more than the charge.
ReversalsAreReal ==
    \A p \in Purchases :
       /\ refunded[p] <= pRefund[p]
       /\ chargedBack[p] > 0 => pCase[p] = "LOST"
       /\ Returned(p) <= Price

\* A settlement in progress always has somebody who will move it: its charge is executing,
\* or its own recovery hold is open.  Otherwise a recovery could never be released.
OpenSettlementIsOwned ==
    \A p \in Purchases :
       settle[p] = "IN_PROGRESS" => txn[p] = "PENDING" \/ <<"SETTLEMENT", p>> \in holds

\* Money fully returned never opens access afterwards, whichever caller grants.
NoGrantAfterFullReturn ==
    [][\A p \in Purchases : ent[p] = "NONE" /\ ent'[p] = "ACTIVE" => Returned(p) < Price]_vars

\* Every purchase gets an answer: one never started fails, an executing charge is concluded
\* whatever the provider says or does not say.
PurchaseConcludes ==
    \A p \in Purchases :
       (settle[p] = "REQUIRED" \/ txn[p] = "PENDING")
          ~> (settle[p] # "REQUIRED" /\ txn[p] # "PENDING")

\* A settled charge is granted, also when the caller that settled it stopped before the grant.
SettledIsGranted ==
    \A p \in Purchases : settle[p] = "SETTLED" ~> (ent[p] # "NONE" \/ settle[p] # "SETTLED")

\* A fully refunded charge does not keep its access, also when the caller that recorded the
\* refund stopped before the policy.
FullRefundEndsAccess ==
    \A p \in Purchases : refunded[p] = Price ~> ent[p] # "ACTIVE"

\* A capture after the charge was recorded as failed or unknown, inside the window, reaches
\* finance.
LateCaptureIsReviewed ==
    \A p \in Purchases :
       (txn[p] \in {"FAILED", "UNKNOWN"} /\ CapturedAtProvider(p) /\ age[p] < 3)
          ~> cases[p]["LATE_CAPTURE"] # "NONE"

-----------------------------------------------------------------------------
(* The promise to guest and hotel, and what the tables and the provider say of it. *)

StatusOf(p) ==
    CASE settle[p] = "NONE"                        -> "NONE"
      [] settle[p] \in {"REQUIRED", "IN_PROGRESS"} -> "OPEN"
      [] settle[p] = "FAILED"                      -> "FAILED"
      [] settle[p] = "MANUAL_REVIEW"               -> "REVIEW"
      [] OTHER                                     -> "SETTLED"

OutcomeOf(p) ==
    IF txn[p] = "FAILED" /\ why[p] \in {"not_found", "not_created"} THEN "VOID" ELSE txn[p]

PaidOf(p) ==
    CASE prov[p] = "PAID" -> "EXACT" [] prov[p] = "MISPAID" -> "OTHER" [] OTHER -> "NO"

\* Money that left again: refunds, and the whole charge with a lost dispute.
GivenBack(p) == pRefund[p] + (IF pCase[p] = "LOST" THEN Price ELSE 0)

AccessOf(p) == IF ent[p] = "TERMINATED" THEN "ENDED" ELSE ent[p]

Contract ==
    INSTANCE PurchaseContract WITH
        Purchase <- Purchases,
        status <- [p \in Purchases |-> StatusOf(p)],
        outcome <- [p \in Purchases |-> OutcomeOf(p)],
        paid <- [p \in Purchases |-> PaidOf(p)],
        returned <- [p \in Purchases |-> GivenBack(p)],
        booked <- [p \in Purchases |-> Returned(p)],
        access <- [p \in Purchases |-> AccessOf(p)]

\* Return page, loop, operators and recovery, each acting on what it read some time ago, do
\* together only what the contract of a purchase allows: one conclusion of a charge, no
\* access without settled money, no conclusion that the provider contradicts.
KeepsPurchaseContract == Contract!Spec

=============================================================================
