----------------------------- MODULE CardLedger -----------------------------
(***************************************************************************)
(* The tables a card payment lives in, and one action per transaction on   *)
(* them: purchases, settlements (method ONLINE_PAYMENT), the CHARGE row    *)
(* and its reversals in payment_transactions, payment_checkouts,           *)
(* entitlements, card_reversal_reviews, and the financial recovery epoch   *)
(* with its holds.                                                         *)
(*                                                                         *)
(* A purchase has one settlement and at most one charge (the idempotency   *)
(* key of a charge is its settlement), so every table is indexed by the    *)
(* purchase.  A CREATED charge is never visible: StartCheckout inserts it  *)
(* and begins its execution in one transaction.                            *)
(***************************************************************************)
EXTENDS Integers, FiniteSets

CONSTANTS Purchases,   \* card purchases
          Price        \* the pinned amount of each, in minor units

ASSUME PriceAssumption == Price \in Nat \ {0}

VARIABLES settle,      \* settlements.status
          buy,         \* purchases.state
          txn,         \* status of the CHARGE
          why,         \* event type of the outcome that concluded the charge
          creation,    \* payment_checkouts.creation_outcome
          ent,         \* the entitlement the purchase paid for
          refunded,    \* sum of the captured REFUND rows of the charge
          chargedBack, \* sum of its captured CHARGEBACK rows
          recorded,    \* provider events that have become such a row
          cases,       \* card_reversal_reviews of the charge
          recovery,    \* an unreleased financial epoch exists
          epochs,      \* how many epochs were declared
          holds        \* unresolved financial_recovery_holds of the epoch

moneyVars == <<settle, buy, txn, why, creation, ent, refunded, chargedBack, recorded, cases>>
recoveryVars == <<recovery, epochs, holds>>
ledgerVars == <<moneyVars, recoveryVars>>

SettleStatus == {"NONE", "REQUIRED", "IN_PROGRESS", "SETTLED", "FAILED", "MANUAL_REVIEW",
                 "PARTIALLY_REVERSED", "REVERSED"}
BuyState == {"NONE", "AWAITING_SETTLEMENT", "GRANTED", "FAILED", "MANUAL_REVIEW"}
TxnStatus == {"NONE", "PENDING", "CAPTURED", "FAILED", "UNKNOWN"}
CaseKind == {"DISPUTE", "CHARGEBACK", "REVERSAL_REFUSED", "LATE_CAPTURE"}
HoldKind == {"PAYMENT_TRANSACTION", "SETTLEMENT"}
Reason == {"none", "captured", "mismatch", "declined", "not_found", "not_created",
           "unresolved", "open_after_grace", "operator"}

LedgerInit ==
    /\ settle = [p \in Purchases |-> "NONE"]
    /\ buy = [p \in Purchases |-> "NONE"]
    /\ txn = [p \in Purchases |-> "NONE"]
    /\ why = [p \in Purchases |-> "none"]
    /\ creation = [p \in Purchases |-> "PENDING"]
    /\ ent = [p \in Purchases |-> "NONE"]
    /\ refunded = [p \in Purchases |-> 0]
    /\ chargedBack = [p \in Purchases |-> 0]
    /\ recorded = [p \in Purchases |-> {}]
    /\ cases = [p \in Purchases |-> [k \in CaseKind |-> "NONE"]]
    /\ recovery = FALSE
    /\ epochs = 0
    /\ holds = {}

Returned(p) == refunded[p] + chargedBack[p]

OpenCase(p, k) ==
    IF cases[p][k] = "NONE" THEN [cases EXCEPT ![p][k] = "OPEN"] ELSE cases

-----------------------------------------------------------------------------
(* Settlement transitions and the purchase that follows them.             *)

\* The trigger on settlements: a failed or reviewed settlement takes its purchase along.
PurchaseFollows(p, s) ==
    IF s = "FAILED" /\ buy[p] \in {"AWAITING_SETTLEMENT", "MANUAL_REVIEW"}
    THEN [buy EXCEPT ![p] = "FAILED"]
    ELSE IF s = "MANUAL_REVIEW" /\ buy[p] = "AWAITING_SETTLEMENT"
         THEN [buy EXCEPT ![p] = "MANUAL_REVIEW"]
         ELSE buy

\* UPDATE settlements SET status = s WHERE status = 'IN_PROGRESS'.
FromInProgress(p, s) ==
    IF settle[p] = "IN_PROGRESS"
    THEN /\ settle' = [settle EXCEPT ![p] = s]
         /\ buy' = PurchaseFollows(p, s)
    ELSE UNCHANGED <<settle, buy>>

SettlementOf(status) ==
    CASE status = "CAPTURED" -> "SETTLED"
      [] status = "FAILED"   -> "FAILED"
      [] status = "UNKNOWN"  -> "MANUAL_REVIEW"

-----------------------------------------------------------------------------
(* The purchase and its checkout.                                         *)

\* The purchase and its REQUIRED settlement are inserted in one transaction.
InsertPurchase(p) ==
    /\ settle[p] = "NONE"
    /\ settle' = [settle EXCEPT ![p] = "REQUIRED"]
    /\ buy' = [buy EXCEPT ![p] = "AWAITING_SETTLEMENT"]
    /\ UNCHANGED <<txn, why, creation, ent, refunded, chargedBack, recorded, cases, recoveryVars>>

\* What StartCheckout's transaction reads before it writes: the settlement is still
\* REQUIRED and neither recovery gate objects.
MayStart(p) == settle[p] = "REQUIRED" /\ txn[p] = "NONE" /\ ~recovery

\* Its commit: the charge is PENDING, the settlement IN_PROGRESS, the checkout recorded.
CommitCheckout(p) ==
    /\ settle[p] = "REQUIRED"
    /\ txn' = [txn EXCEPT ![p] = "PENDING"]
    /\ settle' = [settle EXCEPT ![p] = "IN_PROGRESS"]
    /\ UNCHANGED <<buy, why, creation, ent, refunded, chargedBack, recorded, cases, recoveryVars>>

SetCreation(p, c) ==
    /\ creation' = [creation EXCEPT ![p] = c]
    /\ UNCHANGED <<settle, buy, txn, why, ent, refunded, chargedBack, recorded, cases, recoveryVars>>

\* A REQUIRED card purchase without a charge, older than any checkout could be, fails.
FailUnstarted(p) ==
    /\ settle[p] = "REQUIRED" /\ buy[p] = "AWAITING_SETTLEMENT" /\ txn[p] = "NONE"
    /\ settle' = [settle EXCEPT ![p] = "FAILED"]
    /\ buy' = PurchaseFollows(p, "FAILED")
    /\ UNCHANGED <<txn, why, creation, ent, refunded, chargedBack, recorded, cases, recoveryVars>>

\* p4_apply_provider_outcome raises unless the charge is executing or repeats its outcome.
OutcomeAdmitted(p, status) == txn[p] \in {"PENDING", status}

\* Mutant of ApplyOutcome: an UNKNOWN charge takes the next answer as its outcome.
ApplyOutcomeOverUnknown(p, status, reason) ==
    /\ IF txn[p] \in {"PENDING", "UNKNOWN"}
       THEN /\ txn' = [txn EXCEPT ![p] = status]
            /\ why' = [why EXCEPT ![p] = reason]
            /\ FromInProgress(p, SettlementOf(status))
       ELSE UNCHANGED <<txn, why, settle, buy>>
    /\ UNCHANGED <<creation, ent, refunded, chargedBack, recorded, cases, recoveryVars>>

ApplyOutcome(p, status, reason) ==
    /\ IF txn[p] = "PENDING"
       THEN /\ txn' = [txn EXCEPT ![p] = status]
            /\ why' = [why EXCEPT ![p] = reason]
            /\ FromInProgress(p, SettlementOf(status))
       ELSE UNCHANGED <<txn, why, settle, buy>>
    /\ UNCHANGED <<creation, ent, refunded, chargedBack, recorded, cases, recoveryVars>>

\* Mutant of Grantable: a captured charge is enough.
GrantableOnCapture(p) ==
    /\ txn[p] = "CAPTURED"
    /\ ent[p] = "NONE"
    /\ buy[p] \in {"AWAITING_SETTLEMENT", "MANUAL_REVIEW"}

\* p4_grant_paid_entitlement: nothing short of SETTLED is money; an existing entitlement
\* is returned as it is.
Grantable(p) ==
    /\ settle[p] = "SETTLED"
    /\ ent[p] = "NONE"
    /\ buy[p] \in {"AWAITING_SETTLEMENT", "MANUAL_REVIEW"}

Grant(p) ==
    /\ IF Grantable(p)
       THEN /\ ent' = [ent EXCEPT ![p] = "ACTIVE"]
            /\ buy' = [buy EXCEPT ![p] = "GRANTED"]
       ELSE UNCHANGED <<ent, buy>>
    /\ UNCHANGED <<settle, txn, why, creation, refunded, chargedBack, recorded, cases, recoveryVars>>

\* Access ends for a reason of its own: expiry, check-out, an operator.
AccessEnds(p) ==
    /\ ent[p] = "ACTIVE"
    /\ ent' = [ent EXCEPT ![p] = "TERMINATED"]
    /\ UNCHANGED <<settle, buy, txn, why, creation, refunded, chargedBack, recorded, cases, recoveryVars>>

-----------------------------------------------------------------------------
(* Reversals the provider reports.  An event is [kind, id, amount, total]: *)
(* total says that the amount is the provider's running total of its kind. *)

\* The subtraction of p4_record_provider_reversal_v2, under the lock on the charge.
NewMoney(p, e) ==
    IF e.total THEN e.amount - (IF e.kind = "REFUND" THEN refunded[p] ELSE chargedBack[p])
               ELSE e.amount

ReversedStatus(p, returned) ==
    IF settle[p] \in {"SETTLED", "PARTIALLY_REVERSED"}
    THEN [settle EXCEPT ![p] = IF returned >= Price THEN "REVERSED" ELSE "PARTIALLY_REVERSED"]
    ELSE settle

\* Mutant of RecordReversal: the event id is not looked up.
RecordReversalAgain(p, e) ==
    LET money == NewMoney(p, e)
        new   == txn[p] = "CAPTURED" /\ money > 0
        over  == Returned(p) + money > Price
    IN  /\ IF new /\ ~over /\ ~recovery
           THEN /\ recorded' = [recorded EXCEPT ![p] = @ \cup {<<e.kind, e.id>>}]
                /\ IF e.kind = "REFUND"
                   THEN refunded' = [refunded EXCEPT ![p] = @ + money] /\ UNCHANGED chargedBack
                   ELSE chargedBack' = [chargedBack EXCEPT ![p] = @ + money] /\ UNCHANGED refunded
                /\ settle' = ReversedStatus(p, Returned(p) + money)
           ELSE UNCHANGED <<recorded, refunded, chargedBack, settle>>
        /\ cases' = IF new /\ over THEN OpenCase(p, "REVERSAL_REFUSED") ELSE cases
        /\ UNCHANGED <<buy, txn, why, creation, ent, recoveryVars>>

RecordReversal(p, e) ==
    LET money == NewMoney(p, e)
        new   == txn[p] = "CAPTURED" /\ money > 0 /\ <<e.kind, e.id>> \notin recorded[p]
        over  == Returned(p) + money > Price
    IN  /\ IF new /\ ~over /\ ~recovery
           THEN /\ recorded' = [recorded EXCEPT ![p] = @ \cup {<<e.kind, e.id>>}]
                /\ IF e.kind = "REFUND"
                   THEN refunded' = [refunded EXCEPT ![p] = @ + money] /\ UNCHANGED chargedBack
                   ELSE chargedBack' = [chargedBack EXCEPT ![p] = @ + money] /\ UNCHANGED refunded
                /\ settle' = ReversedStatus(p, Returned(p) + money)
           ELSE UNCHANGED <<recorded, refunded, chargedBack, settle>>
        /\ cases' = IF new /\ over THEN OpenCase(p, "REVERSAL_REFUSED") ELSE cases
        /\ UNCHANGED <<buy, txn, why, creation, ent, recoveryVars>>

OpenDisputeReview(p) ==
    /\ cases' = IF txn[p] = "CAPTURED" THEN OpenCase(p, "DISPUTE") ELSE cases
    /\ UNCHANGED <<settle, buy, txn, why, creation, ent, refunded, chargedBack, recorded, recoveryVars>>

\* A chargeback is reviewed; a full refund ends the access the charge paid for; a
\* partial refund changes nothing.
ApplyRefundPolicy(p) ==
    /\ IF txn[p] = "CAPTURED" /\ chargedBack[p] > 0
       THEN cases' = OpenCase(p, "CHARGEBACK") /\ UNCHANGED ent
       ELSE /\ UNCHANGED cases
            /\ ent' = IF txn[p] = "CAPTURED" /\ refunded[p] >= Price /\ ent[p] = "ACTIVE"
                      THEN [ent EXCEPT ![p] = "TERMINATED"] ELSE ent
    /\ UNCHANGED <<settle, buy, txn, why, creation, refunded, chargedBack, recorded, recoveryVars>>

OpenLateCaptureReview(p) ==
    /\ cases' = IF txn[p] \in {"FAILED", "UNKNOWN"} THEN OpenCase(p, "LATE_CAPTURE") ELSE cases
    /\ UNCHANGED <<settle, buy, txn, why, creation, ent, refunded, chargedBack, recorded, recoveryVars>>

\* A finance operator closes a case, and may end the access the charge funded.
ResolveCase(p, k, endAccess) ==
    /\ cases[p][k] = "OPEN"
    /\ cases' = [cases EXCEPT ![p][k] = "RESOLVED"]
    /\ ent' = IF endAccess /\ ent[p] = "ACTIVE" THEN [ent EXCEPT ![p] = "TERMINATED"] ELSE ent
    /\ UNCHANGED <<settle, buy, txn, why, creation, refunded, chargedBack, recorded, recoveryVars>>

-----------------------------------------------------------------------------
(* Financial recovery on the payment rail.                                *)

\* Mutant of RailHolds: a settlement in progress is left to its payment's hold.
RailHoldsPaymentOnly ==
    {<<"PAYMENT_TRANSACTION", p>> : p \in {q \in Purchases : txn[q] \in {"PENDING", "UNKNOWN"}}}
    \cup {<<"SETTLEMENT", p>> :
             p \in {q \in Purchases : settle[q] \in {"REQUIRED", "MANUAL_REVIEW"}}}

\* p4_hold_financial_rails: a ledger entry for everything whose money is open.
RailHolds ==
    {<<"PAYMENT_TRANSACTION", p>> : p \in {q \in Purchases : txn[q] \in {"PENDING", "UNKNOWN"}}}
    \cup {<<"SETTLEMENT", p>> :
             p \in {q \in Purchases : settle[q] \in {"REQUIRED", "IN_PROGRESS", "MANUAL_REVIEW"}}}

DeclareRecovery ==
    /\ ~recovery
    /\ recovery' = TRUE
    /\ epochs' = epochs + 1
    /\ holds' = RailHolds
    /\ UNCHANGED moneyVars

\* p4_resolve_recovery_hold.  Only CONFIRMED_NOT_COMPLETED closes a live charge as
\* FAILED, and it leaves the settlement to that settlement's own hold.
ResolveHold(h, notCompleted) ==
    LET p == h[2] IN
    /\ h \in holds
    /\ holds' = holds \ {h}
    /\ IF h[1] = "PAYMENT_TRANSACTION"
       THEN IF txn[p] = "PENDING"
            THEN /\ txn' = [txn EXCEPT ![p] = IF notCompleted THEN "FAILED" ELSE "UNKNOWN"]
                 /\ why' = [why EXCEPT ![p] = "operator"]
                 /\ IF notCompleted THEN UNCHANGED <<settle, buy>>
                                    ELSE FromInProgress(p, "MANUAL_REVIEW")
            ELSE UNCHANGED <<txn, why, settle, buy>>
       ELSE FromInProgress(p, "MANUAL_REVIEW") /\ UNCHANGED <<txn, why>>
    /\ UNCHANGED <<creation, ent, refunded, chargedBack, recorded, cases, recovery, epochs>>

Releasable ==
    /\ holds = {}
    /\ \A p \in Purchases : txn[p] # "PENDING" /\ settle[p] # "IN_PROGRESS"

ReleaseRecovery ==
    /\ recovery /\ Releasable
    /\ recovery' = FALSE
    /\ UNCHANGED <<moneyVars, epochs, holds>>
=============================================================================
