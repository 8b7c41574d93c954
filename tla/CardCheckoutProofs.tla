------------------------- MODULE CardCheckoutProofs -------------------------
(***************************************************************************)
(* Theorems about CardCheckout, for every set of purchases and concurrent  *)
(* return pages, every price and any number of faults and recovery epochs. *)
(*                                                                         *)
(* What a caller of Reconcile holds was read in earlier steps, so none of  *)
(* the properties is inductive: the invariant says what an answer still    *)
(* means by the time it is applied (AnswersAreTrue), and which hold covers *)
(* a charge while an operator concludes it (HoldsCover).                   *)
(***************************************************************************)
EXTENDS CardCheckout, TLAPS, FiniteSetTheorems

-----------------------------------------------------------------------------
(* The inductive invariant *)

BuyerPc == {"idle", "bought", "gated", "creating", "created", "refused", "concluding", "ambiguous",
            "done"}
Creation == {"PENDING", "CREATED", "NOT_CREATED", "AMBIGUOUS"}
Job == [pc : {"idle", "query", "apply", "grant", "events", "policy", "regrant", "late"},
        job : {"reconcile", "sweep", "recheck"}, p : Purchases, seen : Creation, aged : 0..3,
        verdict : Verdict, evs : SUBSET Event, touched : BOOLEAN]

LedgerTypes ==
    /\ settle \in [Purchases -> SettleStatus]
    /\ txn \in [Purchases -> TxnStatus]
    /\ why \in [Purchases -> Reason]
    /\ creation \in [Purchases -> Creation]
    /\ ent \in [Purchases -> {"NONE", "ACTIVE", "TERMINATED"}]
    /\ refunded \in [Purchases -> Nat]
    /\ chargedBack \in [Purchases -> Nat]
    /\ holds \in SUBSET (HoldKind \X Purchases)

ProcessTypes ==
    /\ age \in [Purchases -> 0..3]
    /\ buyer \in [Purchases -> BuyerPc]
    /\ work \in [Workers -> Job]
    /\ prov \in [Purchases -> {"NONE", "OPEN", "CLOSED", "PAID", "MISPAID"}]
    /\ pRefund \in [Purchases -> 0..Price]

\* The settlement and the charge move together: a settlement that counts as money has a captured charge, one
\* not started has none; money that came back has left SETTLED.
SettlementsFollow ==
    \A p \in Purchases :
       /\ settle[p] \in {"SETTLED", "PARTIALLY_REVERSED", "REVERSED"} => txn[p] = "CAPTURED"
       /\ settle[p] \in {"NONE", "REQUIRED"} => txn[p] = "NONE"
       /\ Returned(p) > 0 => txn[p] = "CAPTURED" /\ settle[p] # "SETTLED"

\* The hold of a live charge never stands alone: while its settlement is in progress, that one is held as well.
HoldsCover ==
    \A p \in Purchases :
       /\ settle[p] = "IN_PROGRESS" => txn[p] = "PENDING" \/ <<"SETTLEMENT", p>> \in holds
       /\ <<"PAYMENT_TRANSACTION", p>> \in holds =>
             /\ txn[p] # "NONE"
             /\ settle[p] = "IN_PROGRESS" => <<"SETTLEMENT", p>> \in holds

\* Nobody will ever pay: the request is over, and either there is no checkout or no address to pay at.
NeverPaid(p) ==
    /\ buyer[p] = "done"
    /\ \/ prov[p] = "NONE"
       \/ prov[p] \in {"OPEN", "CLOSED"} /\ creation[p] # "CREATED"

\* Before CreateCheckout was called, and after it was refused, the provider has nothing; only a request that is over
\* grows old.
RequestKnows ==
    \A p \in Purchases :
       /\ buyer[p] \in {"idle", "bought", "gated", "creating", "refused", "concluding"} => prov[p] = "NONE"
       /\ age[p] >= 1 => buyer[p] = "done"

\* What a caller has read is still true when it applies it: CAPTURED stays true; an old enough row was read after
\* the creation outcome was final; and NOT_FOUND, believed only then, stays true.
AnswerIsTrue(w) ==
    /\ work[w].verdict.status = "CAPTURED" => prov[work[w].p] = "PAID"
    /\ work[w].verdict.reason \in {"not_found", "not_created"} => NeverPaid(work[w].p)
    /\ work[w].pc = "query" /\ work[w].aged >= 1 =>
          buyer[work[w].p] = "done" /\ work[w].seen = creation[work[w].p]
    /\ work[w].pc = "apply" => work[w].verdict.status # "NONE"

AnswersAreTrue == \A w \in Workers : AnswerIsTrue(w)

\* What the ledger has recorded is true of the provider.
LedgerIsTrue ==
    \A p \in Purchases :
       /\ txn[p] = "CAPTURED" => prov[p] = "PAID"
       /\ ent[p] # "NONE" => prov[p] = "PAID"
       /\ why[p] \in {"not_found", "not_created"} => NeverPaid(p)

CardInv ==
    /\ LedgerTypes /\ ProcessTypes /\ SettlementsFollow /\ HoldsCover
    /\ RequestKnows /\ AnswersAreTrue /\ LedgerIsTrue

-----------------------------------------------------------------------------
(* Every step is at most one transaction on the ledger *)

LedgerStep ==
    \/ UNCHANGED ledgerVars
    \/ \E p \in Purchases :
          \/ InsertPurchase(p) \/ CommitCheckout(p) \/ FailUnstarted(p) \/ Grant(p) \/ AccessEnds(p)
          \/ OpenDisputeReview(p) \/ ApplyRefundPolicy(p) \/ OpenLateCaptureReview(p)
          \/ \E c \in Creation : SetCreation(p, c)
          \/ \E s \in {"CAPTURED", "FAILED", "UNKNOWN"}, r \in Reason : ApplyOutcome(p, s, r)
          \/ \E e \in Event : RecordReversal(p, e)
          \/ \E k \in CaseKind, end \in BOOLEAN : ResolveCase(p, k, end)
    \/ DeclareRecovery \/ ReleaseRecovery
    \/ \E h \in holds, notCompleted \in BOOLEAN : ResolveHold(h, notCompleted)

\* A caller works on a purchase, and what it applies is an outcome.
LEMMA CallerTyped ==
    ASSUME ProcessTypes, NEW w \in Workers
    PROVE  /\ work[w] \in Job /\ work[w].p \in Purchases /\ work[w].evs \subseteq Event
           /\ work[w].verdict \in Verdict
           /\ work[w].verdict.status \in {"NONE", "CAPTURED", "FAILED", "UNKNOWN"}
           /\ work[w].verdict.reason \in Reason
BY DEF ProcessTypes, Job, Verdict

\* One action, one transaction (StartCheckout, Reconcile, the loop's passes, operators).
LEMMA StepIsTransaction ==
    ASSUME ProcessTypes, AnswersAreTrue, Next
    PROVE  LedgerStep
<1>1. ASSUME NEW p \in Purchases, Buy(p)
      PROVE  LedgerStep
  BY <1>1 DEF Buy, LedgerStep
<1>2. ASSUME NEW p \in Purchases, Request(p)
      PROVE  LedgerStep
  <2>1. CASE StartGate(p) \/ CallCreate(p)
    BY <2>1 DEF StartGate, CallCreate, LedgerStep
  <2>2. CASE StartCommit(p)
    BY <2>2 DEF StartCommit, LedgerStep
  <2>3. CASE SaveCreation(p)
    BY <2>3 DEF SaveCreation, LedgerStep, Creation
  <2>4. CASE ConcludeNotCreated(p)
    BY <2>4 DEF ConcludeNotCreated, LedgerStep, Reason
  <2> QED
    BY <1>2, <2>1, <2>2, <2>3, <2>4 DEF Request
<1>3. ASSUME NEW p \in Purchases,
             \/ CheckoutUnavailable(p) \/ RequestFails(p) \/ GuestPays(p) \/ CheckoutCloses(p)
             \/ MerchantRefunds(p) \/ CardholderDisputes(p) \/ Tick(p)
      PROVE  LedgerStep
  BY <1>3 DEF CheckoutUnavailable, RequestFails, GuestPays, CheckoutCloses, MerchantRefunds,
              CardholderDisputes, Tick, LedgerStep
<1>4. ASSUME NEW p \in Purchases,
             \/ LoopReconcile(p) \/ LoopRegrant(p) \/ LoopSweep(p) \/ LoopRecheck(p)
             \/ \E w \in Workers : PageReconcile(w, p)
      PROVE  LedgerStep
  BY <1>4 DEF LoopReconcile, LoopRegrant, LoopSweep, LoopRecheck, PageReconcile, Begin, LedgerStep
<1>5. ASSUME NEW p \in Purchases, LoopFailUnstarted(p) \/ CloseCase(p) \/ OtherEnd(p)
      PROVE  LedgerStep
  BY <1>5 DEF LoopFailUnstarted, CloseCase, OtherEnd, LedgerStep
<1>6. ASSUME NEW w \in Workers, WorkerStep(w)
      PROVE  LedgerStep
  <2>0. work[w].p \in Purchases /\ work[w].evs \subseteq Event
    BY CallerTyped
  <2>1. CASE Query(w)
    BY <2>1 DEF Query, LedgerStep
  <2>2. CASE Apply(w)
    <3>1. work[w].verdict.status \in {"CAPTURED", "FAILED", "UNKNOWN"} /\ work[w].verdict.reason \in Reason
      BY <2>2, CallerTyped DEF Apply, AnswersAreTrue, AnswerIsTrue
    <3>2. ApplyOutcome(work[w].p, work[w].verdict.status, work[w].verdict.reason)
      BY <2>2 DEF Apply
    <3> QED
      BY <2>0, <3>1, <3>2 DEF LedgerStep
  <2>3. CASE GrantCaptured(w) \/ Policy(w) \/ OpenLate(w)
    BY <2>0, <2>3 DEF GrantCaptured, Policy, OpenLate, LedgerStep
  <2>4. CASE RecordEvent(w)
    BY <2>0, <2>4 DEF RecordEvent, LedgerStep
  <2>5. CASE Regrant(w)
    BY <2>0, <2>5 DEF Regrant, LedgerStep
  <2> QED
    BY <1>6, <2>1, <2>2, <2>3, <2>4, <2>5 DEF WorkerStep
<1>7. CASE \E w \in Workers : StepFails(w)
  BY <1>7 DEF StepFails, LedgerStep
<1>8. CASE Crash
  BY <1>8 DEF Crash, LedgerStep
<1>9. CASE EnterRecovery \/ DecideHold \/ LeaveRecovery
  BY <1>9 DEF EnterRecovery, DecideHold, LeaveRecovery, LedgerStep
<1> QED
  BY <1>1, <1>2, <1>3, <1>4, <1>5, <1>6, <1>7, <1>8, <1>9 DEF Next

-----------------------------------------------------------------------------
(* The ledger's own part of the invariant, transaction by transaction *)

\* What moves a settlement that is in progress.
LEMMA FromInProgressMoves ==
    ASSUME LedgerTypes, NEW p \in Purchases, NEW s \in SettleStatus, FromInProgress(p, s)
    PROVE  /\ settle' \in [Purchases -> SettleStatus]
           /\ settle'[p] = IF settle[p] = "IN_PROGRESS" THEN s ELSE settle[p]
           /\ \A q \in Purchases \ {p} : settle'[q] = settle[q]
BY DEF FromInProgress, LedgerTypes

\* The outcome authority writes once: outcome, reason and settlement of a charge that is executing.
LEMMA OutcomeMoves ==
    ASSUME LedgerTypes, NEW p \in Purchases, NEW s \in {"CAPTURED", "FAILED", "UNKNOWN"},
           NEW r \in Reason, ApplyOutcome(p, s, r)
    PROVE  /\ settle' \in [Purchases -> SettleStatus] /\ txn' \in [Purchases -> TxnStatus]
           /\ why' \in [Purchases -> Reason]
           /\ UNCHANGED <<creation, ent, refunded, chargedBack, holds>>
           /\ \A q \in Purchases \ {p} : settle'[q] = settle[q] /\ txn'[q] = txn[q] /\ why'[q] = why[q]
           /\ \/ UNCHANGED <<settle, txn, why>>
              \/ /\ txn[p] = "PENDING" /\ txn'[p] = s /\ why'[p] = r
                 /\ settle'[p] = IF settle[p] = "IN_PROGRESS" THEN SettlementOf(s) ELSE settle[p]
<1>1. SettlementOf(s) \in SettleStatus
  BY DEF SettlementOf, SettleStatus
<1>2. UNCHANGED <<creation, ent, refunded, chargedBack, holds>>
  BY DEF ApplyOutcome, recoveryVars
<1>3. CASE txn[p] = "PENDING"
  <2>1. FromInProgress(p, SettlementOf(s)) /\ txn' = [txn EXCEPT ![p] = s] /\ why' = [why EXCEPT ![p] = r]
    BY <1>3 DEF ApplyOutcome
  <2>2. txn' \in [Purchases -> TxnStatus] /\ why' \in [Purchases -> Reason]
    BY <2>1 DEF LedgerTypes, TxnStatus
  <2> QED
    BY <1>1, <1>2, <1>3, <2>1, <2>2, FromInProgressMoves DEF LedgerTypes
<1>4. CASE txn[p] # "PENDING"
  BY <1>2, <1>4 DEF ApplyOutcome, LedgerTypes
<1> QED
  BY <1>3, <1>4

\* A recorded reversal: new money, within the price, takes the settlement out of SETTLED.
LEMMA ReversalMoves ==
    ASSUME LedgerTypes, NEW p \in Purchases, NEW e \in Event, RecordReversal(p, e)
    PROVE  /\ UNCHANGED <<txn, why, creation, ent, holds>>
           /\ settle' \in [Purchases -> SettleStatus]
           /\ refunded' \in [Purchases -> Nat] /\ chargedBack' \in [Purchases -> Nat]
           /\ \A q \in Purchases \ {p} :
                 settle'[q] = settle[q] /\ refunded'[q] = refunded[q] /\ chargedBack'[q] = chargedBack[q]
           /\ \/ UNCHANGED <<settle, refunded, chargedBack>>
              \/ /\ txn[p] = "CAPTURED"
                 /\ IF settle[p] \in {"SETTLED", "PARTIALLY_REVERSED"}
                    THEN settle'[p] \in {"PARTIALLY_REVERSED", "REVERSED"} ELSE settle'[p] = settle[p]
<1> DEFINE money == NewMoney(p, e)
           new == txn[p] = "CAPTURED" /\ money > 0 /\ <<e.kind, e.id>> \notin recorded[p]
           over == Returned(p) + money > Price
<1>1. UNCHANGED <<txn, why, creation, ent, holds>>
  BY DEF RecordReversal, recoveryVars
<1>2. refunded[p] \in Nat /\ chargedBack[p] \in Nat /\ e.amount \in Nat /\ money \in Int
  BY PriceAssumption DEF LedgerTypes, Event, NewMoney
<1>3. CASE new /\ ~over /\ ~recovery
  <2>1. /\ IF e.kind = "REFUND"
           THEN refunded' = [refunded EXCEPT ![p] = @ + money] /\ UNCHANGED chargedBack
           ELSE chargedBack' = [chargedBack EXCEPT ![p] = @ + money] /\ UNCHANGED refunded
        /\ settle' = ReversedStatus(p, Returned(p) + money)
        /\ txn[p] = "CAPTURED" /\ money > 0
    BY <1>3 DEF RecordReversal
  <2>2. refunded[p] + money \in Nat /\ chargedBack[p] + money \in Nat
    BY <1>2, <2>1
  <2>3. refunded' \in [Purchases -> Nat] /\ chargedBack' \in [Purchases -> Nat]
        /\ \A q \in Purchases \ {p} : refunded'[q] = refunded[q] /\ chargedBack'[q] = chargedBack[q]
    BY <2>1, <2>2 DEF LedgerTypes
  <2>4. /\ settle' \in [Purchases -> SettleStatus]
        /\ \A q \in Purchases \ {p} : settle'[q] = settle[q]
        /\ IF settle[p] \in {"SETTLED", "PARTIALLY_REVERSED"}
           THEN settle'[p] \in {"PARTIALLY_REVERSED", "REVERSED"} ELSE settle'[p] = settle[p]
    BY <2>1 DEF LedgerTypes, ReversedStatus, SettleStatus
  <2> QED
    BY <1>1, <2>1, <2>3, <2>4
<1>4. CASE ~(new /\ ~over /\ ~recovery)
  <2>1. UNCHANGED <<settle, refunded, chargedBack>>
    BY <1>4 DEF RecordReversal
  <2> QED
    BY <1>1, <2>1 DEF LedgerTypes
<1> QED
  BY <1>3, <1>4

\* An operator's conclusion of a hold moves at most the charge and its settlement, and neither towards money.
LEMMA HoldMoves ==
    ASSUME LedgerTypes, NEW h \in holds, NEW notCompleted \in BOOLEAN, ResolveHold(h, notCompleted)
    PROVE  /\ h[2] \in Purchases /\ h[1] \in HoldKind /\ h = <<h[1], h[2]>> /\ holds' = holds \ {h}
           /\ settle' \in [Purchases -> SettleStatus] /\ txn' \in [Purchases -> TxnStatus]
           /\ why' \in [Purchases -> Reason]
           /\ UNCHANGED <<creation, ent, refunded, chargedBack>>
           /\ \A q \in Purchases \ {h[2]} :
                 settle'[q] = settle[q] /\ txn'[q] = txn[q] /\ why'[q] = why[q]
           /\ \/ UNCHANGED <<settle, txn, why>> /\ (h[1] = "SETTLEMENT" => settle[h[2]] # "IN_PROGRESS")
              \/ /\ h[1] = "SETTLEMENT" /\ settle[h[2]] = "IN_PROGRESS" /\ settle'[h[2]] = "MANUAL_REVIEW"
                 /\ UNCHANGED <<txn, why>>
              \/ /\ h[1] = "PAYMENT_TRANSACTION" /\ txn[h[2]] = "PENDING" /\ why'[h[2]] = "operator"
                 /\ \/ txn'[h[2]] = "FAILED" /\ UNCHANGED settle
                    \/ /\ txn'[h[2]] = "UNKNOWN"
                       /\ settle'[h[2]] = IF settle[h[2]] = "IN_PROGRESS" THEN "MANUAL_REVIEW" ELSE settle[h[2]]
<1>1. h[2] \in Purchases /\ h[1] \in HoldKind /\ h = <<h[1], h[2]>> /\ holds' = holds \ {h}
      /\ UNCHANGED <<creation, ent, refunded, chargedBack>>
  BY DEF LedgerTypes, ResolveHold
<1>2. "MANUAL_REVIEW" \in SettleStatus
  BY DEF SettleStatus
<1>3. CASE h[1] = "PAYMENT_TRANSACTION" /\ txn[h[2]] = "PENDING"
  <2>1. /\ txn' = [txn EXCEPT ![h[2]] = IF notCompleted THEN "FAILED" ELSE "UNKNOWN"]
        /\ why' = [why EXCEPT ![h[2]] = "operator"]
        /\ IF notCompleted THEN UNCHANGED <<settle, buy>> ELSE FromInProgress(h[2], "MANUAL_REVIEW")
    BY <1>3 DEF ResolveHold
  <2>2. txn' \in [Purchases -> TxnStatus] /\ why' \in [Purchases -> Reason]
        /\ why'[h[2]] = "operator" /\ txn'[h[2]] = (IF notCompleted THEN "FAILED" ELSE "UNKNOWN")
        /\ \A q \in Purchases \ {h[2]} : txn'[q] = txn[q] /\ why'[q] = why[q]
    BY <1>1, <2>1 DEF LedgerTypes, TxnStatus, Reason
  <2>3. CASE notCompleted
    BY <1>1, <1>3, <2>1, <2>2, <2>3 DEF LedgerTypes
  <2>4. CASE ~notCompleted
    BY <1>1, <1>2, <1>3, <2>1, <2>2, <2>4, FromInProgressMoves
  <2> QED
    BY <2>3, <2>4
<1>4. CASE h[1] = "PAYMENT_TRANSACTION" /\ txn[h[2]] # "PENDING"
  BY <1>1, <1>4 DEF ResolveHold, LedgerTypes
<1>5. CASE h[1] = "SETTLEMENT"
  <2>1. FromInProgress(h[2], "MANUAL_REVIEW") /\ UNCHANGED <<txn, why>>
    BY <1>5 DEF ResolveHold
  <2>2. CASE settle[h[2]] = "IN_PROGRESS"
    BY <1>1, <1>2, <1>5, <2>1, <2>2, FromInProgressMoves DEF LedgerTypes
  <2>3. CASE settle[h[2]] # "IN_PROGRESS"
    BY <1>1, <1>5, <2>1, <2>3 DEF FromInProgress, LedgerTypes
  <2> QED
    BY <2>2, <2>3
<1> QED
  BY <1>1, <1>3, <1>4, <1>5 DEF HoldKind

\* The transactions that touch neither charge nor settlement nor hold.
LEMMA QuietTransactions ==
    ASSUME LedgerTypes, NEW p \in Purchases,
           \/ Grant(p) \/ AccessEnds(p) \/ OpenDisputeReview(p) \/ ApplyRefundPolicy(p)
           \/ OpenLateCaptureReview(p)
           \/ \E c \in Creation : SetCreation(p, c)
           \/ \E k \in CaseKind, end \in BOOLEAN : ResolveCase(p, k, end)
    PROVE  LedgerTypes' /\ UNCHANGED <<settle, txn, why, refunded, chargedBack, holds>>
<1>1. UNCHANGED <<settle, txn, why, refunded, chargedBack, holds>>
  BY DEF Grant, AccessEnds, OpenDisputeReview, ApplyRefundPolicy, OpenLateCaptureReview, SetCreation,
         ResolveCase, recoveryVars
<1>2. ent' \in [Purchases -> {"NONE", "ACTIVE", "TERMINATED"}]
  <2>1. CASE Grant(p) \/ AccessEnds(p) \/ ApplyRefundPolicy(p)
    BY <2>1 DEF Grant, AccessEnds, ApplyRefundPolicy, LedgerTypes
  <2>2. CASE OpenDisputeReview(p) \/ OpenLateCaptureReview(p) \/ \E c \in Creation : SetCreation(p, c)
    BY <2>2 DEF OpenDisputeReview, OpenLateCaptureReview, SetCreation, LedgerTypes
  <2>3. CASE \E k \in CaseKind, end \in BOOLEAN : ResolveCase(p, k, end)
    BY <2>3 DEF ResolveCase, LedgerTypes
  <2> QED
    BY <2>1, <2>2, <2>3
<1>3. creation' \in [Purchases -> Creation]
  BY DEF Grant, AccessEnds, OpenDisputeReview, ApplyRefundPolicy, OpenLateCaptureReview, SetCreation,
         ResolveCase, LedgerTypes
<1> QED
  BY <1>1, <1>2, <1>3 DEF LedgerTypes

\* Every transaction keeps the ledger's types.
LEMMA LedgerTyped ==
    ASSUME LedgerTypes, LedgerStep
    PROVE  LedgerTypes'
<1>1. CASE UNCHANGED ledgerVars
  BY <1>1 DEF ledgerVars, moneyVars, recoveryVars, LedgerTypes
<1>2. ASSUME NEW p \in Purchases, InsertPurchase(p) \/ CommitCheckout(p) \/ FailUnstarted(p)
      PROVE  LedgerTypes'
  BY <1>2 DEF InsertPurchase, CommitCheckout, FailUnstarted, recoveryVars, LedgerTypes, SettleStatus, TxnStatus
<1>3. ASSUME NEW p \in Purchases, NEW s \in {"CAPTURED", "FAILED", "UNKNOWN"}, NEW r \in Reason,
             ApplyOutcome(p, s, r)
      PROVE  LedgerTypes'
  BY <1>3, OutcomeMoves DEF LedgerTypes
<1>4. ASSUME NEW p \in Purchases, NEW e \in Event, RecordReversal(p, e)
      PROVE  LedgerTypes'
  BY <1>4, ReversalMoves DEF LedgerTypes
<1>5. CASE DeclareRecovery \/ ReleaseRecovery
  <2>1. RailHolds \in SUBSET (HoldKind \X Purchases)
    BY DEF RailHolds, HoldKind
  <2> QED
    BY <1>5, <2>1 DEF DeclareRecovery, ReleaseRecovery, moneyVars, LedgerTypes
<1>6. ASSUME NEW h \in holds, NEW notCompleted \in BOOLEAN, ResolveHold(h, notCompleted)
      PROVE  LedgerTypes'
  BY <1>6, HoldMoves DEF LedgerTypes
<1> QED
  BY <1>1, <1>2, <1>3, <1>4, <1>5, <1>6, QuietTransactions DEF LedgerStep

\* Settlement and charge keep following each other, whatever outcome, reversal or conclusion is written.
LEMMA SettlementsStillFollow ==
    ASSUME LedgerTypes, SettlementsFollow, LedgerStep
    PROVE  SettlementsFollow'
<1> USE DEF SettlementsFollow, Returned
<1>1. CASE UNCHANGED ledgerVars
  BY <1>1 DEF ledgerVars, moneyVars
<1>2. ASSUME NEW p \in Purchases, InsertPurchase(p) \/ CommitCheckout(p) \/ FailUnstarted(p)
      PROVE  SettlementsFollow'
  BY <1>2 DEF InsertPurchase, CommitCheckout, FailUnstarted, LedgerTypes
<1>3. ASSUME NEW p \in Purchases, NEW s \in {"CAPTURED", "FAILED", "UNKNOWN"}, NEW r \in Reason,
             ApplyOutcome(p, s, r)
      PROVE  SettlementsFollow'
  BY <1>3, OutcomeMoves DEF SettlementOf
<1>4. ASSUME NEW p \in Purchases, NEW e \in Event, RecordReversal(p, e)
      PROVE  SettlementsFollow'
  BY <1>4, ReversalMoves
<1>5. CASE DeclareRecovery \/ ReleaseRecovery
  BY <1>5 DEF DeclareRecovery, ReleaseRecovery, moneyVars
<1>6. ASSUME NEW h \in holds, NEW notCompleted \in BOOLEAN, ResolveHold(h, notCompleted)
      PROVE  SettlementsFollow'
  BY <1>6, HoldMoves
<1>7. ASSUME UNCHANGED <<settle, txn, why, refunded, chargedBack, holds>>
      PROVE  SettlementsFollow'
  BY <1>7
<1> QED
  BY <1>1, <1>2, <1>3, <1>4, <1>5, <1>6, <1>7, QuietTransactions DEF LedgerStep

\* A settlement in progress keeps its owner.
LEMMA HoldsStillCover ==
    ASSUME LedgerTypes, SettlementsFollow, HoldsCover, LedgerStep
    PROVE  HoldsCover'
<1> USE DEF HoldsCover
<1>1. CASE UNCHANGED ledgerVars
  BY <1>1 DEF ledgerVars, moneyVars, recoveryVars
<1>2. ASSUME NEW p \in Purchases, InsertPurchase(p) \/ CommitCheckout(p) \/ FailUnstarted(p)
      PROVE  HoldsCover'
  BY <1>2 DEF InsertPurchase, CommitCheckout, FailUnstarted, recoveryVars, LedgerTypes, SettlementsFollow
<1>3. ASSUME NEW p \in Purchases, NEW s \in {"CAPTURED", "FAILED", "UNKNOWN"}, NEW r \in Reason,
             ApplyOutcome(p, s, r)
      PROVE  HoldsCover'
  BY <1>3, OutcomeMoves DEF SettlementOf
<1>4. ASSUME NEW p \in Purchases, NEW e \in Event, RecordReversal(p, e)
      PROVE  HoldsCover'
  BY <1>4, ReversalMoves
<1>5. CASE DeclareRecovery
  <2>1. UNCHANGED <<settle, txn>> /\ holds' = RailHolds
    BY <1>5 DEF DeclareRecovery, moneyVars
  <2>2. ASSUME NEW p \in Purchases
        PROVE  /\ settle[p] = "IN_PROGRESS" => <<"SETTLEMENT", p>> \in RailHolds
               /\ <<"PAYMENT_TRANSACTION", p>> \in RailHolds => txn[p] # "NONE"
    BY DEF RailHolds
  <2> QED
    BY <2>1, <2>2
<1>6. CASE ReleaseRecovery
  BY <1>6 DEF ReleaseRecovery, moneyVars
<1>7. ASSUME NEW h \in holds, NEW notCompleted \in BOOLEAN, ResolveHold(h, notCompleted)
      PROVE  HoldsCover'
  <2>1. SUFFICES ASSUME NEW q \in Purchases
                 PROVE  /\ settle'[q] = "IN_PROGRESS" => txn'[q] = "PENDING" \/ <<"SETTLEMENT", q>> \in holds'
                        /\ <<"PAYMENT_TRANSACTION", q>> \in holds' =>
                              /\ txn'[q] # "NONE"
                              /\ settle'[q] = "IN_PROGRESS" => <<"SETTLEMENT", q>> \in holds'
    OBVIOUS
  <2>2. h = <<h[1], h[2]>> /\ holds' = holds \ {h}
    BY <1>7, HoldMoves
  <2>3. CASE q # h[2]
    <3>1. <<"SETTLEMENT", q>> # h /\ <<"PAYMENT_TRANSACTION", q>> # h
      BY <2>2, <2>3
    <3>2. settle'[q] = settle[q] /\ txn'[q] = txn[q]
      BY <1>7, <2>3, HoldMoves
    <3> QED
      BY <2>2, <3>1, <3>2
  <2>4. CASE q = h[2] /\ h[1] = "SETTLEMENT"
    <3>1. settle'[q] # "IN_PROGRESS" /\ txn'[q] = txn[q]
      BY <1>7, <2>4, HoldMoves
    <3> QED
      BY <2>2, <3>1
  <2>5. CASE q = h[2] /\ h[1] = "PAYMENT_TRANSACTION"
    <3>1. <<"PAYMENT_TRANSACTION", q>> \in holds /\ <<"SETTLEMENT", q>> # h /\ <<"PAYMENT_TRANSACTION", q>> \notin holds'
      BY <2>2, <2>5
    <3>2. settle'[q] = "IN_PROGRESS" => settle[q] = "IN_PROGRESS"
      BY <1>7, <2>5, HoldMoves
    <3> QED
      BY <2>2, <3>1, <3>2
  <2> QED
    BY <1>7, <2>3, <2>4, <2>5, HoldMoves DEF HoldKind
<1>8. ASSUME UNCHANGED <<settle, txn, why, refunded, chargedBack, holds>>
      PROVE  HoldsCover'
  BY <1>8
<1> QED
  BY <1>1, <1>2, <1>3, <1>4, <1>5, <1>6, <1>7, <1>8, QuietTransactions DEF LedgerStep

-----------------------------------------------------------------------------
(* What a step does to the callers of Reconcile *)

\* A caller between two rounds of Reconcile holds nothing.
LEMMA IdleTyped ==
    ASSUME NEW p \in Purchases
    PROVE  Idle(p) \in Job /\ Idle(p).p = p /\ Idle(p).pc = "idle" /\ Idle(p).verdict = NoVerdict /\ Idle(p).evs = {}
BY DEF Idle, Job, Creation, Verdict, NoVerdict, Reason

\* The provider's report of refunds and disputes consists of events.
LEMMA EventsTyped ==
    ASSUME ProcessTypes, NEW p \in Purchases
    PROVE  Events(p) \subseteq Event
<1>1. pRefund[p] \in 0..Price /\ Price \in Nat \ {0}
  BY PriceAssumption DEF ProcessTypes
<1>2. ASSUME NEW k \in 1..pRefund[p], NEW n \in {1, k}, NEW b \in BOOLEAN
      PROVE  [kind |-> "REFUND", id |-> k, amount |-> n, total |-> b] \in Event
  <2>1. k \in 1..Price /\ n \in 1..Price
    BY <1>1
  <2> QED
    BY <2>1 DEF Event
<1>3. ASSUME NEW k \in {"CHARGEBACK", "DISPUTE"}
      PROVE  [kind |-> k, id |-> 1, amount |-> Price, total |-> FALSE] \in Event
  BY <1>1 DEF Event
<1>4. \A k \in {pRefund[p]} \ {0} : k \in 1..pRefund[p]
  BY <1>1
<1> QED
  BY <1>2, <1>3, <1>4 DEF Events

\* queryAndApply's decision: an outcome or none, CAPTURED only for a capture of the pinned amount, NOT_FOUND only
\* once the row is old enough.
LEMMA DecideSays ==
    ASSUME NEW seen, NEW aged \in 0..3,
           NEW answer \in {"CAPTURED", "MISMATCH", "DECLINED", "NOT_FOUND", "OPEN", "ERROR"}
    PROVE  LET v == Decide(seen, aged, answer) IN
           /\ v \in Verdict
           /\ v.status = "NONE" => v = NoVerdict
           /\ v.status = "CAPTURED" => answer = "CAPTURED"
           /\ v.reason # "not_created"
           /\ v.reason = "not_found" => answer = "NOT_FOUND" /\ aged >= 1
<1> USE DEF Verdict, NoVerdict, Reason
<1>1. CASE answer = "CAPTURED"
  BY <1>1 DEF Decide
<1>2. CASE answer = "MISMATCH"
  BY <1>2 DEF Decide, MismatchOutcome
<1>3. CASE answer = "DECLINED"
  BY <1>3 DEF Decide
<1>4. CASE answer = "NOT_FOUND"
  BY <1>4 DEF Decide, NotFoundProves
<1>5. CASE answer = "OPEN"
  BY <1>5 DEF Decide
<1>6. CASE answer = "ERROR"
  BY <1>6 DEF Decide
<1> QED
  BY <1>1, <1>2, <1>3, <1>4, <1>5, <1>6

\* One caller moves and stays on its purchase.
Moves(w) ==
    /\ work' \in [Workers -> Job]
    /\ \A v \in Workers \ {w} : work'[v] = work[v]
    /\ work'[w].p = work[w].p

\* ... to another state of itself.
LEMMA Replaced ==
    ASSUME ProcessTypes, NEW w \in Workers, NEW j \in Job, j.p = work[w].p, work' = [work EXCEPT ![w] = j]
    PROVE  Moves(w) /\ work'[w] = j
BY DEF ProcessTypes, Moves

\* An answer leaves a caller with events and forgets what was read before it ...
LEMMA Told ==
    ASSUME NEW x \in Job, NEW evs \in SUBSET Event
    PROVE  LET j == [x EXCEPT !.evs = evs, !.seen = "PENDING", !.aged = 0] IN
           j \in Job /\ j.p = x.p /\ j.pc = x.pc /\ j.verdict = x.verdict /\ j.evs = evs
<1> DEFINE a == [x EXCEPT !.evs = evs, !.seen = "PENDING"]
           b == [a EXCEPT !.aged = 0]
<1>1. a \in Job /\ a.p = x.p /\ a.pc = x.pc /\ a.verdict = x.verdict /\ a.evs = evs
  BY DEF Job, Creation
<1> HIDE DEF a
<1>2. b \in Job /\ b.p = x.p /\ b.pc = x.pc /\ b.verdict = x.verdict /\ b.evs = evs
  BY <1>1 DEF Job, Creation
<1>3. b = [x EXCEPT !.evs = evs, !.seen = "PENDING", !.aged = 0]
  BY DEF a
<1> QED
  BY <1>2, <1>3

\* Hearing an answer.
LEMMA HearsMoves ==
    ASSUME ProcessTypes, NEW w \in Workers, work[w].pc = "query",
           NEW answer \in {"CAPTURED", "MISMATCH", "DECLINED", "NOT_FOUND", "OPEN", "ERROR"},
           Hears(w, answer)
    PROVE  /\ Moves(w)
           /\ work'[w].pc # "query"
           /\ work'[w].evs \subseteq work[w].evs \cup Events(work[w].p)
           /\ \/ work'[w].verdict \in {work[w].verdict, NoVerdict} /\ work'[w].pc # "apply"
              \/ /\ work'[w].verdict = Decide(work[w].seen, work[w].aged, answer)
                 /\ work'[w].pc = "apply" => work'[w].verdict # NoVerdict
<1> DEFINE p == work[w].p
           v == Decide(work[w].seen, work[w].aged, answer)
           told == IF answer = "CAPTURED" THEN Events(p) ELSE {}
<1>1. work[w] \in Job /\ p \in Purchases /\ work \in [Workers -> Job]
  BY DEF ProcessTypes, Job
<1>2. told \in SUBSET Event /\ Idle(p) \in Job /\ Idle(p).p = p /\ Idle(p).pc = "idle" /\ Idle(p).verdict = NoVerdict
  BY <1>1, EventsTyped, IdleTyped
<1>3. v \in Verdict /\ told \subseteq Events(p) /\ Idle(p).evs = {}
  BY <1>1, DecideSays, IdleTyped DEF Job
<1> HIDE DEF v, told
<1>4. CASE work[w].job = "reconcile"
  <2>1. work' = [work EXCEPT ![w].pc = IF v = NoVerdict THEN "regrant" ELSE "apply",
                             ![w].verdict = v, ![w].evs = told, ![w].seen = "PENDING", ![w].aged = 0]
    BY <1>4 DEF Hears, v, told
  <2> DEFINE pc == IF v = NoVerdict THEN "regrant" ELSE "apply"
             j == [work[w] EXCEPT !.pc = pc, !.verdict = v, !.evs = told, !.seen = "PENDING", !.aged = 0]
  <2>2. work' = [work EXCEPT ![w] = j] /\ pc \in {"apply", "regrant"}
    BY <2>1
  <2> HIDE DEF pc
  <2>3. j \in Job /\ j.p = p /\ j.verdict = v /\ j.pc = pc /\ j.evs = told
    <3> DEFINE k == [work[w] EXCEPT !.pc = pc, !.verdict = v]
    <3>1. k \in Job /\ k.p = p /\ k.verdict = v /\ k.pc = pc
      BY <1>1, <1>3, <2>2 DEF Job
    <3>2. j = [k EXCEPT !.evs = told, !.seen = "PENDING", !.aged = 0]
      OBVIOUS
    <3> HIDE DEF k, j
    <3> QED
      BY <1>2, <3>1, <3>2, Told
  <2> HIDE DEF j
  <2>4. Moves(w) /\ work'[w] = j
    BY <2>2, <2>3, Replaced
  <2> QED
    BY <1>3, <2>3, <2>4 DEF v, pc
<1>5. CASE work[w].job = "sweep" /\ told # {}
  <2>1. work' = [work EXCEPT ![w].pc = "events", ![w].evs = told, ![w].seen = "PENDING", ![w].aged = 0]
    BY <1>5 DEF Hears, told
  <2> DEFINE j == [work[w] EXCEPT !.pc = "events", !.evs = told, !.seen = "PENDING", !.aged = 0]
  <2>2. work' = [work EXCEPT ![w] = j]
    BY <2>1
  <2>3. j \in Job /\ j.p = p /\ j.verdict = work[w].verdict /\ j.pc = "events" /\ j.evs = told
    <3> DEFINE k == [work[w] EXCEPT !.pc = "events"]
    <3>1. k \in Job /\ k.p = p /\ k.verdict = work[w].verdict /\ k.pc = "events"
      BY <1>1 DEF Job
    <3>2. j = [k EXCEPT !.evs = told, !.seen = "PENDING", !.aged = 0]
      OBVIOUS
    <3> HIDE DEF k, j
    <3> QED
      BY <1>2, <3>1, <3>2, Told
  <2> QED
    BY <1>3, <2>2, <2>3, Replaced
<1>6. CASE work[w].job = "recheck" /\ answer \in {"CAPTURED", "MISMATCH"}
  <2>1. work' = [work EXCEPT ![w].pc = "late", ![w].seen = "PENDING", ![w].aged = 0]
    BY <1>6 DEF Hears
  <2> DEFINE j == [work[w] EXCEPT !.pc = "late", !.seen = "PENDING", !.aged = 0]
  <2>2. work' = [work EXCEPT ![w] = j]
    BY <2>1
  <2>3. j \in Job /\ j.p = p /\ j.verdict = work[w].verdict /\ j.pc = "late" /\ j.evs = work[w].evs
    <3> DEFINE k == [work[w] EXCEPT !.pc = "late", !.seen = "PENDING"]
    <3>1. k \in Job /\ k.p = p /\ k.verdict = work[w].verdict /\ k.pc = "late" /\ k.evs = work[w].evs
      BY <1>1 DEF Job, Creation
    <3>2. j = [k EXCEPT !.aged = 0]
      OBVIOUS
    <3> HIDE DEF k, j
    <3> QED
      BY <3>1, <3>2 DEF Job
  <2> QED
    BY <2>2, <2>3, Replaced
<1>7. CASE \/ work[w].job = "sweep" /\ told = {}
           \/ work[w].job = "recheck" /\ answer \notin {"CAPTURED", "MISMATCH"}
  <2>1. work' = [work EXCEPT ![w] = Idle(p)]
    BY <1>7 DEF Hears, Goto, told
  <2> QED
    BY <1>2, <1>3, <2>1, Replaced
<1> QED
  BY <1>1, <1>4, <1>5, <1>6, <1>7 DEF Job

\* Going on, or back to idle.
LEMMA GotoMoves ==
    ASSUME ProcessTypes, NEW w \in Workers, NEW pc \in {"idle", "regrant", "events"}, Goto(w, pc)
    PROVE  /\ Moves(w) /\ work'[w].pc = pc /\ work'[w].verdict \in {work[w].verdict, NoVerdict}
           /\ work'[w].evs \subseteq work[w].evs
<1>1. work[w] \in Job /\ work[w].p \in Purchases
  BY CallerTyped
<1>2. CASE pc = "idle"
  <2>1. work' = [work EXCEPT ![w] = Idle(work[w].p)]
    BY <1>2 DEF Goto
  <2> QED
    <3> DEFINE i == Idle(work[w].p)
    <3>1. i \in Job /\ i.p = work[w].p /\ i.pc = "idle" /\ i.verdict = NoVerdict /\ i.evs = {}
      BY <1>1, IdleTyped
    <3> HIDE DEF i
    <3> QED
      BY <1>2, <2>1, <3>1, Replaced DEF i
<1>3. CASE pc # "idle"
  <2> DEFINE j == [work[w] EXCEPT !.pc = pc]
  <2>1. work' = [work EXCEPT ![w] = j]
    BY <1>3 DEF Goto
  <2>2. j \in Job /\ j.p = work[w].p /\ j.pc = pc /\ j.verdict = work[w].verdict /\ j.evs = work[w].evs
    BY <1>1 DEF Job
  <2> HIDE DEF j
  <2> QED
    BY <2>1, <2>2, Replaced
<1> QED
  BY <1>2, <1>3

\* Restarting at idle or at the last grant.
LEMMA RestartMoves ==
    ASSUME ProcessTypes, NEW w \in Workers, NEW pc \in {"idle", "regrant"},
           work' = [work EXCEPT ![w] = [Idle(work[w].p) EXCEPT !.pc = pc]]
    PROVE  Moves(w) /\ work'[w].pc = pc /\ work'[w].verdict = NoVerdict /\ work'[w].evs = {}
<1> DEFINE i == Idle(work[w].p)
           j == [i EXCEPT !.pc = pc]
<1>1. i \in Job /\ i.p = work[w].p /\ i.verdict = NoVerdict /\ i.evs = {}
  BY CallerTyped, IdleTyped
<1>2. work' = [work EXCEPT ![w] = j]
  OBVIOUS
<1> HIDE DEF i
<1>3. j \in Job /\ j.p = work[w].p /\ j.pc = pc /\ j.verdict = NoVerdict /\ j.evs = {}
  BY <1>1 DEF Job
<1> HIDE DEF j
<1> QED
  BY <1>2, <1>3, Replaced

\* The loop of recordReversals.
LEMMA NextEventMoves ==
    ASSUME ProcessTypes, NEW w \in Workers, NEW e \in work[w].evs, NextEvent(w, e)
    PROVE  /\ Moves(w) /\ work'[w].pc \in {"idle", "regrant", "policy", "events"}
           /\ work'[w].verdict = work[w].verdict
           /\ work'[w].evs \subseteq work[w].evs
<1> DEFINE rest == work[w].evs \ {e}
           touched == work[w].touched \/ e.kind # "DISPUTE"
           pc == IF rest = {} THEN "policy" ELSE "events"
<1>1. work[w] \in Job /\ rest \in SUBSET Event /\ rest \subseteq work[w].evs
  BY CallerTyped
<1>2. touched \in BOOLEAN /\ {} \in SUBSET Event /\ AfterEvents(w) \in {"idle", "regrant"} /\ pc \in {"policy", "events"}
  BY <1>1 DEF Job, AfterEvents
<1>3. CASE rest = {} /\ ~touched
  <2> DEFINE j == [work[w] EXCEPT !.evs = {}, !.pc = AfterEvents(w)]
  <2>1. work' = [work EXCEPT ![w] = j]
    BY <1>3 DEF NextEvent
  <2>2. j \in Job /\ j.p = work[w].p /\ j.pc = AfterEvents(w) /\ j.verdict = work[w].verdict /\ j.evs = {}
    BY <1>1, <1>2 DEF Job
  <2> HIDE DEF j
  <2> QED
    BY <1>2, <2>1, <2>2, Replaced
<1>4. CASE ~(rest = {} /\ ~touched)
  <2> DEFINE k == [work[w] EXCEPT !.evs = rest, !.touched = touched]
             j == [k EXCEPT !.pc = pc]
  <2>1. work' = [work EXCEPT ![w] = j]
    BY <1>4 DEF NextEvent
  <2> HIDE DEF rest, touched, pc
  <2>2. k \in Job /\ k.p = work[w].p /\ k.verdict = work[w].verdict /\ k.evs = rest
    BY <1>1, <1>2 DEF Job
  <2> HIDE DEF k
  <2>3. j \in Job /\ j.p = work[w].p /\ j.pc = pc /\ j.verdict = work[w].verdict /\ j.evs = rest
    BY <1>2, <2>2 DEF Job
  <2> HIDE DEF j
  <2> QED
    BY <1>1, <1>2, <2>1, <2>3, Replaced
<1> QED
  BY <1>3, <1>4

\* After its query a caller neither queries nor judges again.
LEMMA CallerGoesOn ==
    ASSUME ProcessTypes, NEW w \in Workers,
           \/ Apply(w) \/ GrantCaptured(w) \/ RecordEvent(w) \/ Policy(w) \/ Regrant(w) \/ OpenLate(w)
           \/ StepFails(w)
    PROVE  /\ Moves(w) /\ work'[w].pc \notin {"query", "apply"}
           /\ work'[w].verdict \in {work[w].verdict, NoVerdict}
           /\ work'[w].evs \subseteq work[w].evs
<1>1. work[w] \in Job /\ work[w].p \in Purchases /\ work[w].evs \in SUBSET Event
  BY CallerTyped
<1>2. AfterEvents(w) \in {"idle", "regrant"}
  BY DEF AfterEvents
<1>3. ASSUME work' = [work EXCEPT ![w] = IF AfterEvents(w) = "idle" THEN Idle(@.p)
                                         ELSE [Idle(@.p) EXCEPT !.pc = "regrant"]]
      PROVE  /\ Moves(w) /\ work'[w].pc \notin {"query", "apply"}
             /\ work'[w].verdict \in {work[w].verdict, NoVerdict}
             /\ work'[w].evs \subseteq work[w].evs
  <2>1. CASE AfterEvents(w) = "idle"
    <3>1. work' = [work EXCEPT ![w] = Idle(work[w].p)]
      BY <1>3, <2>1
    <3>2. Goto(w, "idle")
      BY <3>1 DEF Goto
    <3> QED
      BY <3>2, GotoMoves
  <2>2. CASE AfterEvents(w) = "regrant"
    <3>1. work' = [work EXCEPT ![w] = [Idle(work[w].p) EXCEPT !.pc = "regrant"]]
      BY <1>3, <2>2
    <3> QED
      BY <3>1, RestartMoves
  <2> QED
    BY <1>2, <2>1, <2>2
<1>4. CASE Apply(w)
  <2> DEFINE captured == work[w].verdict.status = "CAPTURED" /\ OutcomeAdmitted(work[w].p, "CAPTURED")
             pc == IF captured THEN "grant" ELSE "regrant"
             evs == IF captured THEN work[w].evs ELSE {}
             k == [work[w] EXCEPT !.pc = pc, !.verdict = NoVerdict]
             j == [k EXCEPT !.evs = evs]
  <2>1. work' = [work EXCEPT ![w] = j]
    BY <1>4 DEF Apply
  <2>2. pc \in {"grant", "regrant"} /\ evs \in SUBSET Event /\ evs \subseteq work[w].evs /\ NoVerdict \in Verdict
    BY <1>1 DEF NoVerdict, Verdict, Reason
  <2> HIDE DEF pc, evs
  <2>3. k \in Job /\ k.p = work[w].p /\ k.pc = pc /\ k.verdict = NoVerdict
    BY <1>1, <2>2 DEF Job
  <2> HIDE DEF k
  <2>4. j \in Job /\ j.p = work[w].p /\ j.pc = pc /\ j.verdict = NoVerdict /\ j.evs = evs
    BY <2>2, <2>3 DEF Job
  <2> HIDE DEF j
  <2> QED
    BY <2>1, <2>2, <2>4, Replaced
<1>5. CASE GrantCaptured(w) \/ Regrant(w) \/ OpenLate(w)
  <2>1. \E pc \in {"idle", "regrant", "events"} : Goto(w, pc)
    BY <1>5 DEF GrantCaptured, Regrant, OpenLate
  <2> QED
    BY <2>1, GotoMoves
<1>6. CASE RecordEvent(w)
  BY <1>6, NextEventMoves DEF RecordEvent
<1>7. CASE Policy(w)
  BY <1>3, <1>7 DEF Policy
<1>8. CASE StepFails(w)
  <2>1. CASE work[w].pc = "apply"
    <3>1. work' = [work EXCEPT ![w] = [Idle(work[w].p) EXCEPT !.pc = "regrant"]]
      BY <1>8, <2>1 DEF StepFails
    <3> QED
      BY <3>1, RestartMoves
  <2>2. CASE work[w].pc \in {"grant", "regrant", "late"}
    <3>1. \E pc \in {"idle", "regrant", "events"} : Goto(w, pc)
      BY <1>8, <2>2 DEF StepFails
    <3> QED
      BY <3>1, GotoMoves
  <2>3. CASE work[w].pc = "events"
    <3>1. \E e \in work[w].evs : NextEvent(w, e)
      BY <1>8, <2>3 DEF StepFails
    <3> QED
      BY <3>1, NextEventMoves
  <2>4. CASE work[w].pc = "policy"
    BY <1>3, <1>8, <2>4 DEF StepFails
  <2> QED
    BY <1>8, <2>1, <2>2, <2>3, <2>4 DEF StepFails
<1> QED
  BY <1>4, <1>5, <1>6, <1>7, <1>8

\* A caller begins with the row as it is now.
LEMMA BeginMoves ==
    ASSUME LedgerTypes, ProcessTypes, NEW w \in Workers, NEW p \in Purchases, NEW pc \in {"query", "regrant"},
           NEW job \in {"reconcile", "sweep", "recheck"}, Begin(w, p, pc, job)
    PROVE  /\ work' \in [Workers -> Job]
           /\ \A v \in Workers \ {w} : work'[v] = work[v]
           /\ work'[w].p = p /\ work'[w].pc = pc /\ work'[w].verdict = NoVerdict
           /\ work'[w].seen = creation[p] /\ work'[w].aged = age[p] /\ work'[w].evs = {}
<1> DEFINE i == Idle(p)
           k == [i EXCEPT !.pc = pc, !.job = job]
           j == [k EXCEPT !.seen = creation[p], !.aged = age[p]]
<1>1. i \in Job /\ i.p = p /\ i.verdict = NoVerdict /\ i.evs = {}
  BY IdleTyped
<1>2. creation[p] \in Creation /\ age[p] \in 0..3
  BY DEF LedgerTypes, ProcessTypes
<1>3. work' = [work EXCEPT ![w] = j]
  BY DEF Begin
<1> HIDE DEF i
<1>4. k \in Job /\ k.p = p /\ k.pc = pc /\ k.verdict = NoVerdict /\ k.evs = {}
  BY <1>1 DEF Job
<1> HIDE DEF k
<1>5. /\ j \in Job /\ j.p = p /\ j.pc = pc /\ j.verdict = NoVerdict
      /\ j.seen = creation[p] /\ j.aged = age[p] /\ j.evs = {}
  BY <1>2, <1>4 DEF Job
<1> HIDE DEF j
<1> QED
  BY <1>3, <1>5 DEF ProcessTypes

\* A query ends with an answer the provider can give, or with an error.
LEMMA QueryHears ==
    ASSUME ProcessTypes, NEW w \in Workers, Query(w)
    PROVE  \E answer \in {"CAPTURED", "MISMATCH", "DECLINED", "NOT_FOUND", "OPEN", "ERROR"} :
              /\ Hears(w, answer)
              /\ answer = "CAPTURED" => prov[work[w].p] = "PAID"
              /\ answer = "NOT_FOUND" =>
                    \/ prov[work[w].p] = "NONE"
                    \/ prov[work[w].p] \in {"OPEN", "CLOSED"} /\ work[w].seen # "CREATED"
<1>1. work[w].p \in Purchases
  BY CallerTyped
<1>2. CASE Hears(w, "ERROR")
  BY <1>2
<1>3. ASSUME NEW answer \in Answers(work[w].p, work[w].seen), Hears(w, answer)
      PROVE  /\ answer \in {"CAPTURED", "MISMATCH", "DECLINED", "NOT_FOUND", "OPEN", "ERROR"}
             /\ answer = "CAPTURED" => prov[work[w].p] = "PAID"
             /\ answer = "NOT_FOUND" =>
                   \/ prov[work[w].p] = "NONE"
                   \/ prov[work[w].p] \in {"OPEN", "CLOSED"} /\ work[w].seen # "CREATED"
  <2>1. prov[work[w].p] \in {"NONE", "OPEN", "CLOSED", "PAID", "MISPAID"}
    BY <1>1 DEF ProcessTypes
  <2>2. CASE prov[work[w].p] = "NONE"
    BY <1>3, <2>2 DEF Answers
  <2>3. CASE prov[work[w].p] = "OPEN"
    BY <1>3, <2>3 DEF Answers
  <2>4. CASE prov[work[w].p] = "CLOSED"
    BY <1>3, <2>4 DEF Answers
  <2>5. CASE prov[work[w].p] = "PAID"
    BY <1>3, <2>5 DEF Answers
  <2>6. CASE prov[work[w].p] = "MISPAID"
    BY <1>3, <2>6 DEF Answers
  <2> QED
    BY <2>1, <2>2, <2>3, <2>4, <2>5, <2>6
<1>4. Hears(w, "ERROR") \/ \E answer \in Answers(work[w].p, work[w].seen) : Hears(w, answer)
  BY DEF Query
<1> QED
  BY <1>2, <1>3, <1>4

-----------------------------------------------------------------------------
(* The five kinds of step *)

\* The purchase request and the world outside, which leave the callers alone.
OutsideStep ==
    \E p \in Purchases :
       \/ Buy(p) \/ CheckoutUnavailable(p) \/ Request(p) \/ RequestFails(p)
       \/ GuestPays(p) \/ CheckoutCloses(p) \/ MerchantRefunds(p) \/ CardholderDisputes(p) \/ Tick(p)

\* A caller begins.
BeginStep ==
    \E w \in Workers, p \in Purchases, pc \in {"query", "regrant"}, job \in {"reconcile", "sweep", "recheck"} :
       Begin(w, p, pc, job)

\* A caller past its query.
OnwardStep ==
    \E w \in Workers :
       \/ Apply(w) \/ GrantCaptured(w) \/ RecordEvent(w) \/ Policy(w) \/ Regrant(w) \/ OpenLate(w)
       \/ StepFails(w)

\* The loop's pass without a caller's state, operators and recovery: they write to the ledger alone.
DeskStep ==
    \/ \E p \in Purchases : LoopFailUnstarted(p) \/ CloseCase(p) \/ OtherEnd(p)
    \/ EnterRecovery \/ DecideHold \/ LeaveRecovery

\* Every step of the card path is one of these.
LEMMA KindsOfStep ==
    ASSUME Next
    PROVE  OutsideStep \/ BeginStep \/ OnwardStep \/ DeskStep \/ (\E w \in Workers : Query(w)) \/ Crash
<1>1. "loop" \in Workers
  BY DEF Workers
<1>2. ASSUME NEW p \in Purchases,
             \/ LoopReconcile(p) \/ LoopRegrant(p) \/ LoopSweep(p) \/ LoopRecheck(p)
             \/ \E w \in Workers : PageReconcile(w, p)
      PROVE  BeginStep
  BY <1>1, <1>2 DEF LoopReconcile, LoopRegrant, LoopSweep, LoopRecheck, PageReconcile, BeginStep
<1> QED
  BY <1>2 DEF Next, WorkerStep, OutsideStep, OnwardStep, DeskStep

\* Callers, the desk and a crash leave the provider and the age of a checkout alone; a request that is over stays over.
LEMMA InsideStep ==
    ASSUME ProcessTypes, BeginStep \/ OnwardStep \/ DeskStep \/ (\E w \in Workers : Query(w)) \/ Crash
    PROVE  /\ UNCHANGED <<prov, pRefund, age>>
           /\ buyer' \in [Purchases -> BuyerPc]
           /\ \A p \in Purchases : buyer'[p] = buyer[p] \/ buyer'[p] = "done"
<1>1. CASE Crash
  BY <1>1 DEF Crash, provVars, ProcessTypes, BuyerPc
<1>2. CASE DeskStep
  BY <1>2 DEF DeskStep, LoopFailUnstarted, CloseCase, OtherEnd, EnterRecovery, DecideHold, LeaveRecovery,
              provVars, procVars, ProcessTypes
<1>3. CASE BeginStep \/ OnwardStep \/ \E w \in Workers : Query(w)
  <2>1. UNCHANGED <<prov, pRefund, age, buyer>>
    BY <1>3 DEF BeginStep, OnwardStep, Begin, Query, Apply, GrantCaptured, RecordEvent, Policy, Regrant, OpenLate,
                StepFails, provVars
  <2> QED
    BY <2>1 DEF ProcessTypes
<1> QED
  BY <1>1, <1>2, <1>3

\* The request and the world outside leave the callers alone, and the desk does too.
LEMMA CallersRest ==
    ASSUME OutsideStep \/ DeskStep
    PROVE  UNCHANGED work
<1>1. CASE OutsideStep
  BY <1>1 DEF OutsideStep, Buy, CheckoutUnavailable, Request, StartGate, StartCommit, CallCreate, SaveCreation,
              ConcludeNotCreated, RequestFails, GuestPays, CheckoutCloses, MerchantRefunds, CardholderDisputes,
              Tick, procVars
<1>2. CASE DeskStep
  BY <1>2 DEF DeskStep, LoopFailUnstarted, CloseCase, OtherEnd, EnterRecovery, DecideHold, LeaveRecovery, procVars
<1> QED
  BY <1>1, <1>2

\* What a step outside keeps: types, what the request knows, and what a caller may have read.
OutsideKeeps ==
    /\ age' \in [Purchases -> 0..3] /\ buyer' \in [Purchases -> BuyerPc]
    /\ prov' \in [Purchases -> {"NONE", "OPEN", "CLOSED", "PAID", "MISPAID"}]
    /\ pRefund' \in [Purchases -> 0..Price]
    /\ RequestKnows'
    /\ \A p \in Purchases :
          /\ prov[p] = "PAID" => prov'[p] = "PAID"
          /\ buyer[p] = "done" => buyer'[p] = "done" /\ creation'[p] = creation[p]
          /\ NeverPaid(p) => NeverPaid(p)'

\* Nothing outside takes back a capture, reopens a request, or lets anyone pay what nobody has an address for.
LEMMA OutsideMoves ==
    ASSUME LedgerTypes, ProcessTypes, RequestKnows, OutsideStep
    PROVE  OutsideKeeps
<1> USE DEF OutsideKeeps, RequestKnows, NeverPaid, ProcessTypes, BuyerPc, ledgerVars, moneyVars, provVars, procVars
<1>1. ASSUME NEW p \in Purchases, Buy(p)
      PROVE  OutsideKeeps
  BY <1>1 DEF Buy, InsertPurchase
<1>2. ASSUME NEW p \in Purchases, CheckoutUnavailable(p)
      PROVE  OutsideKeeps
  BY <1>2 DEF CheckoutUnavailable
<1>3. ASSUME NEW p \in Purchases, StartGate(p)
      PROVE  OutsideKeeps
  BY <1>3 DEF StartGate
<1>4. ASSUME NEW p \in Purchases, StartCommit(p)
      PROVE  OutsideKeeps
  BY <1>4 DEF StartCommit, CommitCheckout
<1>5. ASSUME NEW p \in Purchases, CallCreate(p)
      PROVE  OutsideKeeps
  BY <1>5 DEF CallCreate
<1>6. ASSUME NEW p \in Purchases, SaveCreation(p)
      PROVE  OutsideKeeps
  BY <1>6 DEF SaveCreation, SetCreation, LedgerTypes
<1>7. ASSUME NEW p \in Purchases, ConcludeNotCreated(p)
      PROVE  OutsideKeeps
  BY <1>7 DEF ConcludeNotCreated, ApplyOutcome
<1>8. ASSUME NEW p \in Purchases, RequestFails(p)
      PROVE  OutsideKeeps
  BY <1>8 DEF RequestFails
<1>9. ASSUME NEW p \in Purchases, GuestPays(p)
      PROVE  OutsideKeeps
  BY <1>9 DEF GuestPays
<1>10. ASSUME NEW p \in Purchases, CheckoutCloses(p)
      PROVE  OutsideKeeps
  BY <1>10 DEF CheckoutCloses
<1>11. ASSUME NEW p \in Purchases, MerchantRefunds(p)
      PROVE  OutsideKeeps
  BY <1>11, PriceAssumption DEF MerchantRefunds
<1>12. ASSUME NEW p \in Purchases, CardholderDisputes(p)
      PROVE  OutsideKeeps
  BY <1>12 DEF CardholderDisputes
<1>13. ASSUME NEW p \in Purchases, Tick(p)
      PROVE  OutsideKeeps
  BY <1>13 DEF Tick
<1> QED
  BY <1>1, <1>2, <1>3, <1>4, <1>5, <1>6, <1>7, <1>8, <1>9, <1>10, <1>11, <1>12, <1>13 DEF OutsideStep, Request

-----------------------------------------------------------------------------
(* The rest of the invariant, and the theorems *)

\* Only the request writes the creation outcome.
LEMMA CreationRests ==
    ASSUME BeginStep \/ OnwardStep \/ DeskStep \/ (\E w \in Workers : Query(w)) \/ Crash
    PROVE  UNCHANGED creation
<1> USE DEF ledgerVars, moneyVars
<1>1. CASE BeginStep \/ (\E w \in Workers : Query(w)) \/ Crash
  BY <1>1 DEF BeginStep, Begin, Query, Crash
<1>2. CASE OnwardStep
  <2>1. ASSUME NEW p, Grant(p) \/ OpenDisputeReview(p) \/ ApplyRefundPolicy(p) \/ OpenLateCaptureReview(p)
        PROVE  UNCHANGED creation
    BY <2>1 DEF Grant, OpenDisputeReview, ApplyRefundPolicy, OpenLateCaptureReview
  <2>2. ASSUME NEW p, NEW s, NEW r, ApplyOutcome(p, s, r)
        PROVE  UNCHANGED creation
    BY <2>2 DEF ApplyOutcome
  <2>3. ASSUME NEW p, NEW e, RecordReversal(p, e)
        PROVE  UNCHANGED creation
    BY <2>3 DEF RecordReversal
  <2> QED
    BY <1>2, <2>1, <2>2, <2>3 DEF OnwardStep, Apply, GrantCaptured, RecordEvent, Policy, Regrant, OpenLate, StepFails
<1>3. CASE DeskStep
  BY <1>3 DEF DeskStep, LoopFailUnstarted, FailUnstarted, CloseCase, ResolveCase, OtherEnd, AccessEnds, EnterRecovery,
              DeclareRecovery, DecideHold, ResolveHold, LeaveRecovery, ReleaseRecovery
<1> QED
  BY <1>1, <1>2, <1>3

\* No step takes back what a caller may have read.
LEMMA NothingTakenBack ==
    ASSUME CardInv, Next
    PROVE  /\ RequestKnows'
           /\ \A p \in Purchases :
                 /\ prov[p] = "PAID" => prov'[p] = "PAID"
                 /\ buyer[p] = "done" => buyer'[p] = "done" /\ creation'[p] = creation[p]
                 /\ NeverPaid(p) => NeverPaid(p)'
<1>1. CASE OutsideStep
  BY <1>1, OutsideMoves DEF CardInv, OutsideKeeps
<1>2. CASE BeginStep \/ OnwardStep \/ DeskStep \/ (\E w \in Workers : Query(w)) \/ Crash
  <2>1. /\ UNCHANGED <<prov, age, creation>>
        /\ \A p \in Purchases : buyer'[p] = buyer[p] \/ buyer'[p] = "done"
    BY <1>2, InsideStep, CreationRests DEF CardInv
  <2> QED
    BY <2>1 DEF CardInv, RequestKnows, NeverPaid
<1> QED
  BY <1>1, <1>2, KindsOfStep

\* Types of the request, the callers and the provider.
LEMMA ProcessTyped ==
    ASSUME CardInv, Next
    PROVE  ProcessTypes'
<1>1. work' \in [Workers -> Job]
  <2>1. CASE OutsideStep \/ DeskStep
    BY <2>1, CallersRest DEF CardInv, ProcessTypes
  <2>2. CASE BeginStep
    BY <2>2, BeginMoves DEF BeginStep, CardInv
  <2>3. CASE OnwardStep
    BY <2>3, CallerGoesOn DEF OnwardStep, CardInv, Moves
  <2>4. ASSUME NEW w \in Workers, Query(w)
        PROVE  work' \in [Workers -> Job]
    <3>1. work[w].pc = "query"
      BY <2>4 DEF Query
    <3> QED
      BY <2>4, <3>1, QueryHears, HearsMoves DEF CardInv, Moves
  <2>5. CASE Crash
    <3>1. \A w \in Workers : work[w].p \in Purchases
      BY CallerTyped DEF CardInv
    <3> QED
      BY <2>5, <3>1, IdleTyped DEF Crash
  <2> QED
    BY <2>1, <2>2, <2>3, <2>4, <2>5, KindsOfStep
<1>2. CASE OutsideStep
  BY <1>1, <1>2, OutsideMoves DEF CardInv, OutsideKeeps, ProcessTypes
<1>3. CASE BeginStep \/ OnwardStep \/ DeskStep \/ (\E w \in Workers : Query(w)) \/ Crash
  BY <1>1, <1>3, InsideStep DEF CardInv, ProcessTypes
<1> QED
  BY <1>2, <1>3, KindsOfStep

\* What callers have read stays true, and what they read is true.
LEMMA AnswersStillTrue ==
    ASSUME CardInv, Next
    PROVE  AnswersAreTrue'
<1> DEFINE Never(q) ==
      /\ buyer'[q] = "done"
      /\ prov'[q] = "NONE" \/ (prov'[q] \in {"OPEN", "CLOSED"} /\ creation'[q] # "CREATED")
<1>0. NoVerdict.status = "NONE" /\ NoVerdict.reason = "none"
  BY DEF NoVerdict
<1>s. ASSUME NEW q \in Purchases
      PROVE  /\ prov[q] = "PAID" => prov'[q] = "PAID"
             /\ buyer[q] = "done" => buyer'[q] = "done" /\ creation'[q] = creation[q]
             /\ NeverPaid(q) => Never(q)
  BY NothingTakenBack DEF NeverPaid
<1>t. ASSUME NEW w \in Workers, NEW q \in Purchases, work'[w].p = q,
             work'[w].verdict.status = "CAPTURED" => prov'[q] = "PAID",
             work'[w].verdict.reason \in {"not_found", "not_created"} => Never(q),
             work'[w].pc = "query" /\ work'[w].aged >= 1 =>
                buyer'[q] = "done" /\ work'[w].seen = creation'[q],
             work'[w].pc = "apply" => work'[w].verdict.status # "NONE"
      PROVE  AnswerIsTrue(w)'
  BY <1>t DEF AnswerIsTrue, NeverPaid
<1>i. ASSUME NEW w \in Workers
      PROVE  /\ work[w].p \in Purchases
             /\ work[w].verdict.status = "CAPTURED" => prov[work[w].p] = "PAID"
             /\ work[w].verdict.reason \in {"not_found", "not_created"} => NeverPaid(work[w].p)
             /\ work[w].pc = "query" /\ work[w].aged >= 1 =>
                   buyer[work[w].p] = "done" /\ work[w].seen = creation[work[w].p]
             /\ work[w].pc = "apply" => work[w].verdict.status # "NONE"
  BY CallerTyped DEF CardInv, AnswersAreTrue, AnswerIsTrue
<1> HIDE DEF Never
<1>1. ASSUME NEW w \in Workers, work'[w] = work[w]
      PROVE  AnswerIsTrue(w)'
  <2> DEFINE q == work[w].p
  <2>1. q \in Purchases
    BY <1>i
  <2>2. /\ prov[q] = "PAID" => prov'[q] = "PAID"
        /\ buyer[q] = "done" => buyer'[q] = "done" /\ creation'[q] = creation[q]
        /\ NeverPaid(q) => Never(q)
    BY <1>s, <2>1
  <2>3. /\ work'[w].p = q
        /\ work'[w].verdict.status = "CAPTURED" => prov'[q] = "PAID"
        /\ work'[w].verdict.reason \in {"not_found", "not_created"} => Never(q)
        /\ work'[w].pc = "query" /\ work'[w].aged >= 1 => buyer'[q] = "done" /\ work'[w].seen = creation'[q]
        /\ work'[w].pc = "apply" => work'[w].verdict.status # "NONE"
    BY <1>1, <1>i, <2>2
  <2> HIDE DEF q
  <2> QED
    BY <1>t, <2>1, <2>3
<1>2. ASSUME NEW w \in Workers, work'[w].p = work[w].p, work'[w].pc \notin {"query", "apply"},
             work'[w].verdict \in {work[w].verdict, NoVerdict}
      PROVE  AnswerIsTrue(w)'
  <2> DEFINE q == work[w].p
  <2>1. q \in Purchases
    BY <1>i
  <2>2. /\ prov[q] = "PAID" => prov'[q] = "PAID"
        /\ NeverPaid(q) => Never(q)
    BY <1>s, <2>1
  <2>3. /\ work'[w].verdict.status = "CAPTURED" => prov'[q] = "PAID"
        /\ work'[w].verdict.reason \in {"not_found", "not_created"} => Never(q)
    BY <1>0, <1>2, <1>i, <2>2
  <2>4. work'[w].p = q
    BY <1>2
  <2> HIDE DEF q
  <2> QED
    BY <1>2, <1>t, <2>1, <2>3, <2>4
<1>3. ASSUME NEW w \in Workers, Query(w)
      PROVE  AnswersAreTrue'
  <2> DEFINE q == work[w].p
  <2>1. work[w].pc = "query" /\ q \in Purchases /\ work[w].aged \in 0..3
    BY <1>3, CallerTyped DEF Query, CardInv, Job
  <2>2. PICK answer \in {"CAPTURED", "MISMATCH", "DECLINED", "NOT_FOUND", "OPEN", "ERROR"} :
              /\ Hears(w, answer)
              /\ answer = "CAPTURED" => prov[work[w].p] = "PAID"
              /\ answer = "NOT_FOUND" =>
                    \/ prov[work[w].p] = "NONE"
                    \/ prov[work[w].p] \in {"OPEN", "CLOSED"} /\ work[w].seen # "CREATED"
    BY <1>3, QueryHears DEF CardInv
  <2> DEFINE d == Decide(work[w].seen, work[w].aged, answer)
  <2>3. /\ Moves(w) /\ work'[w].pc # "query"
        /\ \/ work'[w].verdict \in {work[w].verdict, NoVerdict} /\ work'[w].pc # "apply"
           \/ /\ work'[w].verdict = d
              /\ work'[w].pc = "apply" => work'[w].verdict # NoVerdict
    BY <2>1, <2>2, HearsMoves DEF CardInv
  <2>4. /\ d.status = "NONE" => d = NoVerdict
        /\ d.status = "CAPTURED" => answer = "CAPTURED"
        /\ d.reason # "not_created"
        /\ d.reason = "not_found" => answer = "NOT_FOUND" /\ work[w].aged >= 1
    BY <2>1, DecideSays
  <2> HIDE DEF d
  <2>5. d.reason \in {"not_found", "not_created"} => NeverPaid(q)
    BY <1>i, <2>1, <2>2, <2>4 DEF NeverPaid
  <2>6. AnswerIsTrue(w)'
    <3>1. CASE work'[w].verdict = d /\ (work'[w].pc = "apply" => work'[w].verdict # NoVerdict)
      <4>1. /\ prov[q] = "PAID" => prov'[q] = "PAID"
            /\ NeverPaid(q) => Never(q)
        BY <1>s, <2>1
      <4>2. /\ work'[w].p = q /\ work'[w].pc # "query"
            /\ work'[w].verdict.status = "CAPTURED" => prov'[q] = "PAID"
            /\ work'[w].verdict.reason \in {"not_found", "not_created"} => Never(q)
            /\ work'[w].pc = "apply" => work'[w].verdict.status # "NONE"
        BY <2>2, <2>3, <2>4, <2>5, <3>1, <4>1 DEF Moves
      <4> HIDE DEF q
      <4> QED
        BY <1>t, <2>1, <4>2
    <3>2. CASE work'[w].verdict \in {work[w].verdict, NoVerdict} /\ work'[w].pc # "apply"
      BY <1>2, <2>3, <3>2 DEF Moves
    <3> QED
      BY <2>3, <3>1, <3>2
  <2>7. ASSUME NEW v \in Workers, v # w
        PROVE  AnswerIsTrue(v)'
    BY <1>1, <2>3, <2>7 DEF Moves
  <2> QED
    BY <2>6, <2>7 DEF AnswersAreTrue
<1>4. CASE BeginStep
  <2>1. PICK w \in Workers, p \in Purchases, pc \in {"query", "regrant"}, job \in {"reconcile", "sweep", "recheck"} :
           Begin(w, p, pc, job)
    BY <1>4 DEF BeginStep
  <2>2. UNCHANGED <<creation, buyer>>
    BY <2>1 DEF Begin, ledgerVars, moneyVars
  <2>3. /\ \A v \in Workers \ {w} : work'[v] = work[v]
        /\ work'[w].p = p /\ work'[w].pc = pc /\ work'[w].verdict = NoVerdict
        /\ work'[w].seen = creation[p] /\ work'[w].aged = age[p]
    BY <2>1, BeginMoves DEF CardInv
  <2>4. age[p] >= 1 => buyer[p] = "done"
    BY DEF CardInv, RequestKnows
  <2>5. AnswerIsTrue(w)'
    BY <1>0, <1>t, <2>2, <2>3, <2>4
  <2>6. ASSUME NEW v \in Workers, v # w
        PROVE  AnswerIsTrue(v)'
    BY <1>1, <2>3, <2>6
  <2> QED
    BY <2>5, <2>6 DEF AnswersAreTrue
<1>5. CASE OnwardStep
  <2>1. PICK w \in Workers : /\ Moves(w) /\ work'[w].pc \notin {"query", "apply"}
                             /\ work'[w].verdict \in {work[w].verdict, NoVerdict}
    BY <1>5, CallerGoesOn DEF OnwardStep, CardInv
  <2>2. AnswerIsTrue(w)'
    BY <1>2, <2>1 DEF Moves
  <2>3. ASSUME NEW v \in Workers, v # w
        PROVE  AnswerIsTrue(v)'
    BY <1>1, <2>1, <2>3 DEF Moves
  <2> QED
    BY <2>2, <2>3 DEF AnswersAreTrue
<1>6. CASE OutsideStep \/ DeskStep
  <2>1. ASSUME NEW w \in Workers
        PROVE  AnswerIsTrue(w)'
    BY <1>1, <1>6, CallersRest
  <2> QED
    BY <2>1 DEF AnswersAreTrue
<1>7. CASE Crash
  <2>1. ASSUME NEW w \in Workers
        PROVE  AnswerIsTrue(w)'
    <3>1. work'[w] = Idle(work[w].p)
      BY <1>7 DEF Crash
    <3>2. work'[w].p = work[w].p /\ work'[w].pc = "idle" /\ work'[w].verdict = NoVerdict
      BY <3>1 DEF Idle
    <3> QED
      BY <1>2, <3>2
  <2> QED
    BY <2>1 DEF AnswersAreTrue
<1> QED
  BY <1>3, <1>4, <1>5, <1>6, <1>7, KindsOfStep

\* What the ledger says stays true: it records a capture, a missing checkout or a grant only from something true.
LEMMA LedgerStillTrue ==
    ASSUME CardInv, Next
    PROVE  LedgerIsTrue'
<1> DEFINE Never(q) ==
      /\ buyer'[q] = "done"
      /\ prov'[q] = "NONE" \/ (prov'[q] \in {"OPEN", "CLOSED"} /\ creation'[q] # "CREATED")
    Kept(q) ==
      /\ txn'[q] = "CAPTURED" => prov'[q] = "PAID"
      /\ ent'[q] # "NONE" => prov'[q] = "PAID"
      /\ why'[q] \in {"not_found", "not_created"} => Never(q)
<1>s. ASSUME NEW q \in Purchases
      PROVE  /\ prov[q] = "PAID" => prov'[q] = "PAID"
             /\ NeverPaid(q) => Never(q)
  BY NothingTakenBack DEF NeverPaid
<1>i. ASSUME NEW q \in Purchases
      PROVE  /\ txn[q] = "CAPTURED" => prov'[q] = "PAID"
             /\ ent[q] # "NONE" => prov'[q] = "PAID"
             /\ why[q] \in {"not_found", "not_created"} => Never(q)
             /\ settle[q] = "SETTLED" => prov'[q] = "PAID"
  BY <1>s DEF CardInv, LedgerIsTrue, SettlementsFollow
<1>t. ASSUME \A q \in Purchases : Kept(q)
      PROVE  LedgerIsTrue'
  BY <1>t DEF LedgerIsTrue, NeverPaid
<1> HIDE DEF Never
<1>1. ASSUME NEW p \in Purchases, NEW s \in {"CAPTURED", "FAILED", "UNKNOWN"}, NEW r \in Reason,
             ApplyOutcome(p, s, r), s = "CAPTURED" => prov'[p] = "PAID",
             r \in {"not_found", "not_created"} => Never(p)
      PROVE  LedgerIsTrue'
  <2>1. /\ UNCHANGED ent
        /\ \A q \in Purchases \ {p} : txn'[q] = txn[q] /\ why'[q] = why[q]
        /\ UNCHANGED <<txn, why>> \/ (txn'[p] = s /\ why'[p] = r)
    BY <1>1, OutcomeMoves DEF CardInv
  <2> QED
    BY <1>1, <1>i, <1>t, <2>1
<1>2. ASSUME UNCHANGED <<txn, why>>, \A q \in Purchases : ent'[q] # "NONE" => ent[q] # "NONE" \/ settle[q] = "SETTLED"
      PROVE  LedgerIsTrue'
  BY <1>2, <1>i, <1>t
<1>3. ASSUME UNCHANGED ledgerVars
      PROVE  LedgerIsTrue'
  BY <1>2, <1>3 DEF ledgerVars, moneyVars
<1>4. ASSUME NEW p \in Purchases, Grant(p)
      PROVE  LedgerIsTrue'
  <2>1. UNCHANGED <<txn, why>>
        /\ \A q \in Purchases : ent'[q] # "NONE" => ent[q] # "NONE" \/ settle[q] = "SETTLED"
    BY <1>4 DEF Grant, Grantable, CardInv, LedgerTypes
  <2> QED
    BY <1>2, <2>1
<1>5. ASSUME NEW p \in Purchases,
             \/ InsertPurchase(p) \/ CommitCheckout(p) \/ FailUnstarted(p) \/ OpenDisputeReview(p)
             \/ OpenLateCaptureReview(p) \/ \E c \in Creation : SetCreation(p, c)
             \/ AccessEnds(p) \/ ApplyRefundPolicy(p)
             \/ \E k \in CaseKind, end \in BOOLEAN : ResolveCase(p, k, end)
             \/ \E e \in Event : RecordReversal(p, e)
      PROVE  LedgerIsTrue'
  <2>1. CASE InsertPurchase(p) \/ FailUnstarted(p) \/ OpenDisputeReview(p) \/ OpenLateCaptureReview(p)
             \/ \E c \in Creation : SetCreation(p, c)
    BY <1>2, <2>1 DEF InsertPurchase, FailUnstarted, OpenDisputeReview, OpenLateCaptureReview, SetCreation
  <2>2. CASE CommitCheckout(p)
    <3>1. \A q \in Purchases : txn'[q] = "CAPTURED" => txn[q] = "CAPTURED"
      BY <2>2 DEF CommitCheckout, CardInv, LedgerTypes
    <3>2. UNCHANGED <<ent, why>>
      BY <2>2 DEF CommitCheckout
    <3> QED
      BY <1>i, <1>t, <3>1, <3>2
  <2>3. CASE AccessEnds(p)
    <3>1. UNCHANGED <<txn, why>> /\ \A q \in Purchases : ent'[q] # "NONE" => ent[q] # "NONE"
      BY <2>3 DEF AccessEnds, CardInv, LedgerTypes
    <3> QED
      BY <1>2, <3>1
  <2>4. CASE ApplyRefundPolicy(p)
    <3>1. UNCHANGED <<txn, why>> /\ \A q \in Purchases : ent'[q] # "NONE" => ent[q] # "NONE"
      BY <2>4 DEF ApplyRefundPolicy, CardInv, LedgerTypes
    <3> QED
      BY <1>2, <3>1
  <2>5. CASE \E k \in CaseKind, end \in BOOLEAN : ResolveCase(p, k, end)
    <3>1. UNCHANGED <<txn, why>> /\ \A q \in Purchases : ent'[q] # "NONE" => ent[q] # "NONE"
      BY <2>5 DEF ResolveCase, CardInv, LedgerTypes
    <3> QED
      BY <1>2, <3>1
  <2>6. CASE \E e \in Event : RecordReversal(p, e)
    BY <1>2, <2>6, ReversalMoves DEF CardInv
  <2> QED
    BY <1>5, <2>1, <2>2, <2>3, <2>4, <2>5, <2>6
<1>6. ASSUME NEW h \in holds, NEW notCompleted \in BOOLEAN, ResolveHold(h, notCompleted)
      PROVE  LedgerIsTrue'
  <2>1. /\ UNCHANGED ent
        /\ \A q \in Purchases :
              /\ txn'[q] = "CAPTURED" => txn[q] = "CAPTURED"
              /\ why'[q] \in {"not_found", "not_created"} => why'[q] = why[q]
    BY <1>6, HoldMoves DEF CardInv
  <2> QED
    BY <1>i, <1>t, <2>1
<1>7. CASE DeclareRecovery \/ ReleaseRecovery
  BY <1>2, <1>7 DEF DeclareRecovery, ReleaseRecovery, moneyVars
<1>8. ASSUME NEW w \in Workers, Apply(w)
      PROVE  LedgerIsTrue'
  <2> DEFINE p == work[w].p
             s == work[w].verdict.status
             r == work[w].verdict.reason
  <2>1. p \in Purchases /\ s \in {"CAPTURED", "FAILED", "UNKNOWN"} /\ r \in Reason
    BY <1>8, CallerTyped DEF Apply, CardInv, AnswersAreTrue, AnswerIsTrue
  <2>2. ApplyOutcome(p, s, r)
    BY <1>8 DEF Apply
  <2>3. (s = "CAPTURED" => prov[p] = "PAID") /\ (r \in {"not_found", "not_created"} => NeverPaid(p))
    BY DEF CardInv, AnswersAreTrue, AnswerIsTrue
  <2>4. (s = "CAPTURED" => prov'[p] = "PAID") /\ (r \in {"not_found", "not_created"} => Never(p))
    BY <1>s, <2>1, <2>3
  <2> HIDE DEF p, s, r
  <2> QED
    BY <1>1, <2>1, <2>2, <2>4
<1>9. ASSUME NEW p \in Purchases, ConcludeNotCreated(p)
      PROVE  LedgerIsTrue'
  <2>1. ApplyOutcome(p, "FAILED", "not_created") /\ "not_created" \in Reason
    BY <1>9 DEF ConcludeNotCreated, Reason
  <2>2. Never(p)
    BY <1>9 DEF ConcludeNotCreated, CardInv, RequestKnows, ProcessTypes, provVars, Never
  <2> QED
    BY <1>1, <2>1, <2>2
<1>10. ASSUME NEW w \in Workers, WorkerStep(w)
       PROVE  LedgerIsTrue'
  <2>1. work[w].p \in Purchases /\ work[w].evs \subseteq Event
    BY CallerTyped DEF CardInv
  <2>2. CASE Query(w)
    BY <1>3, <2>2 DEF Query
  <2>3. CASE GrantCaptured(w)
    BY <1>4, <2>1, <2>3 DEF GrantCaptured
  <2>4. CASE RecordEvent(w)
    BY <1>5, <2>1, <2>4 DEF RecordEvent
  <2>5. CASE Policy(w) \/ OpenLate(w)
    BY <1>5, <2>1, <2>5 DEF Policy, OpenLate
  <2>6. CASE Regrant(w)
    BY <1>3, <1>4, <2>1, <2>6 DEF Regrant
  <2> QED
    BY <1>8, <1>10, <2>2, <2>3, <2>4, <2>5, <2>6 DEF WorkerStep
<1>11. ASSUME NEW p \in Purchases, Buy(p) \/ Request(p) \/ LoopFailUnstarted(p) \/ CloseCase(p) \/ OtherEnd(p)
       PROVE  LedgerIsTrue'
  <2>1. CASE Buy(p) \/ LoopFailUnstarted(p) \/ CloseCase(p) \/ OtherEnd(p)
    BY <1>5, <2>1 DEF Buy, LoopFailUnstarted, CloseCase, OtherEnd
  <2>2. CASE StartGate(p) \/ CallCreate(p)
    BY <1>3, <2>2 DEF StartGate, CallCreate
  <2>3. CASE StartCommit(p) \/ SaveCreation(p)
    BY <1>5, <2>3 DEF StartCommit, SaveCreation, Creation
  <2> QED
    BY <1>9, <1>11, <2>1, <2>2, <2>3 DEF Request
<1>12. ASSUME NEW p \in Purchases,
              \/ CheckoutUnavailable(p) \/ RequestFails(p) \/ GuestPays(p) \/ CheckoutCloses(p)
              \/ MerchantRefunds(p) \/ CardholderDisputes(p) \/ Tick(p)
              \/ LoopReconcile(p) \/ LoopRegrant(p) \/ LoopSweep(p) \/ LoopRecheck(p)
              \/ \E w \in Workers : PageReconcile(w, p)
       PROVE  LedgerIsTrue'
  <2>1. UNCHANGED ledgerVars
    BY <1>12 DEF CheckoutUnavailable, RequestFails, GuestPays, CheckoutCloses, MerchantRefunds,
                 CardholderDisputes, Tick, LoopReconcile, LoopRegrant, LoopSweep, LoopRecheck, PageReconcile, Begin
  <2> QED
    BY <1>3, <2>1
<1>13. CASE (\E w \in Workers : StepFails(w)) \/ Crash
  BY <1>3, <1>13 DEF StepFails, Crash
<1>14. CASE EnterRecovery \/ DecideHold \/ LeaveRecovery
  BY <1>6, <1>7, <1>14 DEF EnterRecovery, DecideHold, LeaveRecovery
<1> QED
  BY <1>10, <1>11, <1>12, <1>13, <1>14 DEF Next

\* Of all transactions only Grant opens access, and only on a SETTLED settlement.
LEMMA OnlyGrantOpens ==
    ASSUME LedgerTypes, LedgerStep, NEW p \in Purchases, ent[p] = "NONE", ent'[p] = "ACTIVE"
    PROVE  settle[p] = "SETTLED"
<1>1. CASE UNCHANGED ledgerVars
  BY <1>1 DEF ledgerVars, moneyVars
<1>2. ASSUME NEW q \in Purchases, InsertPurchase(q) \/ CommitCheckout(q) \/ FailUnstarted(q) \/ OpenDisputeReview(q)
             \/ OpenLateCaptureReview(q) \/ \E c \in Creation : SetCreation(q, c)
      PROVE  FALSE
  BY <1>2 DEF InsertPurchase, CommitCheckout, FailUnstarted, OpenDisputeReview, OpenLateCaptureReview, SetCreation
<1>3. ASSUME NEW q \in Purchases, Grant(q)
      PROVE  settle[p] = "SETTLED"
  BY <1>3 DEF Grant, Grantable, LedgerTypes
<1>4. ASSUME NEW q \in Purchases, AccessEnds(q) \/ ApplyRefundPolicy(q)
      PROVE  FALSE
  BY <1>4 DEF AccessEnds, ApplyRefundPolicy, LedgerTypes
<1>5. ASSUME NEW q \in Purchases, NEW k \in CaseKind, NEW end \in BOOLEAN, ResolveCase(q, k, end)
      PROVE  FALSE
  BY <1>5 DEF ResolveCase, LedgerTypes
<1>6. ASSUME NEW q \in Purchases, NEW s \in {"CAPTURED", "FAILED", "UNKNOWN"}, NEW r \in Reason, ApplyOutcome(q, s, r)
      PROVE  FALSE
  BY <1>6 DEF ApplyOutcome
<1>7. ASSUME NEW q \in Purchases, NEW e \in Event, RecordReversal(q, e)
      PROVE  FALSE
  BY <1>7, ReversalMoves
<1>8. CASE DeclareRecovery \/ ReleaseRecovery
  BY <1>8 DEF DeclareRecovery, ReleaseRecovery, moneyVars
<1>9. ASSUME NEW h \in holds, NEW notCompleted \in BOOLEAN, ResolveHold(h, notCompleted)
      PROVE  FALSE
  BY <1>9, HoldMoves
<1> QED
  BY <1>1, <1>2, <1>3, <1>4, <1>5, <1>6, <1>7, <1>8, <1>9 DEF LedgerStep

-----------------------------------------------------------------------------
(* The theorems *)

\* Before the first purchase the invariant holds.
LEMMA CardInvInit ==
    ASSUME Init
    PROVE  CardInv
<1>1. LedgerTypes
  BY DEF Init, LedgerInit, LedgerTypes, SettleStatus, TxnStatus, Reason, Creation
<1>2. \A w \in Workers : \E p \in Purchases : work[w] = Idle(p)
  BY DEF Init
<1>3. work \in [Workers -> Job]
  <2>1. {Idle(p) : p \in Purchases} \subseteq Job
    BY IdleTyped
  <2>2. work \in [Workers -> {Idle(p) : p \in Purchases}]
    BY DEF Init
  <2> QED
    BY <2>1, <2>2
<1>4. ProcessTypes
  <2>1. 0 \in 0..Price
    BY PriceAssumption
  <2> QED
    BY <1>3, <2>1 DEF Init, ProcessTypes, BuyerPc
<1>5. SettlementsFollow /\ HoldsCover
  BY DEF Init, LedgerInit, SettlementsFollow, HoldsCover, Returned
<1>6. RequestKnows /\ LedgerIsTrue
  BY DEF Init, LedgerInit, RequestKnows, LedgerIsTrue
<1>7. AnswersAreTrue
  <2>1. ASSUME NEW w \in Workers
        PROVE  AnswerIsTrue(w)
    <3>1. work[w].pc = "idle" /\ work[w].verdict.status = "NONE" /\ work[w].verdict.reason = "none"
      <4>1. PICK p \in Purchases : work[w] = Idle(p)
        BY <1>2
      <4>2. work[w].pc = "idle" /\ work[w].verdict = NoVerdict
        BY <4>1 DEF Idle
      <4> QED
        BY <4>2 DEF NoVerdict
    <3> QED
      BY <3>1 DEF AnswerIsTrue
  <2> QED
    BY <2>1 DEF AnswersAreTrue
<1> QED
  BY <1>1, <1>4, <1>5, <1>6, <1>7 DEF CardInv

\* Every step keeps it.
LEMMA CardInvStep ==
    ASSUME CardInv, [Next]_vars
    PROVE  CardInv'
<1>1. CASE Next
  <2>1. LedgerStep
    BY <1>1, StepIsTransaction DEF CardInv
  <2>2. LedgerTypes' /\ SettlementsFollow' /\ HoldsCover'
    BY <2>1, LedgerTyped, SettlementsStillFollow, HoldsStillCover DEF CardInv
  <2>3. RequestKnows'
    BY <1>1, NothingTakenBack
  <2> QED
    BY <1>1, <2>2, <2>3, ProcessTyped, AnswersStillTrue, LedgerStillTrue DEF CardInv
<1>2. CASE UNCHANGED vars
  BY <1>2 DEF vars, ledgerVars, moneyVars, recoveryVars, procVars, provVars, CardInv, LedgerTypes, ProcessTypes,
              SettlementsFollow, Returned, HoldsCover, RequestKnows, AnswersAreTrue, AnswerIsTrue, LedgerIsTrue,
              NeverPaid
<1> QED
  BY <1>1, <1>2

\* The invariant of the card path: what callers hold, what the ledger says and what the provider did agree.
THEOREM CardInvariance == Spec => []CardInv
<1>1. Init => CardInv
  BY CardInvInit
<1>2. CardInv /\ [Next]_vars => CardInv'
  BY CardInvStep
<1> QED
  BY <1>1, <1>2, PTL DEF Spec

\* Access is granted only for a purchase whose pinned amount the provider captured (p4_grant_paid_entitlement behind
\* Reconcile, the return page and the loop), whatever crashes, failed calls and recoveries lie between.
THEOREM PaidBeforeGranted == Spec => []GrantedIsPaid
<1>1. CardInv => GrantedIsPaid
  BY DEF CardInv, LedgerIsTrue, GrantedIsPaid
<1> QED
  BY <1>1, CardInvariance, PTL

\* A charge concluded as NOT_FOUND or NOT_CREATED is never captured afterwards (queryAndApply's grace is enough).
THEOREM NotFoundSound == Spec => []NotFoundIsUnpaid
<1>1. CardInv => NotFoundIsUnpaid
  BY DEF CardInv, LedgerIsTrue, NotFoundIsUnpaid, NeverPaid, CapturedAtProvider
<1> QED
  BY <1>1, CardInvariance, PTL

\* A settlement in progress has an executing charge or an open recovery hold of its own (p4_hold_financial_rails,
\* p4_resolve_recovery_hold), so a recovery can always be worked off.
THEOREM SettlementOwned == Spec => []OpenSettlementIsOwned
<1>1. CardInv => OpenSettlementIsOwned
  BY DEF CardInv, HoldsCover, OpenSettlementIsOwned
<1> QED
  BY <1>1, CardInvariance, PTL

\* A grant is a transaction on a SETTLED settlement, and money that came back has left SETTLED: no caller, however old
\* its answer, opens access after the charge was fully returned.
THEOREM NoLateGrant == Spec => NoGrantAfterFullReturn
<1>1. ASSUME CardInv, [Next]_vars, NEW p \in Purchases, ent[p] = "NONE", ent'[p] = "ACTIVE"
      PROVE  Returned(p) < Price
  <2>1. CASE UNCHANGED vars
    BY <1>1, <2>1 DEF vars, ledgerVars, moneyVars
  <2>2. CASE Next
    <3>1. LedgerStep
      BY <1>1, <2>2, StepIsTransaction DEF CardInv
    <3>2. settle[p] = "SETTLED"
      BY <1>1, <3>1, OnlyGrantOpens DEF CardInv
    <3> QED
      BY <1>1, <3>2, PriceAssumption DEF CardInv, LedgerTypes, SettlementsFollow, Returned
  <2> QED
    BY <1>1, <2>1, <2>2
<1>2. CardInv /\ [Next]_vars =>
         [\A p \in Purchases : ent[p] = "NONE" /\ ent'[p] = "ACTIVE" => Returned(p) < Price]_vars
  BY <1>1
<1> QED
  BY <1>2, CardInvariance, PTL DEF Spec, NoGrantAfterFullReturn
-----------------------------------------------------------------------------
(* Money that came back.  A caller may hold a report long after others were recorded: it is true of the provider's  *)
(* state by then as well, and the refunds recorded one by one are counted by the identifiers in the ledger.         *)

\* A report of the provider that is true of what it has done since.
RealEvent(e, p) ==
    /\ e.kind = "REFUND" =>
          /\ e.id <= pRefund[p]
          /\ feed = "EACH" => ~e.total /\ e.amount = 1
          /\ feed # "EACH" => e.total /\ e.amount = e.id
    /\ e.kind = "CHARGEBACK" => pCase[p] = "LOST"

ReportsAreReal == \A w \in Workers : \A e \in work[w].evs : RealEvent(e, work[w].p)

\* The refunds in the ledger, by the provider's identifier.
RefundIds(p) == {k \in 1..Price : <<"REFUND", k>> \in recorded[p]}

ReturnTypes ==
    /\ recorded \in [Purchases -> SUBSET ({"REFUND", "CHARGEBACK", "DISPUTE"} \X (1..Price))]
    /\ pCase \in [Purchases -> {"NONE", "DISPUTE", "LOST"}]

CountedById ==
    feed = "EACH" =>
        \A p \in Purchases : refunded[p] = Cardinality(RefundIds(p)) /\ RefundIds(p) \subseteq 1..pRefund[p]

ReturnInv == ReturnTypes /\ ReportsAreReal /\ CountedById /\ ReversalsAreReal

\* What the provider reports is true.
LEMMA EventsReal ==
    ASSUME ProcessTypes, NEW p \in Purchases, NEW e \in Events(p)
    PROVE  RealEvent(e, p)
<1>1. pRefund[p] \in 0..Price /\ Price \in Nat
  BY PriceAssumption DEF ProcessTypes
<1>2. CASE feed = "EACH" /\ e \in {[kind |-> "REFUND", id |-> k, amount |-> 1, total |-> FALSE] : k \in 1..pRefund[p]}
  <2>1. PICK k \in 1..pRefund[p] : e = [kind |-> "REFUND", id |-> k, amount |-> 1, total |-> FALSE]
    BY <1>2
  <2>2. k <= pRefund[p] /\ e.id = k /\ e.kind = "REFUND" /\ e.amount = 1 /\ ~e.total
    BY <1>1, <2>1
  <2> QED
    BY <1>2, <2>2 DEF RealEvent
<1>3. CASE /\ feed # "EACH"
           /\ e \in {[kind |-> "REFUND", id |-> k, amount |-> k, total |-> TRUE] : k \in {pRefund[p]} \ {0}}
  <2>1. e = [kind |-> "REFUND", id |-> pRefund[p], amount |-> pRefund[p], total |-> TRUE]
    BY <1>3
  <2>2. e.id <= pRefund[p] /\ e.kind = "REFUND" /\ e.amount = e.id /\ e.total
    BY <1>1, <2>1
  <2> QED
    BY <1>3, <2>2 DEF RealEvent
<1>4. CASE /\ pCase[p] # "NONE"
           /\ e = [kind |-> IF pCase[p] = "LOST" THEN "CHARGEBACK" ELSE "DISPUTE",
                   id |-> 1, amount |-> Price, total |-> FALSE]
  <2>1. e.kind = IF pCase[p] = "LOST" THEN "CHARGEBACK" ELSE "DISPUTE"
    BY <1>4
  <2> QED
    BY <2>1 DEF RealEvent
<1> QED
  BY <1>2, <1>3, <1>4 DEF Events

\* The provider takes no refund back and settles a dispute once.
LEMMA ProviderGrows ==
    ASSUME ProcessTypes, ReturnTypes, Next
    PROVE  /\ feed' = feed
           /\ pCase' \in [Purchases -> {"NONE", "DISPUTE", "LOST"}]
           /\ \A p \in Purchases : /\ pRefund[p] <= pRefund'[p]
                                   /\ pCase[p] = "LOST" => pCase'[p] = "LOST"
<1> USE DEF provVars, procVars
<1>1. \A p \in Purchases : pRefund[p] \in Nat
  BY PriceAssumption DEF ProcessTypes
<1>2. ASSUME UNCHANGED <<pRefund, pCase, feed>>
      PROVE  /\ feed' = feed
             /\ pCase' \in [Purchases -> {"NONE", "DISPUTE", "LOST"}]
             /\ \A p \in Purchases : /\ pRefund[p] <= pRefund'[p]
                                     /\ pCase[p] = "LOST" => pCase'[p] = "LOST"
  BY <1>1, <1>2 DEF ReturnTypes
<1>3. ASSUME NEW q \in Purchases, MerchantRefunds(q)
      PROVE  /\ UNCHANGED <<pCase, feed>>
             /\ \A p \in Purchases : pRefund[p] <= pRefund'[p]
  BY <1>1, <1>3 DEF MerchantRefunds, ProcessTypes
<1>4. ASSUME NEW q \in Purchases, CardholderDisputes(q)
      PROVE  /\ UNCHANGED <<pRefund, feed>>
             /\ pCase' \in [Purchases -> {"NONE", "DISPUTE", "LOST"}]
             /\ \A p \in Purchases : pCase[p] = "LOST" => pCase'[p] = "LOST"
  BY <1>4 DEF CardholderDisputes, ReturnTypes
<1>5. ASSUME NEW q \in Purchases,
             Buy(q) \/ CheckoutUnavailable(q) \/ Request(q) \/ RequestFails(q) \/ GuestPays(q) \/ CheckoutCloses(q) \/ Tick(q)
      PROVE  UNCHANGED <<pRefund, pCase, feed>>
  BY <1>5 DEF Buy, CheckoutUnavailable, Request, StartGate, StartCommit, CallCreate, SaveCreation, ConcludeNotCreated,
              RequestFails, GuestPays, CheckoutCloses, Tick
<1>6. CASE BeginStep \/ OnwardStep \/ (\E w \in Workers : Query(w)) \/ Crash
  <2>1. UNCHANGED <<pRefund, pCase, feed>>
    BY <1>6 DEF BeginStep, OnwardStep, Begin, Query, Apply, GrantCaptured, RecordEvent, Policy, Regrant, OpenLate,
                StepFails, Crash
  <2> QED
    BY <1>2, <2>1
<1>7. CASE DeskStep
  <2>1. UNCHANGED <<pRefund, pCase, feed>>
    BY <1>7 DEF DeskStep, LoopFailUnstarted, CloseCase, OtherEnd, EnterRecovery, DecideHold, LeaveRecovery
  <2> QED
    BY <1>2, <2>1
<1>8. CASE OutsideStep
  <2>1. PICK q \in Purchases :
           \/ Buy(q) \/ CheckoutUnavailable(q) \/ Request(q) \/ RequestFails(q)
           \/ GuestPays(q) \/ CheckoutCloses(q) \/ MerchantRefunds(q) \/ CardholderDisputes(q) \/ Tick(q)
    BY <1>8 DEF OutsideStep
  <2>2. CASE MerchantRefunds(q)
    BY <1>3, <2>2 DEF ReturnTypes
  <2>3. CASE CardholderDisputes(q)
    BY <1>1, <1>4, <2>3
  <2>4. CASE ~MerchantRefunds(q) /\ ~CardholderDisputes(q)
    BY <1>2, <1>5, <2>1, <2>4
  <2> QED
    BY <2>2, <2>3, <2>4
<1> QED
  BY <1>6, <1>7, <1>8, KindsOfStep

\* A caller holds reports it held before, or the ones the provider has just made.
LEMMA ReportsMove ==
    ASSUME CardInv, Next, NEW w \in Workers, NEW e \in work'[w].evs
    PROVE  /\ work'[w].p \in Purchases /\ e \in Event
           /\ \/ work'[w].p = work[w].p /\ e \in work[w].evs
              \/ e \in Events(work'[w].p)
<1>1. ProcessTypes'
  BY ProcessTyped
<1>2. work'[w].p \in Purchases /\ e \in Event
  BY <1>1 DEF ProcessTypes, Job
<1>3. CASE OutsideStep \/ DeskStep
  BY <1>2, <1>3, CallersRest
<1>4. CASE BeginStep
  <2>1. PICK v \in Workers, p \in Purchases, pc \in {"query", "regrant"}, job \in {"reconcile", "sweep", "recheck"} :
           Begin(v, p, pc, job)
    BY <1>4 DEF BeginStep
  <2>2. (\A u \in Workers \ {v} : work'[u] = work[u]) /\ work'[v].evs = {}
    BY <2>1, BeginMoves DEF CardInv
  <2> QED
    BY <1>2, <2>2
<1>5. CASE OnwardStep
  <2>1. PICK v \in Workers :
           \/ Apply(v) \/ GrantCaptured(v) \/ RecordEvent(v) \/ Policy(v) \/ Regrant(v) \/ OpenLate(v)
           \/ StepFails(v)
    BY <1>5 DEF OnwardStep
  <2>2. Moves(v) /\ work'[v].evs \subseteq work[v].evs
    BY <2>1, CallerGoesOn DEF CardInv
  <2> QED
    BY <1>2, <2>2 DEF Moves
<1>6. ASSUME NEW v \in Workers, Query(v)
      PROVE  \/ work'[w].p = work[w].p /\ e \in work[w].evs
             \/ e \in Events(work'[w].p)
  <2>1. work[v].pc = "query"
    BY <1>6 DEF Query
  <2>2. Moves(v) /\ work'[v].evs \subseteq work[v].evs \cup Events(work[v].p)
    BY <1>6, <2>1, QueryHears, HearsMoves DEF CardInv
  <2> QED
    BY <2>2 DEF Moves
<1>7. CASE Crash
  <2>1. work'[w] = Idle(work[w].p) /\ work[w].p \in Purchases
    BY <1>7, CallerTyped DEF Crash, CardInv
  <2> QED
    BY <2>1, IdleTyped
<1> QED
  BY <1>2, <1>3, <1>4, <1>5, <1>6, <1>7, KindsOfStep

\* Reports stay true.
LEMMA ReportsStillReal ==
    ASSUME CardInv, ReturnInv, Next
    PROVE  ReportsAreReal'
<1> SUFFICES ASSUME NEW w \in Workers, NEW e \in work'[w].evs
             PROVE  /\ e.kind = "REFUND"
                       => /\ e.id <= pRefund'[work'[w].p]
                          /\ feed' = "EACH" => ~e.total /\ e.amount = 1
                          /\ feed' # "EACH" => e.total /\ e.amount = e.id
                    /\ e.kind = "CHARGEBACK" => pCase'[work'[w].p] = "LOST"
  BY DEF ReportsAreReal, RealEvent
<1>1. /\ work'[w].p \in Purchases /\ e \in Event
      /\ \/ work'[w].p = work[w].p /\ e \in work[w].evs
         \/ e \in Events(work'[w].p)
  BY ReportsMove
<1>2. PICK p \in Purchases : p = work'[w].p
  BY <1>1
<1>3. RealEvent(e, p)
  BY <1>1, <1>2, EventsReal DEF CardInv, ReturnInv, ReportsAreReal
<1>4. feed' = feed /\ pRefund[p] <= pRefund'[p] /\ (pCase[p] = "LOST" => pCase'[p] = "LOST")
  BY ProviderGrows DEF CardInv, ReturnInv
<1>5. e.id \in Nat /\ pRefund[p] \in Nat /\ pRefund'[p] \in Nat
  <2>1. ProcessTypes /\ ProcessTypes'
    BY ProcessTyped DEF CardInv
  <2> QED
    BY <1>1, <2>1, PriceAssumption DEF ProcessTypes, Event
<1> QED
  BY <1>2, <1>3, <1>4, <1>5 DEF RealEvent

\* Only a caller that records a report changes what came back.
LEMMA OnlyReportsReturn ==
    ASSUME CardInv, Next
    PROVE  \/ UNCHANGED <<refunded, chargedBack, recorded>>
           \/ \E w \in Workers : \E e \in work[w].evs : e.kind # "DISPUTE" /\ RecordReversal(work[w].p, e)
<1> USE DEF ledgerVars, moneyVars
<1>1. CASE BeginStep \/ (\E w \in Workers : Query(w)) \/ Crash
  BY <1>1 DEF BeginStep, Begin, Query, Crash
<1>2. CASE OnwardStep
  <2>1. ASSUME NEW p, Grant(p) \/ OpenDisputeReview(p) \/ ApplyRefundPolicy(p) \/ OpenLateCaptureReview(p)
        PROVE  UNCHANGED <<refunded, chargedBack, recorded>>
    BY <2>1 DEF Grant, OpenDisputeReview, ApplyRefundPolicy, OpenLateCaptureReview
  <2>2. ASSUME NEW p, NEW s, NEW r, ApplyOutcome(p, s, r)
        PROVE  UNCHANGED <<refunded, chargedBack, recorded>>
    BY <2>2 DEF ApplyOutcome
  <2> QED
    BY <1>2, <2>1, <2>2 DEF OnwardStep, Apply, GrantCaptured, RecordEvent, Policy, Regrant, OpenLate, StepFails
<1>3. CASE DeskStep
  BY <1>3 DEF DeskStep, LoopFailUnstarted, FailUnstarted, CloseCase, ResolveCase, OtherEnd, AccessEnds, EnterRecovery,
              DeclareRecovery, DecideHold, ResolveHold, LeaveRecovery, ReleaseRecovery
<1>4. CASE OutsideStep
  <2>1. PICK p \in Purchases :
           \/ Buy(p) \/ CheckoutUnavailable(p) \/ Request(p) \/ RequestFails(p)
           \/ GuestPays(p) \/ CheckoutCloses(p) \/ MerchantRefunds(p) \/ CardholderDisputes(p) \/ Tick(p)
    BY <1>4 DEF OutsideStep
  <2>2. CASE Request(p)
    BY <2>2 DEF Request, StartGate, StartCommit, CommitCheckout, CallCreate, SaveCreation, SetCreation,
                ConcludeNotCreated, ApplyOutcome
  <2> QED
    BY <2>1, <2>2 DEF Buy, InsertPurchase, CheckoutUnavailable, RequestFails, GuestPays, CheckoutCloses,
                      MerchantRefunds, CardholderDisputes, Tick
<1> QED
  BY <1>1, <1>2, <1>3, <1>4, KindsOfStep

\* The identifiers in the ledger are finitely many, and a number the provider has used bounds them.
LEMMA IdsBounded ==
    ASSUME NEW n \in 0..Price, NEW S, S \subseteq 1..n
    PROVE  IsFiniteSet(S) /\ Cardinality(S) \in Nat /\ Cardinality(S) <= n
<1>1. n \in Nat /\ 0 \in Int /\ 1 \in Int
  BY PriceAssumption
<1>2. IsFiniteSet(1..n) /\ Cardinality(1..n) = n
  BY <1>1, FS_Interval
<1> QED
  BY <1>2, FS_Subset, FS_CardinalityType

\* The ledger after a step, against what the provider had done before it.
LedgerStillReal ==
    /\ recorded' \in [Purchases -> SUBSET ({"REFUND", "CHARGEBACK", "DISPUTE"} \X (1..Price))]
    /\ \A q \in Purchases :
          /\ refunded'[q] <= pRefund[q] /\ refunded'[q] \in Nat /\ chargedBack'[q] \in Nat
          /\ chargedBack'[q] > 0 => pCase[q] = "LOST"
          /\ refunded'[q] + chargedBack'[q] <= Price
          /\ feed = "EACH" => refunded'[q] = Cardinality(RefundIds(q)') /\ RefundIds(q)' \subseteq 1..pRefund[q]

\* Recording a report that is true keeps what came back true.
LEMMA ReversalReal ==
    ASSUME CardInv, ReturnInv, NEW p \in Purchases, NEW e \in Event, RealEvent(e, p), e.kind # "DISPUTE",
           RecordReversal(p, e)
    PROVE  LedgerStillReal
<1> USE DEF LedgerStillReal
<1> DEFINE money == NewMoney(p, e)
           new == txn[p] = "CAPTURED" /\ money > 0 /\ <<e.kind, e.id>> \notin recorded[p]
           over == Returned(p) + money > Price
<1>1. /\ refunded \in [Purchases -> Nat] /\ chargedBack \in [Purchases -> Nat] /\ pRefund \in [Purchases -> 0..Price]
      /\ recorded \in [Purchases -> SUBSET ({"REFUND", "CHARGEBACK", "DISPUTE"} \X (1..Price))]
      /\ Price \in Nat /\ e.amount \in 1..Price /\ e.id \in 1..Price /\ e.kind \in {"REFUND", "CHARGEBACK"}
  BY PriceAssumption DEF CardInv, LedgerTypes, ProcessTypes, ReturnInv, ReturnTypes, Event
<1>2. \A q \in Purchases : /\ refunded[q] <= pRefund[q] /\ (chargedBack[q] > 0 => pCase[q] = "LOST")
                           /\ refunded[q] + chargedBack[q] <= Price
  BY DEF ReturnInv, ReversalsAreReal, Returned
<1>3. \A q \in Purchases : feed = "EACH" => /\ refunded[q] = Cardinality(RefundIds(q))
                                            /\ RefundIds(q) \subseteq 1..pRefund[q]
  BY DEF ReturnInv, CountedById
<1>4. CASE ~(new /\ ~over /\ ~recovery)
  <2>1. UNCHANGED <<recorded, refunded, chargedBack>>
    BY <1>4 DEF RecordReversal
  <2>2. \A q \in Purchases : RefundIds(q)' = RefundIds(q)
    BY <2>1 DEF RefundIds
  <2> QED
    BY <1>1, <1>2, <1>3, <2>1, <2>2
<1>5. CASE new /\ ~over /\ ~recovery
  <2>1. /\ recorded' = [recorded EXCEPT ![p] = @ \cup {<<e.kind, e.id>>}]
        /\ IF e.kind = "REFUND"
           THEN refunded' = [refunded EXCEPT ![p] = @ + money] /\ UNCHANGED chargedBack
           ELSE chargedBack' = [chargedBack EXCEPT ![p] = @ + money] /\ UNCHANGED refunded
        /\ money > 0 /\ <<e.kind, e.id>> \notin recorded[p] /\ ~(refunded[p] + chargedBack[p] + money > Price)
    BY <1>5 DEF RecordReversal, Returned
  <2>2. money \in Int /\ refunded[p] \in Nat /\ chargedBack[p] \in Nat
    BY <1>1 DEF NewMoney
  <2>3. recorded' \in [Purchases -> SUBSET ({"REFUND", "CHARGEBACK", "DISPUTE"} \X (1..Price))]
    <3>1. <<e.kind, e.id>> \in {"REFUND", "CHARGEBACK", "DISPUTE"} \X (1..Price)
      BY <1>1
    <3> QED
      BY <1>1, <2>1, <3>1
  <2>4. \A q \in Purchases \ {p} : RefundIds(q)' = RefundIds(q)
    BY <1>1, <2>1 DEF RefundIds
  <2>5. CASE e.kind = "CHARGEBACK"
    <3>1. refunded' = refunded /\ chargedBack' = [chargedBack EXCEPT ![p] = @ + money]
      BY <2>1, <2>5
    <3>2. RefundIds(p)' = RefundIds(p)
      BY <1>1, <2>1, <2>5 DEF RefundIds
    <3>3. pCase[p] = "LOST"
      BY <2>5 DEF RealEvent
    <3> HIDE DEF money
    <3> QED
      BY <1>1, <1>2, <1>3, <2>1, <2>2, <2>3, <2>4, <3>1, <3>2, <3>3
  <2>6. CASE e.kind = "REFUND"
    <3>1. chargedBack' = chargedBack /\ refunded' = [refunded EXCEPT ![p] = @ + money]
      BY <2>1, <2>6
    <3>2. RefundIds(p)' = RefundIds(p) \cup {e.id} /\ e.id \notin RefundIds(p)
      BY <1>1, <2>1, <2>6 DEF RefundIds
    <3>3. e.id <= pRefund[p] /\ pRefund[p] \in 0..Price
      BY <1>1, <2>6 DEF RealEvent
    <3>4. refunded'[p] = refunded[p] + money
      BY <1>1, <3>1
    <3>5. CASE feed = "EACH"
      <4>1. money = 1
        BY <2>6, <3>5 DEF RealEvent, NewMoney
      <4>2. RefundIds(p)' \subseteq 1..pRefund[p]
        BY <1>1, <1>3, <3>2, <3>3, <3>5
      <4>3. Cardinality(RefundIds(p)') = Cardinality(RefundIds(p)) + 1
        <5>1. IsFiniteSet(RefundIds(p))
          BY <1>3, <3>3, <3>5, IdsBounded
        <5> QED
          BY <3>2, <5>1, FS_AddElement
      <4>4. refunded'[p] = Cardinality(RefundIds(p)') /\ refunded'[p] <= pRefund[p]
        BY <1>3, <3>3, <3>4, <3>5, <4>1, <4>2, <4>3, IdsBounded
      <4> HIDE DEF money
      <4> QED
        BY <1>1, <1>2, <1>3, <2>1, <2>2, <2>3, <2>4, <3>1, <3>4, <3>5, <4>2, <4>4
    <3>6. CASE feed # "EACH"
      <4>1. money = e.id - refunded[p]
        BY <2>6, <3>6 DEF RealEvent, NewMoney
      <4>2. refunded'[p] = e.id
        BY <1>1, <2>2, <3>4, <4>1
      <4> HIDE DEF money
      <4> QED
        BY <1>1, <1>2, <2>1, <2>2, <2>3, <3>1, <3>3, <3>4, <3>6, <4>2
    <3> QED
      BY <3>5, <3>6
  <2> QED
    BY <1>1, <2>5, <2>6
<1> QED
  BY <1>4, <1>5

\* No step records more than came back.
LEMMA ReturnInvStep == CardInv /\ ReturnInv /\ [Next]_vars => ReturnInv'
<1> SUFFICES ASSUME CardInv, ReturnInv, [Next]_vars PROVE ReturnInv'
  OBVIOUS
<1>1. CASE UNCHANGED vars
  <2>1. UNCHANGED <<recorded, pCase, pRefund, feed, work, refunded, chargedBack>>
    BY <1>1 DEF vars, ledgerVars, moneyVars, procVars, provVars
  <2>2. \A p \in Purchases : RefundIds(p)' = RefundIds(p)
    BY <2>1 DEF RefundIds
  <2>3. ReturnTypes' /\ ReportsAreReal' /\ ReversalsAreReal'
    BY <2>1 DEF ReturnInv, ReturnTypes, ReportsAreReal, RealEvent, ReversalsAreReal, Returned
  <2>4. CountedById'
    BY <2>1, <2>2 DEF ReturnInv, CountedById
  <2> QED
    BY <2>3, <2>4 DEF ReturnInv
<1>2. CASE Next
  <2>1. /\ feed' = feed /\ pCase' \in [Purchases -> {"NONE", "DISPUTE", "LOST"}]
        /\ \A p \in Purchases : /\ pRefund[p] <= pRefund'[p]
                                /\ pCase[p] = "LOST" => pCase'[p] = "LOST"
    BY <1>2, ProviderGrows DEF CardInv, ReturnInv
  <2>2. ReportsAreReal'
    BY <1>2, ReportsStillReal
  <2>3. LedgerStillReal
    <3>1. CASE UNCHANGED <<refunded, chargedBack, recorded>>
      <4>1. \A p \in Purchases : RefundIds(p)' = RefundIds(p)
        BY <3>1 DEF RefundIds
      <4> QED
        BY <3>1, <4>1 DEF CardInv, LedgerTypes, ReturnInv, ReturnTypes, ReversalsAreReal, Returned, CountedById,
                          LedgerStillReal
    <3>2. ASSUME NEW w \in Workers, NEW e \in work[w].evs, e.kind # "DISPUTE", RecordReversal(work[w].p, e)
          PROVE  LedgerStillReal
      <4>1. work[w].p \in Purchases /\ e \in Event /\ RealEvent(e, work[w].p)
        BY CallerTyped DEF CardInv, ReturnInv, ReportsAreReal
      <4> QED
        BY <3>2, <4>1, ReversalReal
    <3> QED
      BY <1>2, <3>1, <3>2, OnlyReportsReturn
  <2>4. \A p \in Purchases : pRefund[p] \in Nat /\ pRefund'[p] \in Nat
    <3>1. ProcessTypes /\ ProcessTypes'
      BY <1>2, ProcessTyped DEF CardInv
    <3> QED
      BY <3>1, PriceAssumption DEF ProcessTypes
  <2>5. ReturnTypes'
    BY <2>1, <2>3 DEF ReturnTypes, LedgerStillReal
  <2>6. CountedById'
    <3>1. \A p \in Purchases : 1..pRefund[p] \subseteq 1..pRefund'[p]
      BY <2>1, <2>4
    <3> QED
      BY <2>1, <2>3, <3>1 DEF CountedById, LedgerStillReal
  <2>7. ReversalsAreReal'
    BY <2>1, <2>3, <2>4 DEF ReversalsAreReal, Returned, LedgerStillReal
  <2> QED
    BY <2>2, <2>5, <2>6, <2>7 DEF ReturnInv
<1> QED
  BY <1>1, <1>2

\* In the first state nothing came back.
LEMMA ReturnInvInit == Init => ReturnInv
<1> SUFFICES ASSUME Init PROVE ReturnInv
  OBVIOUS
<1>1. /\ refunded = [p \in Purchases |-> 0] /\ chargedBack = [p \in Purchases |-> 0]
      /\ recorded = [p \in Purchases |-> {}] /\ pRefund = [p \in Purchases |-> 0]
      /\ pCase = [p \in Purchases |-> "NONE"] /\ work \in [Workers -> {Idle(p) : p \in Purchases}]
  BY DEF Init, LedgerInit
<1>2. ReturnTypes
  BY <1>1 DEF ReturnTypes
<1>3. ReportsAreReal
  <2>1. \A w \in Workers : work[w].evs = {}
    BY <1>1, IdleTyped
  <2> QED
    BY <2>1 DEF ReportsAreReal
<1>4. CountedById
  <2>1. \A p \in Purchases : RefundIds(p) = {} /\ refunded[p] = 0
    BY <1>1 DEF RefundIds
  <2> QED
    BY <2>1, FS_EmptySet DEF CountedById
<1>5. ReversalsAreReal
  BY <1>1, PriceAssumption DEF ReversalsAreReal, Returned
<1> QED
  BY <1>2, <1>3, <1>4, <1>5 DEF ReturnInv

\* What callers hold of the provider's reports and what the ledger recorded of them agree with the provider.
THEOREM ReturnInvariance == Spec => [](CardInv /\ ReturnInv)
<1>1. Init => ReturnInv
  BY ReturnInvInit
<1>2. CardInv /\ ReturnInv /\ [Next]_vars => ReturnInv'
  BY ReturnInvStep
<1> QED
  BY <1>1, <1>2, CardInvariance, PTL DEF Spec

\* Two callers record refunds and chargebacks from reports of different ages, one by one or as running totals: the
\* ledger never holds more than really went back, nor more than the charge (p4_record_provider_reversal_v2).
THEOREM ReversalsTrue == Spec => []ReversalsAreReal
<1>1. CardInv /\ ReturnInv => ReversalsAreReal
  BY DEF ReturnInv
<1> QED
  BY <1>1, ReturnInvariance, PTL

-----------------------------------------------------------------------------
(* The contract of a purchase.  Two more facts are needed: money is asked for only after the charge was committed, *)
(* and a settlement stays in progress past its charge only while an operator's failure waits for its other half.  *)

Asked == {"creating", "created", "refused", "concluding", "ambiguous"}

BooksFirst == \A p \in Purchases : prov[p] # "NONE" \/ buyer[p] \in Asked => txn[p] # "NONE"

OpenIsUndecided ==
    \A p \in Purchases :
       settle[p] = "IN_PROGRESS" => txn[p] = "PENDING" \/ (txn[p] = "FAILED" /\ why[p] = "operator")

\* No transaction removes a charge.
LEMMA ChargeStays ==
    ASSUME LedgerTypes, LedgerStep, NEW p \in Purchases, txn[p] # "NONE"
    PROVE  txn'[p] # "NONE"
<1>1. CASE UNCHANGED ledgerVars \/ DeclareRecovery \/ ReleaseRecovery
  BY <1>1 DEF ledgerVars, moneyVars, DeclareRecovery, ReleaseRecovery
<1>2. ASSUME NEW q \in Purchases, InsertPurchase(q) \/ CommitCheckout(q) \/ FailUnstarted(q)
      PROVE  txn'[p] # "NONE"
  BY <1>2 DEF InsertPurchase, CommitCheckout, FailUnstarted, LedgerTypes
<1>3. ASSUME NEW q \in Purchases, NEW s \in {"CAPTURED", "FAILED", "UNKNOWN"}, NEW r \in Reason, ApplyOutcome(q, s, r)
      PROVE  txn'[p] # "NONE"
  BY <1>3, OutcomeMoves
<1>4. ASSUME NEW q \in Purchases, NEW e \in Event, RecordReversal(q, e)
      PROVE  txn'[p] # "NONE"
  BY <1>4, ReversalMoves
<1>5. ASSUME NEW h \in holds, NEW notCompleted \in BOOLEAN, ResolveHold(h, notCompleted)
      PROVE  txn'[p] # "NONE"
  BY <1>5, HoldMoves
<1> QED
  BY <1>1, <1>2, <1>3, <1>4, <1>5, QuietTransactions DEF LedgerStep

\* The provider has a checkout, or a request is about to ask for one, only after the charge was committed.
LEMMA AskedAfterCommit ==
    ASSUME CardInv, BooksFirst, Next
    PROVE  BooksFirst'
<1> SUFFICES ASSUME NEW p \in Purchases, prov'[p] # "NONE" \/ buyer'[p] \in Asked
             PROVE  txn'[p] # "NONE"
  BY DEF BooksFirst
<1>1. LedgerStep /\ LedgerTypes
  BY StepIsTransaction DEF CardInv
<1>2. CASE prov[p] # "NONE" \/ buyer[p] \in Asked
  BY <1>1, <1>2, ChargeStays DEF BooksFirst
<1>3. CASE prov[p] = "NONE" /\ buyer[p] \notin Asked
  <2>1. OutsideStep
    <3>1. ASSUME BeginStep \/ OnwardStep \/ DeskStep \/ (\E w \in Workers : Query(w)) \/ Crash
          PROVE  FALSE
      BY <1>3, <3>1, InsideStep DEF CardInv, Asked
    <3> QED
      BY <3>1, KindsOfStep
  <2>2. PICK q \in Purchases :
           \/ Buy(q) \/ CheckoutUnavailable(q) \/ Request(q) \/ RequestFails(q)
           \/ GuestPays(q) \/ CheckoutCloses(q) \/ MerchantRefunds(q) \/ CardholderDisputes(q) \/ Tick(q)
    BY <2>1 DEF OutsideStep
  <2>3. CASE StartCommit(q)
    BY <1>3, <2>3 DEF StartCommit, CommitCheckout, provVars, CardInv, LedgerTypes, ProcessTypes
  <2>4. CASE ~StartCommit(q)
    BY <1>3, <2>2, <2>4 DEF Buy, CheckoutUnavailable, Request, StartGate, CallCreate, SaveCreation, ConcludeNotCreated,
       RequestFails, GuestPays, CheckoutCloses, MerchantRefunds, CardholderDisputes, Tick, provVars, procVars,
       CardInv, ProcessTypes, Asked
  <2> QED
    BY <2>3, <2>4
<1> QED
  BY <1>2, <1>3

\* A settlement in progress has a charge nobody has concluded, or one an operator declared not completed.
LEMMA OpenStillUndecided ==
    ASSUME LedgerTypes, OpenIsUndecided, LedgerStep
    PROVE  OpenIsUndecided'
<1> USE DEF OpenIsUndecided
<1>1. CASE UNCHANGED ledgerVars \/ DeclareRecovery \/ ReleaseRecovery
  BY <1>1 DEF ledgerVars, moneyVars, DeclareRecovery, ReleaseRecovery
<1>2. ASSUME NEW p \in Purchases, InsertPurchase(p) \/ CommitCheckout(p) \/ FailUnstarted(p)
      PROVE  OpenIsUndecided'
  BY <1>2 DEF InsertPurchase, CommitCheckout, FailUnstarted, LedgerTypes
<1>3. ASSUME NEW p \in Purchases, NEW s \in {"CAPTURED", "FAILED", "UNKNOWN"}, NEW r \in Reason, ApplyOutcome(p, s, r)
      PROVE  OpenIsUndecided'
  BY <1>3, OutcomeMoves DEF SettlementOf
<1>4. ASSUME NEW p \in Purchases, NEW e \in Event, RecordReversal(p, e)
      PROVE  OpenIsUndecided'
  BY <1>4, ReversalMoves
<1>5. ASSUME NEW h \in holds, NEW notCompleted \in BOOLEAN, ResolveHold(h, notCompleted)
      PROVE  OpenIsUndecided'
  BY <1>5, HoldMoves
<1>6. ASSUME UNCHANGED <<settle, txn, why, refunded, chargedBack, holds>>
      PROVE  OpenIsUndecided'
  BY <1>6
<1> QED
  BY <1>1, <1>2, <1>3, <1>4, <1>5, <1>6, QuietTransactions DEF LedgerStep

\* Both facts are invariants.
LEMMA ContractFacts == Spec => [](BooksFirst /\ OpenIsUndecided)
<1>1. Init => BooksFirst /\ OpenIsUndecided
  BY DEF Init, LedgerInit, BooksFirst, OpenIsUndecided, Asked
<1>2. ASSUME CardInv, BooksFirst, OpenIsUndecided, [Next]_vars
      PROVE  BooksFirst' /\ OpenIsUndecided'
  <2>1. CASE Next
    BY <1>2, <2>1, StepIsTransaction, AskedAfterCommit, OpenStillUndecided DEF CardInv
  <2>2. CASE UNCHANGED vars
    BY <1>2, <2>2 DEF vars, ledgerVars, moneyVars, procVars, provVars, BooksFirst, OpenIsUndecided
  <2> QED
    BY <1>2, <2>1, <2>2
<1> QED
  BY <1>1, <1>2, CardInvariance, PTL DEF Spec

\* What a step leaves alone of one purchase, as the contract sees it: its books, its money, its access.
BooksRest(q) == StatusOf(q)' = StatusOf(q) /\ OutcomeOf(q)' = OutcomeOf(q)
MoneyRests(q) == PaidOf(q)' = PaidOf(q) /\ GivenBack(q)' = GivenBack(q)
AccessRests(q) == AccessOf(q)' = AccessOf(q)
ReturnsRest(q) == Returned(q)' = Returned(q)

\* Nothing the contract sees.
LEMMA NothingSeen ==
    ASSUME \A q \in Purchases : BooksRest(q) /\ MoneyRests(q) /\ AccessRests(q) /\ ReturnsRest(q)
    PROVE  UNCHANGED Contract!contractVars
BY DEF BooksRest, MoneyRests, AccessRests, ReturnsRest, Contract!contractVars

\* A step writes to the ledger or is one of the provider's and the guest's.
LEMMA LedgerOrProvider ==
    ASSUME Next
    PROVE  \/ UNCHANGED <<prov, pRefund, pCase>>
           \/ /\ UNCHANGED ledgerVars
              /\ \E p \in Purchases : \/ CallCreate(p) \/ GuestPays(p) \/ CheckoutCloses(p) \/ MerchantRefunds(p)
                                      \/ CardholderDisputes(p)
<1> USE DEF provVars, procVars
<1>1. CASE BeginStep \/ OnwardStep \/ (\E w \in Workers : Query(w)) \/ Crash
  BY <1>1 DEF BeginStep, OnwardStep, Begin, Query, Apply, GrantCaptured, RecordEvent, Policy, Regrant, OpenLate,
              StepFails, Crash
<1>2. CASE DeskStep
  BY <1>2 DEF DeskStep, LoopFailUnstarted, CloseCase, OtherEnd, EnterRecovery, DecideHold, LeaveRecovery
<1>3. CASE OutsideStep
  <2>1. PICK p \in Purchases :
           \/ Buy(p) \/ CheckoutUnavailable(p) \/ Request(p) \/ RequestFails(p)
           \/ GuestPays(p) \/ CheckoutCloses(p) \/ MerchantRefunds(p) \/ CardholderDisputes(p) \/ Tick(p)
    BY <1>3 DEF OutsideStep
  <2>2. CASE CallCreate(p) \/ GuestPays(p) \/ CheckoutCloses(p) \/ MerchantRefunds(p) \/ CardholderDisputes(p)
    BY <2>2 DEF CallCreate, GuestPays, CheckoutCloses, MerchantRefunds, CardholderDisputes
  <2>3. CASE ~(CallCreate(p) \/ GuestPays(p) \/ CheckoutCloses(p) \/ MerchantRefunds(p) \/ CardholderDisputes(p))
    BY <2>1, <2>3 DEF Buy, CheckoutUnavailable, Request, StartGate, StartCommit, SaveCreation, ConcludeNotCreated,
                      RequestFails, Tick
  <2> QED
    BY <2>2, <2>3
<1> QED
  BY <1>1, <1>2, <1>3, KindsOfStep

\* What the guest and the provider do: a payment of a charge that is in the books and not void, money given back.
LEMMA ProviderMaps ==
    ASSUME CardInv, ReturnInv, BooksFirst, LedgerIsTrue', UNCHANGED ledgerVars, NEW p \in Purchases,
           CallCreate(p) \/ GuestPays(p) \/ CheckoutCloses(p) \/ MerchantRefunds(p) \/ CardholderDisputes(p)
    PROVE  [Contract!Next]_(Contract!contractVars)
<1>1. \A q \in Purchases : BooksRest(q) /\ AccessRests(q) /\ ReturnsRest(q)
  BY DEF ledgerVars, moneyVars, BooksRest, AccessRests, ReturnsRest, StatusOf, OutcomeOf, AccessOf, Returned
<1>2. /\ prov \in [Purchases -> {"NONE", "OPEN", "CLOSED", "PAID", "MISPAID"}] /\ pRefund \in [Purchases -> 0..Price]
      /\ pCase \in [Purchases -> {"NONE", "DISPUTE", "LOST"}] /\ Price \in Nat /\ Price > 0
  BY PriceAssumption DEF CardInv, ProcessTypes, ReturnInv, ReturnTypes
<1>3. CASE CallCreate(p) \/ CheckoutCloses(p)
  <2>1. \A q \in Purchases : MoneyRests(q)
    <3>1. UNCHANGED <<pRefund, pCase>>
      BY <1>3 DEF CallCreate, CheckoutCloses
    <3>2. \A q \in Purchases : prov'[q] = prov[q] \/ (prov[q] \in {"NONE", "OPEN"} /\ prov'[q] \in {"NONE", "OPEN", "CLOSED"})
      BY <1>2, <1>3 DEF CallCreate, CheckoutCloses, CardInv, RequestKnows
    <3> QED
      BY <3>1, <3>2 DEF MoneyRests, PaidOf, GivenBack
  <2> QED
    BY <1>1, <2>1, NothingSeen
<1>4. CASE GuestPays(p)
  <2>1. /\ UNCHANGED <<pRefund, pCase>> /\ prov[p] \in {"OPEN", "CLOSED"} /\ prov'[p] \in {"PAID", "MISPAID"}
        /\ \A q \in Purchases \ {p} : prov'[q] = prov[q]
    BY <1>2, <1>4 DEF GuestPays
  <2>2. /\ \A q \in Purchases : GivenBack(q)' = GivenBack(q)
        /\ \A q \in Purchases \ {p} : PaidOf(q)' = PaidOf(q)
        /\ PaidOf(p) = "NO" /\ PaidOf(p)' \in {"EXACT", "OTHER"}
    BY <2>1 DEF GivenBack, PaidOf
  <2>3. OutcomeOf(p) \notin {"NONE", "VOID"}
    <3>1. txn[p] # "NONE"
      BY <2>1 DEF BooksFirst
    <3>2. why'[p] = why[p]
      BY DEF ledgerVars, moneyVars
    <3>3. why[p] \notin {"not_found", "not_created"}
      BY <2>1, <3>2 DEF LedgerIsTrue, NeverPaid
    <3> QED
      BY <3>1, <3>3 DEF OutcomeOf, CardInv, LedgerTypes, TxnStatus
  <2>4. Contract!Pay(p)
    BY <1>1, <2>2, <2>3 DEF Contract!Pay, BooksRest, AccessRests, ReturnsRest
  <2> QED
    BY <2>4 DEF Contract!Next
<1>5. CASE MerchantRefunds(p) \/ CardholderDisputes(p)
  <2>1. UNCHANGED prov /\ prov[p] = "PAID"
    BY <1>5 DEF MerchantRefunds, CardholderDisputes
  <2>2. \A q \in Purchases : PaidOf(q)' = PaidOf(q)
    BY <2>1 DEF PaidOf
  <2>3. PaidOf(p) = "EXACT"
    BY <2>1 DEF PaidOf
  <2>4. /\ \A q \in Purchases \ {p} : GivenBack(q)' = GivenBack(q)
        /\ GivenBack(p)' = GivenBack(p) \/ (\E n \in 1..Price : GivenBack(p)' = GivenBack(p) + n)
    <3>1. CASE MerchantRefunds(p)
      <4>1. UNCHANGED pCase /\ pRefund'[p] = pRefund[p] + 1 /\ \A q \in Purchases \ {p} : pRefund'[q] = pRefund[q]
        BY <1>2, <3>1 DEF MerchantRefunds
      <4>2. 1 \in 1..Price /\ GivenBack(p)' = GivenBack(p) + 1
        BY <1>2, <4>1 DEF GivenBack
      <4> QED
        BY <4>1, <4>2 DEF GivenBack
    <3>2. CASE CardholderDisputes(p)
      <4>1. /\ UNCHANGED pRefund /\ \A q \in Purchases \ {p} : pCase'[q] = pCase[q]
            /\ pCase[p] # "LOST" /\ pCase'[p] \in {"DISPUTE", "LOST"}
        BY <1>2, <3>2 DEF CardholderDisputes
      <4>2. Price \in 1..Price /\ GivenBack(p)' \in {GivenBack(p), GivenBack(p) + Price}
        BY <1>2, <4>1 DEF GivenBack
      <4> QED
        BY <4>1, <4>2 DEF GivenBack
    <3> QED
      BY <1>5, <3>1, <3>2
  <2>5. CASE GivenBack(p)' = GivenBack(p)
    BY <1>1, <2>2, <2>4, <2>5, NothingSeen DEF MoneyRests
  <2>6. CASE \E n \in 1..Price : GivenBack(p)' = GivenBack(p) + n
    <3>1. PICK n \in 1..Price : GivenBack(p)' = GivenBack(p) + n
      BY <2>6
    <3>2. [q \in Purchases |-> GivenBack(q)]' = [[q \in Purchases |-> GivenBack(q)] EXCEPT ![p] = @ + n]
      BY <2>4, <3>1
    <3>3. Contract!GiveBack(p)
      BY <1>1, <2>2, <2>3, <3>1, <3>2 DEF Contract!GiveBack, BooksRest, AccessRests, ReturnsRest
    <3> QED
      BY <3>3 DEF Contract!Next
  <2> QED
    BY <2>4, <2>5, <2>6
<1> QED
  BY <1>3, <1>4, <1>5

\* The books of one purchase move as the contract has them move: opened, charged, abandoned, escalated, or concluded
\* as the provider's side confirms.
LEMMA BooksMap ==
    ASSUME NEW p \in Purchases,
           \A q \in Purchases : MoneyRests(q) /\ AccessRests(q) /\ ReturnsRest(q),
           \A q \in Purchases \ {p} : BooksRest(q),
           \/ StatusOf(p) = "NONE" /\ StatusOf(p)' = "OPEN" /\ OutcomeOf(p)' = OutcomeOf(p)
           \/ StatusOf(p) = "OPEN" /\ OutcomeOf(p) = "NONE" /\ OutcomeOf(p)' = "PENDING" /\ StatusOf(p)' = StatusOf(p)
           \/ StatusOf(p) = "OPEN" /\ OutcomeOf(p) = "NONE" /\ StatusOf(p)' = "FAILED" /\ OutcomeOf(p)' = OutcomeOf(p)
           \/ /\ StatusOf(p) = "OPEN" /\ OutcomeOf(p) \in {"PENDING", "FAILED"} /\ StatusOf(p)' = "REVIEW"
              /\ OutcomeOf(p)' = OutcomeOf(p)
           \/ /\ OutcomeOf(p) = "PENDING" /\ OutcomeOf(p)' \in {"CAPTURED", "FAILED", "VOID", "UNKNOWN"}
              /\ OutcomeOf(p)' = "CAPTURED" => PaidOf(p) = "EXACT"
              /\ OutcomeOf(p)' = "VOID" => PaidOf(p) = "NO"
              /\ StatusOf(p)' \in IF StatusOf(p) = "OPEN" THEN Contract!Verdicts(OutcomeOf(p)') ELSE {StatusOf(p)}
    PROVE  Contract!Next
<1> USE DEF BooksRest, MoneyRests, AccessRests, ReturnsRest
<1>1. CASE StatusOf(p) = "NONE" /\ StatusOf(p)' = "OPEN" /\ OutcomeOf(p)' = OutcomeOf(p)
  <2>1. Contract!Open(p)
    BY <1>1 DEF Contract!Open
  <2> QED
    BY <2>1 DEF Contract!Next
<1>2. CASE StatusOf(p) = "OPEN" /\ OutcomeOf(p) = "NONE" /\ OutcomeOf(p)' = "PENDING" /\ StatusOf(p)' = StatusOf(p)
  <2>1. Contract!Charge(p)
    BY <1>2 DEF Contract!Charge
  <2> QED
    BY <2>1 DEF Contract!Next
<1>3. CASE StatusOf(p) = "OPEN" /\ OutcomeOf(p) = "NONE" /\ StatusOf(p)' = "FAILED" /\ OutcomeOf(p)' = OutcomeOf(p)
  <2>1. Contract!Abandon(p)
    BY <1>3 DEF Contract!Abandon
  <2> QED
    BY <2>1 DEF Contract!Next
<1>4. CASE /\ StatusOf(p) = "OPEN" /\ OutcomeOf(p) \in {"PENDING", "FAILED"} /\ StatusOf(p)' = "REVIEW"
           /\ OutcomeOf(p)' = OutcomeOf(p)
  <2>1. Contract!Escalate(p)
    BY <1>4 DEF Contract!Escalate
  <2> QED
    BY <2>1 DEF Contract!Next
<1>5. CASE /\ OutcomeOf(p) = "PENDING" /\ OutcomeOf(p)' \in {"CAPTURED", "FAILED", "VOID", "UNKNOWN"}
           /\ OutcomeOf(p)' = "CAPTURED" => PaidOf(p) = "EXACT"
           /\ OutcomeOf(p)' = "VOID" => PaidOf(p) = "NO"
           /\ StatusOf(p)' \in IF StatusOf(p) = "OPEN" THEN Contract!Verdicts(OutcomeOf(p)') ELSE {StatusOf(p)}
  <2>1. PICK o \in {"CAPTURED", "FAILED", "VOID", "UNKNOWN"} : o = OutcomeOf(p)'
    BY <1>5
  <2>2. PICK s \in IF StatusOf(p) = "OPEN" THEN Contract!Verdicts(o) ELSE {StatusOf(p)} : s = StatusOf(p)'
    BY <1>5, <2>1
  <2>3. [q \in Purchases |-> StatusOf(q)]' = [[q \in Purchases |-> StatusOf(q)] EXCEPT ![p] = s]
    BY <2>2
  <2>4. [q \in Purchases |-> OutcomeOf(q)]' = [[q \in Purchases |-> OutcomeOf(q)] EXCEPT ![p] = o]
    BY <2>1
  <2>5. Contract!Conclude(p, o)
    BY <1>5, <2>1, <2>2, <2>3, <2>4 DEF Contract!Conclude
  <2> QED
    BY <2>1, <2>5 DEF Contract!Next
<1> QED
  BY <1>1, <1>2, <1>3, <1>4, <1>5

\* What the books of a purchase look like to the contract.
LEMMA BooksSeen ==
    ASSUME NEW p \in Purchases
    PROVE  /\ settle'[p] = settle[p] => StatusOf(p)' = StatusOf(p)
           /\ txn'[p] = txn[p] /\ why'[p] = why[p] => OutcomeOf(p)' = OutcomeOf(p)
           /\ settle[p] \in {"SETTLED", "PARTIALLY_REVERSED", "REVERSED"}
              /\ settle'[p] \in {"SETTLED", "PARTIALLY_REVERSED", "REVERSED"} => StatusOf(p)' = StatusOf(p)
           /\ ent'[p] = ent[p] => AccessOf(p)' = AccessOf(p)
           /\ refunded'[p] = refunded[p] /\ chargedBack'[p] = chargedBack[p] => Returned(p)' = Returned(p)
BY DEF StatusOf, OutcomeOf, AccessOf, Returned

\* The outcome authority and an operator's conclusion: one verdict on a charge that is executing, and the provider's
\* side bears it out.
LEMMA ConclusionMaps ==
    ASSUME CardInv, OpenIsUndecided, LedgerIsTrue', UNCHANGED <<prov, pRefund, pCase>>,
           UNCHANGED <<ent, refunded, chargedBack>>, NEW p \in Purchases,
           \A q \in Purchases \ {p} : settle'[q] = settle[q] /\ txn'[q] = txn[q] /\ why'[q] = why[q],
           txn[p] = "PENDING", txn'[p] \in {"CAPTURED", "FAILED", "UNKNOWN"},
           \/ settle'[p] = IF settle[p] = "IN_PROGRESS" THEN SettlementOf(txn'[p]) ELSE settle[p]
           \/ settle'[p] = settle[p] /\ txn'[p] = "FAILED" /\ why'[p] = "operator"
    PROVE  Contract!Next
<1>1. \A q \in Purchases : MoneyRests(q)
  BY DEF MoneyRests, PaidOf, GivenBack
<1>2. \A q \in Purchases : AccessRests(q) /\ ReturnsRest(q)
  BY BooksSeen DEF AccessRests, ReturnsRest
<1>3. \A q \in Purchases \ {p} : BooksRest(q)
  BY BooksSeen DEF BooksRest
<1>4. OutcomeOf(p) = "PENDING" /\ OutcomeOf(p)' \in {"CAPTURED", "FAILED", "VOID", "UNKNOWN"}
  BY DEF OutcomeOf
<1>5. OutcomeOf(p)' = "CAPTURED" => PaidOf(p) = "EXACT"
  <2>1. txn'[p] = "CAPTURED" => prov[p] = "PAID"
    BY DEF LedgerIsTrue
  <2> QED
    BY <2>1 DEF OutcomeOf, PaidOf
<1>6. OutcomeOf(p)' = "VOID" => PaidOf(p) = "NO"
  <2>1. why'[p] \in {"not_found", "not_created"} => prov[p] \in {"NONE", "OPEN", "CLOSED"}
    BY DEF LedgerIsTrue, NeverPaid
  <2> QED
    BY <2>1 DEF OutcomeOf, PaidOf
<1>7. settle[p] \in SettleStatus /\ settle[p] \notin {"NONE", "REQUIRED"}
  BY DEF CardInv, LedgerTypes, SettlementsFollow
<1>8. StatusOf(p)' \in IF StatusOf(p) = "OPEN" THEN Contract!Verdicts(OutcomeOf(p)') ELSE {StatusOf(p)}
  <2>1. CASE settle[p] # "IN_PROGRESS"
    <3>1. StatusOf(p) # "OPEN"
      BY <1>7, <2>1 DEF StatusOf
    <3>2. StatusOf(p)' = StatusOf(p)
      BY <2>1, BooksSeen
    <3> QED
      BY <3>1, <3>2
  <2>2. CASE settle[p] = "IN_PROGRESS"
    <3>1. StatusOf(p) = "OPEN"
      BY <2>2 DEF StatusOf
    <3>2. CASE txn'[p] = "CAPTURED"
      BY <2>2, <3>1, <3>2 DEF StatusOf, OutcomeOf, Contract!Verdicts, SettlementOf
    <3>3. CASE txn'[p] = "UNKNOWN"
      BY <2>2, <3>1, <3>3 DEF StatusOf, OutcomeOf, Contract!Verdicts, SettlementOf
    <3>4. CASE txn'[p] = "FAILED"
      <4>1. OutcomeOf(p)' \in {"FAILED", "VOID"}
        BY <3>4 DEF OutcomeOf
      <4>2. Contract!Verdicts(OutcomeOf(p)') = {"FAILED", "OPEN"}
        BY <4>1 DEF Contract!Verdicts
      <4>3. StatusOf(p)' \in {"FAILED", "OPEN"}
        BY <2>2, <3>4 DEF StatusOf, SettlementOf
      <4> QED
        BY <3>1, <4>2, <4>3
    <3> QED
      BY <3>2, <3>3, <3>4
  <2> QED
    BY <2>1, <2>2
<1> QED
  BY <1>1, <1>2, <1>3, <1>4, <1>5, <1>6, <1>8, BooksMap

\* Access of one purchase opens on settled money nothing of which is booked as returned, or ends.
LEMMA AccessMaps ==
    ASSUME CardInv, LedgerStep, NEW p \in Purchases,
           \A q \in Purchases : BooksRest(q) /\ MoneyRests(q) /\ ReturnsRest(q),
           \A q \in Purchases \ {p} : AccessRests(q),
           \/ ent'[p] = ent[p]
           \/ ent[p] = "NONE" /\ ent'[p] = "ACTIVE"
           \/ ent[p] = "ACTIVE" /\ ent'[p] = "TERMINATED"
    PROVE  [Contract!Next]_(Contract!contractVars)
<1>1. CASE ent'[p] = ent[p]
  <2>1. AccessRests(p)
    BY <1>1, BooksSeen DEF AccessRests
  <2> QED
    BY <2>1, NothingSeen
<1>2. CASE ent[p] = "NONE" /\ ent'[p] = "ACTIVE"
  <2>1. settle[p] = "SETTLED"
    BY <1>2, OnlyGrantOpens DEF CardInv
  <2>2. StatusOf(p) = "SETTLED" /\ AccessOf(p) = "NONE" /\ AccessOf(p)' = "ACTIVE"
    BY <1>2, <2>1 DEF StatusOf, AccessOf
  <2>3. Returned(p) = 0
    BY <2>1 DEF CardInv, SettlementsFollow, LedgerTypes, Returned
  <2>4. Contract!Grant(p)
    BY <2>2, <2>3 DEF Contract!Grant, BooksRest, MoneyRests, ReturnsRest, AccessRests
  <2> QED
    BY <2>4 DEF Contract!Next
<1>3. CASE ent[p] = "ACTIVE" /\ ent'[p] = "TERMINATED"
  <2>1. AccessOf(p) = "ACTIVE" /\ AccessOf(p)' = "ENDED"
    BY <1>3 DEF AccessOf
  <2>2. Contract!End(p)
    BY <2>1 DEF Contract!End, BooksRest, MoneyRests, ReturnsRest, AccessRests
  <2> QED
    BY <2>2 DEF Contract!Next
<1> QED
  BY <1>1, <1>2, <1>3

\* A recorded report books money that really went back, of a captured charge and within its price.
LEMMA ReturnMaps ==
    ASSUME CardInv, ReturnInv, ReversalsAreReal', UNCHANGED <<prov, pRefund, pCase>>, NEW p \in Purchases,
           NEW e \in Event, RecordReversal(p, e)
    PROVE  [Contract!Next]_(Contract!contractVars)
<1>1. /\ UNCHANGED <<txn, why, ent>>
      /\ refunded' \in [Purchases -> Nat] /\ chargedBack' \in [Purchases -> Nat]
      /\ \A q \in Purchases \ {p} :
            settle'[q] = settle[q] /\ refunded'[q] = refunded[q] /\ chargedBack'[q] = chargedBack[q]
      /\ \/ UNCHANGED <<settle, refunded, chargedBack>>
         \/ /\ txn[p] = "CAPTURED"
            /\ IF settle[p] \in {"SETTLED", "PARTIALLY_REVERSED"}
               THEN settle'[p] \in {"PARTIALLY_REVERSED", "REVERSED"} ELSE settle'[p] = settle[p]
  BY ReversalMoves DEF CardInv
<1>2. \A q \in Purchases : BooksRest(q)
  BY <1>1, BooksSeen DEF BooksRest
<1>3. \A q \in Purchases : MoneyRests(q)
  BY DEF MoneyRests, PaidOf, GivenBack
<1>4. \A q \in Purchases : AccessRests(q)
  BY <1>1, BooksSeen DEF AccessRests
<1>5. \A q \in Purchases \ {p} : ReturnsRest(q)
  BY <1>1, BooksSeen DEF ReturnsRest
<1>6. CASE UNCHANGED <<refunded, chargedBack>>
  <2>1. \A q \in Purchases : ReturnsRest(q)
    BY <1>6, BooksSeen DEF ReturnsRest
  <2> QED
    BY <1>2, <1>3, <1>4, <2>1, NothingSeen
<1>7. CASE ~UNCHANGED <<refunded, chargedBack>>
  <2>1. PICK b \in Nat, c \in Nat : b = Returned(p) /\ c = Returned(p)'
    BY <1>1 DEF Returned, CardInv, LedgerTypes
  <2>2. b < c
    <3>1. /\ NewMoney(p, e) > 0 /\ NewMoney(p, e) \in Int
          /\ \/ refunded' = [refunded EXCEPT ![p] = @ + NewMoney(p, e)] /\ UNCHANGED chargedBack
             \/ chargedBack' = [chargedBack EXCEPT ![p] = @ + NewMoney(p, e)] /\ UNCHANGED refunded
      <4>1. NewMoney(p, e) \in Int
        BY PriceAssumption DEF NewMoney, Event, CardInv, LedgerTypes
      <4> QED
        BY <1>7, <4>1 DEF RecordReversal
    <3>2. refunded[p] \in Nat /\ chargedBack[p] \in Nat /\ refunded \in [Purchases -> Nat] /\ chargedBack \in [Purchases -> Nat]
      BY DEF CardInv, LedgerTypes
    <3>3. CASE refunded' = [refunded EXCEPT ![p] = @ + NewMoney(p, e)] /\ UNCHANGED chargedBack
      BY <2>1, <3>1, <3>2, <3>3 DEF Returned
    <3>4. CASE chargedBack' = [chargedBack EXCEPT ![p] = @ + NewMoney(p, e)] /\ UNCHANGED refunded
      BY <2>1, <3>1, <3>2, <3>4 DEF Returned
    <3> QED
      BY <3>1, <3>3, <3>4
  <2>3. c <= Price /\ c <= GivenBack(p)
    <3>1. /\ refunded'[p] \in Nat /\ chargedBack'[p] \in Nat /\ refunded'[p] <= pRefund[p]
          /\ chargedBack'[p] > 0 => pCase[p] = "LOST"
          /\ refunded'[p] + chargedBack'[p] <= Price
          /\ c = refunded'[p] + chargedBack'[p]
      BY <1>1, <2>1 DEF ReversalsAreReal, Returned
    <3>2. pRefund[p] \in Nat /\ Price \in Nat
      BY PriceAssumption DEF CardInv, ProcessTypes
    <3>3. CASE chargedBack'[p] > 0
      BY <3>1, <3>2, <3>3 DEF GivenBack
    <3>4. CASE chargedBack'[p] = 0
      BY <3>1, <3>2, <3>4 DEF GivenBack
    <3> QED
      BY <3>1, <3>3, <3>4
  <2>4. PICK n \in 1..Price : c = b + n
    <3>1. Price \in Nat /\ c - b \in 1..Price /\ c = b + (c - b)
      BY <2>1, <2>2, <2>3, PriceAssumption
    <3> QED
      BY <3>1
  <2>5. OutcomeOf(p) = "CAPTURED"
    BY <1>1, <1>7 DEF OutcomeOf
  <2>6. [q \in Purchases |-> Returned(q)]' = [[q \in Purchases |-> Returned(q)] EXCEPT ![p] = @ + n]
    BY <1>5, <2>1, <2>4 DEF ReturnsRest
  <2>7. Returned(p) + n <= GivenBack(p) /\ Returned(p) + n <= Price
    BY <2>1, <2>3, <2>4
  <2>8. Contract!Book(p)
    BY <1>2, <1>3, <1>4, <2>5, <2>6, <2>7 DEF Contract!Book, BooksRest, MoneyRests, AccessRests
  <2> QED
    BY <2>8 DEF Contract!Next
<1> QED
  BY <1>6, <1>7

\* Every step of the card path is a step of the contract, or one the contract does not see.
LEMMA PurchaseStepMaps ==
    ASSUME CardInv, ReturnInv, BooksFirst, OpenIsUndecided, CardInv', ReturnInv', [Next]_vars
    PROVE  [Contract!Next]_(Contract!contractVars)
<1>0. LedgerTypes /\ LedgerIsTrue' /\ ReversalsAreReal'
  BY DEF CardInv, ReturnInv
<1>1. CASE UNCHANGED vars
  <2>1. UNCHANGED <<settle, txn, why, ent, refunded, chargedBack, prov, pRefund, pCase>>
    BY <1>1 DEF vars, ledgerVars, moneyVars, provVars
  <2>2. \A q \in Purchases : MoneyRests(q)
    BY <2>1 DEF MoneyRests, PaidOf, GivenBack
  <2> QED
    BY <2>1, <2>2, BooksSeen, NothingSeen DEF BooksRest, AccessRests, ReturnsRest
<1>2. CASE /\ UNCHANGED ledgerVars
           /\ \E p \in Purchases : \/ CallCreate(p) \/ GuestPays(p) \/ CheckoutCloses(p) \/ MerchantRefunds(p)
                                   \/ CardholderDisputes(p)
  BY <1>0, <1>2, ProviderMaps
<1>3. CASE Next /\ UNCHANGED <<prov, pRefund, pCase>>
  <2>0. LedgerStep
    BY <1>3, StepIsTransaction DEF CardInv
  <2>m. \A q \in Purchases : MoneyRests(q)
    BY <1>3 DEF MoneyRests, PaidOf, GivenBack
  <2>1. CASE UNCHANGED <<settle, txn, why, ent, refunded, chargedBack>>
    BY <2>1, <2>m, BooksSeen, NothingSeen DEF BooksRest, AccessRests, ReturnsRest
  <2>2. ASSUME NEW p \in Purchases, InsertPurchase(p) \/ CommitCheckout(p) \/ FailUnstarted(p)
        PROVE  Contract!Next
    <3>1. UNCHANGED <<why, ent, refunded, chargedBack>>
      BY <2>2 DEF InsertPurchase, CommitCheckout, FailUnstarted
    <3>2. \A q \in Purchases \ {p} : settle'[q] = settle[q] /\ txn'[q] = txn[q]
      BY <2>2, <1>0 DEF InsertPurchase, CommitCheckout, FailUnstarted, LedgerTypes
    <3>3. \A q \in Purchases : AccessRests(q) /\ ReturnsRest(q)
      BY <3>1, BooksSeen DEF AccessRests, ReturnsRest
    <3>4. \A q \in Purchases \ {p} : BooksRest(q)
      BY <3>1, <3>2, BooksSeen DEF BooksRest
    <3>5. \/ settle[p] = "NONE" /\ settle'[p] = "REQUIRED" /\ txn'[p] = txn[p]
          \/ settle[p] = "REQUIRED" /\ settle'[p] = "IN_PROGRESS" /\ txn'[p] = "PENDING" /\ txn[p] = "NONE"
          \/ settle[p] = "REQUIRED" /\ settle'[p] = "FAILED" /\ txn'[p] = txn[p] /\ txn[p] = "NONE"
      BY <2>2, <1>0 DEF InsertPurchase, CommitCheckout, FailUnstarted, LedgerTypes, CardInv, SettlementsFollow
    <3>6. \/ StatusOf(p) = "NONE" /\ StatusOf(p)' = "OPEN" /\ OutcomeOf(p)' = OutcomeOf(p)
          \/ StatusOf(p) = "OPEN" /\ OutcomeOf(p) = "NONE" /\ OutcomeOf(p)' = "PENDING" /\ StatusOf(p)' = StatusOf(p)
          \/ StatusOf(p) = "OPEN" /\ OutcomeOf(p) = "NONE" /\ StatusOf(p)' = "FAILED" /\ OutcomeOf(p)' = OutcomeOf(p)
      BY <3>1, <3>5 DEF StatusOf, OutcomeOf
    <3> QED
      BY <2>m, <3>3, <3>4, <3>6, BooksMap
  <2>3. ASSUME NEW p \in Purchases, NEW s \in {"CAPTURED", "FAILED", "UNKNOWN"}, NEW r \in Reason, ApplyOutcome(p, s, r),
               ~UNCHANGED <<settle, txn, why>>
        PROVE  Contract!Next
    <3>1. /\ UNCHANGED <<ent, refunded, chargedBack>>
          /\ \A q \in Purchases \ {p} : settle'[q] = settle[q] /\ txn'[q] = txn[q] /\ why'[q] = why[q]
          /\ txn[p] = "PENDING" /\ txn'[p] = s
          /\ settle'[p] = IF settle[p] = "IN_PROGRESS" THEN SettlementOf(txn'[p]) ELSE settle[p]
      BY <1>0, <2>3, OutcomeMoves
    <3>2. txn'[p] \in {"CAPTURED", "FAILED", "UNKNOWN"}
      BY <3>1
    <3> QED
      BY <1>0, <1>3, <3>1, <3>2, ConclusionMaps
  <2>4. ASSUME NEW h \in holds, NEW notCompleted \in BOOLEAN, ResolveHold(h, notCompleted), ~UNCHANGED <<settle, txn, why>>
        PROVE  Contract!Next
    <3>1. PICK p \in Purchases : p = h[2]
      BY <1>0, <2>4, HoldMoves
    <3>2. /\ UNCHANGED <<ent, refunded, chargedBack>>
          /\ \A q \in Purchases \ {p} : settle'[q] = settle[q] /\ txn'[q] = txn[q] /\ why'[q] = why[q]
          /\ \/ /\ settle[p] = "IN_PROGRESS" /\ settle'[p] = "MANUAL_REVIEW" /\ UNCHANGED <<txn, why>>
             \/ /\ txn[p] = "PENDING" /\ why'[p] = "operator"
                /\ \/ txn'[p] = "FAILED" /\ UNCHANGED settle
                   \/ /\ txn'[p] = "UNKNOWN"
                      /\ settle'[p] = IF settle[p] = "IN_PROGRESS" THEN "MANUAL_REVIEW" ELSE settle[p]
      BY <1>0, <2>4, <3>1, HoldMoves
    <3>3. CASE settle[p] = "IN_PROGRESS" /\ settle'[p] = "MANUAL_REVIEW" /\ UNCHANGED <<txn, why>>
      <4>1. \A q \in Purchases : AccessRests(q) /\ ReturnsRest(q)
        BY <3>2, BooksSeen DEF AccessRests, ReturnsRest
      <4>2. \A q \in Purchases \ {p} : BooksRest(q)
        BY <3>2, BooksSeen DEF BooksRest
      <4>3. txn[p] = "PENDING" \/ (txn[p] = "FAILED" /\ why[p] = "operator")
        BY <3>3 DEF OpenIsUndecided
      <4>4. /\ StatusOf(p) = "OPEN" /\ OutcomeOf(p) \in {"PENDING", "FAILED"} /\ StatusOf(p)' = "REVIEW"
            /\ OutcomeOf(p)' = OutcomeOf(p)
        BY <3>3, <4>3 DEF StatusOf, OutcomeOf
      <4> QED
        BY <2>m, <4>1, <4>2, <4>4, BooksMap
    <3>4. CASE ~(settle[p] = "IN_PROGRESS" /\ settle'[p] = "MANUAL_REVIEW" /\ UNCHANGED <<txn, why>>)
      <4>1. /\ txn[p] = "PENDING" /\ txn'[p] \in {"CAPTURED", "FAILED", "UNKNOWN"}
            /\ \/ settle'[p] = IF settle[p] = "IN_PROGRESS" THEN SettlementOf(txn'[p]) ELSE settle[p]
               \/ settle'[p] = settle[p] /\ txn'[p] = "FAILED" /\ why'[p] = "operator"
        BY <3>2, <3>4 DEF SettlementOf
      <4> QED
        BY <1>0, <1>3, <3>2, <4>1, ConclusionMaps
    <3> QED
      BY <3>3, <3>4
  <2>5. ASSUME NEW p \in Purchases,
               \/ Grant(p) \/ AccessEnds(p) \/ OpenDisputeReview(p) \/ ApplyRefundPolicy(p)
               \/ OpenLateCaptureReview(p)
               \/ \E c \in Creation : SetCreation(p, c)
               \/ \E k \in CaseKind, end \in BOOLEAN : ResolveCase(p, k, end)
        PROVE  [Contract!Next]_(Contract!contractVars)
    <3>1. UNCHANGED <<settle, txn, why, refunded, chargedBack>>
      BY <1>0, <2>5, QuietTransactions
    <3>2. \A q \in Purchases : BooksRest(q) /\ ReturnsRest(q)
      BY <3>1, BooksSeen DEF BooksRest, ReturnsRest
    <3>3. /\ \A q \in Purchases \ {p} : ent'[q] = ent[q]
          /\ \/ ent'[p] = ent[p]
             \/ ent[p] = "NONE" /\ ent'[p] = "ACTIVE"
             \/ ent[p] = "ACTIVE" /\ ent'[p] = "TERMINATED"
      <4>1. CASE Grant(p) \/ AccessEnds(p) \/ ApplyRefundPolicy(p)
        BY <1>0, <4>1 DEF Grant, Grantable, AccessEnds, ApplyRefundPolicy, LedgerTypes
      <4>2. CASE OpenDisputeReview(p) \/ OpenLateCaptureReview(p) \/ \E c \in Creation : SetCreation(p, c)
        BY <4>2 DEF OpenDisputeReview, OpenLateCaptureReview, SetCreation
      <4>3. CASE \E k \in CaseKind, end \in BOOLEAN : ResolveCase(p, k, end)
        BY <1>0, <4>3 DEF ResolveCase, LedgerTypes
      <4> QED
        BY <2>5, <4>1, <4>2, <4>3
    <3>4. \A q \in Purchases \ {p} : AccessRests(q)
      BY <3>3, BooksSeen DEF AccessRests
    <3> QED
      BY <2>0, <2>m, <3>2, <3>3, <3>4, AccessMaps
  <2>6. ASSUME NEW p \in Purchases, NEW e \in Event, RecordReversal(p, e)
        PROVE  [Contract!Next]_(Contract!contractVars)
    BY <1>0, <1>3, <2>6, ReturnMaps
  <2>7. ASSUME NEW p \in Purchases, NEW s \in {"CAPTURED", "FAILED", "UNKNOWN"}, NEW r \in Reason, ApplyOutcome(p, s, r),
               UNCHANGED <<settle, txn, why>>
        PROVE  [Contract!Next]_(Contract!contractVars)
    BY <1>0, <2>1, <2>7, OutcomeMoves
  <2>8. ASSUME NEW h \in holds, NEW notCompleted \in BOOLEAN, ResolveHold(h, notCompleted), UNCHANGED <<settle, txn, why>>
        PROVE  [Contract!Next]_(Contract!contractVars)
    BY <1>0, <2>1, <2>8, HoldMoves
  <2>9. CASE UNCHANGED ledgerVars \/ DeclareRecovery \/ ReleaseRecovery
    BY <2>1, <2>9 DEF ledgerVars, moneyVars, DeclareRecovery, ReleaseRecovery
  <2> QED
    BY <2>0, <2>2, <2>3, <2>4, <2>5, <2>6, <2>7, <2>8, <2>9 DEF LedgerStep
<1> QED
  BY <1>1, <1>2, <1>3, LedgerOrProvider

\* The card path keeps the contract of a purchase, for every set of purchases and concurrent pages, any price and any
\* number of faults and recoveries: return page, loop, sweep, operators and recovery, each acting on what it read some
\* time ago, conclude a charge once and truly, and open access once, for settled money that has not come back.
THEOREM PurchaseContractKept == Spec => KeepsPurchaseContract
<1>1. Init => Contract!Init
  <2> SUFFICES ASSUME Init PROVE Contract!Init
    OBVIOUS
  <2>1. ASSUME NEW p \in Purchases
        PROVE  /\ StatusOf(p) = "NONE" /\ OutcomeOf(p) = "NONE" /\ PaidOf(p) = "NO" /\ GivenBack(p) = 0
               /\ Returned(p) = 0 /\ AccessOf(p) = "NONE"
    BY DEF Init, LedgerInit, StatusOf, OutcomeOf, PaidOf, GivenBack, Returned, AccessOf
  <2> QED
    BY <2>1 DEF Contract!Init
<1>2. CardInv /\ ReturnInv /\ BooksFirst /\ OpenIsUndecided /\ (CardInv /\ ReturnInv)' /\ [Next]_vars
         => [Contract!Next]_(Contract!contractVars)
  BY PurchaseStepMaps
<1> QED
  BY <1>1, <1>2, ReturnInvariance, ContractFacts, PTL DEF Spec, KeepsPurchaseContract, Contract!Spec

=============================================================================
