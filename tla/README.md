# OneGate (StayConnect Enterprise): formal models

OneGate is a hotel guest-access gateway. An appliance per hotel (the data plane)
runs the captive portal, sells or grants Internet access, follows the hotel's PMS
(property management system), charges the guest's room or card, and configures the
guest network. OneGate Central (the control plane) registers, licenses and updates
the appliances.

This directory models six parts of the appliance where a mistake costs money, access or
the network, and where several processes, a remote system and crashes meet:

1. the **room charge**: from the purchase to a posting record (`PS`) on the FIAS link and back (`PA`);
2. the **card checkout**: hosted checkout, reconciliation, grants, refunds, late captures;
3. the **restore** of the site database while money is in flight;
4. the **stay mirror**: the PMS feed, resync sweeps, the inbox and the roster reconciliation;
5. the **access of a stay**: check-out, After Check-out Access, room moves, refunds, expiry;
6. the **network change**: apply, confirm, roll back, recover after a crash.

Everything is translated from the Go code and the SQL migrations; `PROJECT.json` (`map`) gives
the lines each definition stands for.

Contents: 1 inventory, 2 hard behaviours, 3 modules, 4 runs, 5 fairness, 6 proofs,
7 what the code does not keep, 8 abstractions, 9 not modelled, 10 plan.

## 1. Inventory

Paths are relative to `src/`. "DP" is `data-plane/`.

| Component | State it keeps | Operations | Talks to | What makes it correct |
|---|---|---|---|---|
| Room-charge ledger (DP migrations 0011, 0012, 0097, 0098, 0100, 0103, 0167) | `pms_postings`, `posting_outbox`, `posting_attempts`, `posting_review_state`, `settlements`, `stay_posting_blocks`, `pms_answer_confirmations` | create, claim, attempt, settle, orphan recovery, outcome, review, requeue, confirm, block, lifecycle, decommission | every daemon, through definer functions and triggers | one transmission per authorisation; access only against a debit; the queue never wedges |
| Posting engine and lane (DP `internal/posting`, `cmd/scd/posting_worker.go`) | none between transactions: a crash forgets the lane | `RunOnce`, `settle`, `RecoverOrphanedAttempts`, `ApplySettlementOutcomes` | ledger, hand-off socket | never resends what may have been sent; every attempt is concluded |
| Hand-off socket (DP `internal/postinghandoff`) | one connection per command | `Send` | scd to pmsd | only a failed dial proves "not sent" |
| Financial relay and writer (DP `internal/pmsd/financial_relay.go`, `writer.go`) | port, pending slot, carried P#s, the link's view of reservations | `Handle`, `onPA`, `ObserveGuestRecord`, `detach`, the serial writer | socket, ledger (authoriser), link | a P# is written once; answers are matched; a stale room is stopped at the first byte; the slot never leaks |
| FIAS link adapter (DP `internal/pmsd/adapter_fias.go`) | ownership cycle, resync window, swept and unreadable rooms | `serve` | PMS, relay, worker's sink | nothing is carried inside a resync; a partial sweep is never complete |
| Resync generations (DP `internal/pmsd/worker.go`, `pg.go`, migrations 0074, 0160) | staging buffer, generations, inbox, published roster | admit, stage, flush, publish, abandon, reconcile the roster | adapter, stay engine | order of receipt is order of application; a partial or stale roster closes nobody |
| Stay engine (DP `internal/stayengine`) | `stays`, inbox claims | claim, resolve, apply GI, GC, GO | inbox, access | late and repeated events open and close no stay that did not come or leave |
| Check-out, grace, continuation (DP `internal/checkout`, `grace`, migration 0213) | `entitlements` with their history, `checkout_grace_audit` | convert at the boundary, restore on a move, expire, refund | stay engine, commerce | one package at a time; a move keeps it; a refund ends it for good |
| Manual review and operator actions (DP `cmd/edged`) | in the ledger | review actions, requeue, lifecycle, removal | ledger | decisions are given once and hold |
| Card payments (DP `internal/payment`, `cmd/scd/card_checkout.go`) | `payment_transactions`, `payment_checkouts`, settlements, purchases, reversal reviews | start checkout, reconcile, grant, record reversals, refund policy, late-capture re-query | Stripe, Paymob | money that is there is granted once; nothing paid is believed unpaid; a late capture is never lost |
| Financial recovery (DP migrations 0019, 0022, 0023, 0025, `internal/payment/recovery.go`, `cmd/edged/financial_epoch_reconcile.go`) | epochs, holds, restore generation | declare, detect, hold, conclude, release | ledger, payments, marker | no money moves on a restored ledger before its holds are concluded; recovery can always end |
| Backup and restore (DP `cmd/scd/restore.go`, `restore_financial.go`) | marker file, live, aside and staging databases, maintenance flag | stage, quiesce, advance, swap, record, roll back | all services | the original survives; old data is always recognisable |
| Network apply (DP `cmd/netd`) | revisions, five layers on the wire, three files, memory of what is in force and of a block | apply, confirm, roll back, watchdog, reclaim, reconcile, recovery and persist loops | kernel, Kea, resolver, nftables | what runs is what is confirmed; an unconfirmed change is undone, also after a crash |
| Post-stay offers, accounting and enforcement, backup ledger, sign-in, Central, portal TLS, front ends, deployment | | | | not modelled, section 9 |

### How the parts interact

* *Room charge.* A purchase with method `PMS_POSTING` inserts a QUEUED outbox row. scd's lane claims the
  head, passes the gates, allocates a P#, records the attempt as SENDING and **commits before sending**;
  dials pmsd; pmsd asks the ledger for authorisation, takes the single pending slot, remembers the P#, and
  queues the frame at the writer, whose guard looks at the link's view of the reservation at the first byte.
  scd then settles (ACKED ends the row, NOT_SENT requeues it, UNKNOWN parks it), and a second function moves
  the settlement. Two background passes repair crashes; a reviewer decides what stays UNKNOWN, and
  `CONFIRM_NOT_POSTED_RETRY` authorises exactly one more attempt.
* *Card.* `StartCheckout` commits a PENDING charge, creates the checkout at the provider and saves the answer.
  From then on the return page and scd's loop both call `Reconcile`: query the provider, apply the outcome in
  one transaction, grant in another, record reversals, apply the refund policy. Nothing orders the two callers.
* *Restore.* scd stops the dependent services, advances a marker outside the database, renames the live database
  away and the restored one in, records the restore there (which holds all rails) and starts the services again.
  edged compares marker and database when it starts. The posting lane lives in scd and is not stopped.
* *Feed.* pmsd's one goroutine per interface admits records to the inbox, LIVE or staged under the open
  generation; publishing a generation makes its rows claimable; the stay engine applies claimable rows
  oldest first; after publication the roster is reconciled against the mirror. A check-out converts the guest's
  package in the stay engine's transaction; a check-in of the same stay in another room gives it back.
* *Network.* edged stages a revision, netd applies it layer by layer under one lock, and the operator, a deadline,
  a restart or a recovery loop decides it.

## 2. What is hard here

`PROJECT.json` (`hazards`) lists these with their lines.

* **Crashes** between any two transactions, renames, layers or provider calls, and recovery code that must work
  from what is on disk.
* **Words about another process's deeds**: NOT_SENT, NOT_FOUND, "the roster does not list him". Each is acted on
  automatically, and each is believed only under conditions that several functions establish together.
* **Answers of different ages**: two callers of `Reconcile`, a late PA, a roster minutes old, a check-out with an old
  PMS time, a rollback decided before the confirmation took the lock.
* **Operators at any moment**: a review, a hold concluded, a lifecycle change, a confirmation between two steps.
* **Partial failure in the repair itself**: a rename back that fails, a layer that cannot be rolled back.
* **Progress**: heads of queues, blocks, epochs and pending changes that must not stay for ever.

## 3. Modules

| Module | Models | Notes |
|---|---|---|
| `PostingBase`, `PostingLedger` | the room-charge tables and every transaction on them | no next-state relation of its own |
| `FinancialRelay` | pmsd's relay, writer and link cycle | one action per critical section or channel operation |
| `RoomCharge` | the composition: lane, ledger, relay, PMS, feed, guests, operators | specification and properties |
| `ChargeContract` | the promise of a charge | an abstract specification `RoomCharge` implements (`KeepsContract`) |
| `RoomChargeInvariant`, `RoomChargeProofs` | inductive invariants (what was sent, the money, the contract) and proofs of the room charge | |
| `FinancialRelayProofs` | type lemmas of the relay, for both compositions | |
| `RelayAlone` | the relay against a client that repeats P#s | what `RoomCharge`, with one connection per attempt, cannot show |
| `RelayAloneProofs` | its inductive invariant and proofs | |
| `CardLedger` | the card tables, recovery epoch and holds; every transaction on them | |
| `CardCheckout` | the purchase request, two callers of `Reconcile`, the loop's passes, provider, finance | every step is one transaction or one provider call |
| `PurchaseContract` | the promise of a card purchase | an abstract specification `CardCheckout` implements (`KeepsPurchaseContract`) |
| `CardCheckoutProofs` | inductive invariants and proofs of the card checkout, the refinement included | |
| `FinancialRestore` | databases, marker, restore steps, the lane, edged, holds | a database is a record, so a restore is an assignment |
| `StayMirror` | hotel, link, sink, generations, inbox, stays, roster | |
| `StayAccess` | one stay's events, entitlements and check-out records | time in ticks, application may be late |
| `NetworkChange` | revisions, layers, files, memory of netd | every operation is a program of layer steps, each of which may fail |
| `FinancialRestoreProofs`, `StayMirrorProofs`, `StayAccessProofs`, `NetworkChangeProofs` | the inductive invariants and proofs of these four | |
| `MC...` | instances for TLC | constants and symmetry |

Operators whose comment begins "Mutant" are not part of a specification. Each is a plausible slip in one mapped
definition; putting it in place of that definition must make TLC violate the property it is listed with
in `PROJECT.json`, which shows that the property depends on the code it speaks about.

### State and actions against the code

*Room charge.* `outbox`, `att`, `settlement`, `review` are the columns of the same name; `latest` is the attempt
with the highest number; `review[p].auth` stands for `retry_authorized_attempt_no`. `BeginAttempt` is `RunOnce` up to its
commit; `AbortBeforeSend`, `ReturnToReview` and `Decline` are its other exits; the rest is one transaction each. `hs[c]` is how
far the goroutine of connection `c` is in `Handle`; `DETACHING` is the window inside `detach` in which port and view are
gone and the steady flag is still set. `onWire` is ghost state: P#s that passed the write guard. The PMS is external:
it debits (`folio`) at any time after a PS is on the wire, answers or not, and OK means a debit, a code in `NotPosted` none,
any other nothing.

*Card.* Tables are functions of the purchase (the idempotency key allows one charge per settlement). `work[w]` is a
caller's program counter with what it has read: `seen` and `aged` are the creation outcome and the clock as they were before the
query, `verdict` and `evs` what the answer said. `age` cuts time at the three instants the code compares with: grace after creation,
deadline, end of the re-query window. The provider (external) may lose the create call, capture after closing, capture another
amount, refund in parts, and report refunds one by one (Stripe) or as a total (Paymob).

*Restore.* `live`, `aside`, `staging` are whole databases (`rows` with their settlements, one `card` payment, `gen`, `recovery`, holds in the rows); `marker` is the
file. `step` is where `runRestore` is; any step may fail into `Rollback`, scd may crash, the appliance may reboot. `lane` keeps which database its claim was made in
only through what it remembers, as in the code: its settle goes to whatever is live then. Two things take two steps because a step of somebody else may come between: a
purchase passes the recovery gate (`opening`) and commits later; pmsd finds a command authorised (`cmds`, `early` when edged had not reconciled) and writes it later.

*Mirror.* `sink` is the worker's sink with the adapter's sweep state; `inbox` is the table in order of receipt, a row being `claimable`
when LIVE or when a generation at least as new as its own is published. `ins` and `outs` count what really happened in the hotel.

*Access.* `ents` is the table with the part of the state history the boundary query reads; `audit[i]` is the check-out record of episode `i`.
A queued event has the PMS's own time or none; the time may be old, ahead by no more than `FutureSkew` (trusted as it is) or further ahead (replaced by the server's clock).

*Network.* `wire` holds the configuration each layer runs; `inForce`, `blocked`, `markFile`, `snapshot`, `keaFile`, `keaSnap`, `diskErr` are netd's
memory and files of that purpose. `op` is the operation that holds the lock and its remaining steps. `missed` is history: the layers that the last operation on them passed
over without reporting a problem, and "reclaim" for an interrupted apply that was left as it is. A DHCP server that took a configuration and holds no socket for it is `Mixed`.

## 4. Runs

Ten passing runs; all constants are in the `.cfg` files.

| Run | Question | Bounds |
|---|---|---|
| `charge_lane` | Is what the ledger says about wire and folio true, and do repeated attempts and two charges on one lane stay within the authorisation? | 2 charges of one stay, 3 attempts, 1 disturbance, reviewers at any moment; answers OK and NP, whose code says as little as any other until it is confirmed |
| `charge_promise` | Does the pipeline keep its contract, is every attempt concluded, does its outcome reach the settlement? | 1 charge, 3 attempts, 1 disturbance, answers OK, NP and UR, reviewers "AtRest", fairness |
| `relay` | Does the relay hold against any client, and does no handler stick or leave the slot taken? | 3 connections, 2 P#s, unbounded link cycles and repeated PAs |
| `card_safety` | Is access opened only by money that is there, and is nothing paid believed unpaid? | 1 purchase of 2 minor units, page and loop, 1 fault, 1 recovery epoch, both report formats, finance closes any case |
| `card_progress` | Is every purchase concluded, every settled charge granted, every full refund and late capture acted on? Do request, page, loop and provider keep the contract of a purchase? | 1 purchase of 1 minor unit, page and loop, 1 fault, no recovery and no case closed (`MaxResolved = 0`: closing one changes nothing these properties wait for), fairness. The contract under recovery, finance and partial refunds is the theorem's (`PurchaseContractKept`) |
| `restore` | Is old data recognised, the original kept, nothing resent after reconciliation but what was authorised before it, and can recovery end? | 1 purchase, a room charge or a card payment (`MaxMade = 1`), 1 attempt per database, 2 restores, 1 backup, 1 fault, 1 reboot, fairness; 1,031,532 states |
| `mirror` | Are events applied in order, and do episodes match the hotel? | 2 reservations, 2 rooms, 2 happenings, 1 lost link, 1 unreadable record |
| `mirror_progress` | Does the mirror converge once the hotel rests? | the same with 1 happening, fairness |
| `stay_access` | One package at a time, refunds final, moves keep the package, no blocked stream? | 2 rooms, 3 happenings, 3 instants, PMS times trusted up to one instant ahead (`FutureSkew = 1`), fairness; 980,036 states |
| `network_change` | Does a settled appliance run what is confirmed, whatever failed? | 2 configurations, 2 revisions, any 2 failures (noticed or not), crashes or reboots, fairness; 900,158 states |

and two in which TLC finds a statement of the repository violated (section 7): `nothing_replayed`, `clean_rollback_restores`.

*Why these bounds.* A double transmission needs two attempts; a third shows that an authorisation is not used twice. A
disturbance is any of: scd or pmsd stops, the dial fails, a response is lost, the authoriser is unreachable, the link drops, a write or
the writer fails, a resync begins, a guest moves, an operator blocks, drains or retires, freshness or configuration is lost, a confirmation is
withdrawn; recovering from one, and requeueing a parked charge, is free. `MaxCarried = 1` makes the carried memory evict; in `RelayAlone` it is the number of P#s, because the
real bound (4096) cannot be used up while one handler runs. `ParkAfter = 2` makes both a deferral and a parking happen. Two minor units are
the smallest price with a partial and a full refund, and with a running total that differs from its parts; the purchases
share no row, so one is enough. Two restores let a second restore meet the remains of a first, and a restore
takes the attempt count back too, so one attempt in each database is enough for a repeat. Two rooms
and two reservations give moves, swaps and sharers; `RosterTrustMin = 1` stands for the 50 of the code, so that both a trusted and an
empty roster occur; `StageBatchSize = 2` makes a buffer flush and a remainder occur. Three instants are before, at and
after a boundary; `MaxTime` stands for every later time. Two revisions give a change on top of a confirmed one; two faults give "a failure,
then a crash in its rollback". Symmetry is used only in safety runs over interchangeable rooms, connections
and reservations. Deadlock is not checked where the bounded environment runs out; it is checked in `relay`, whose link cycles for ever.

*Conditions in properties.* `DebitedAtMostOnce`, `GrantedIsDebited` and the contract need reviewers who decide on the evidence (`Truthful`).
`charge_promise` assumes that they decide on rows the lane has finished with ("AtRest"); the code does not enforce it, see section 7.
`EpisodesAreReal` excepts two cases the code cannot tell apart: an unreadable record inside an open sweep, and a departure that names only a room
two guests share. `MirrorConverges` needs a roster large enough to be trusted. `OneActiveAtATime` excepts the times by which a trusted PMS time
led a check-out (`Lead`). `MoveKeepsPackage` needs a boundary of its own that no other check-out led, a package granted before it, and After Check-out Access that has begun.
`NoRepeatOnceReconciled` excepts a command authorised before edged reconciled, `RecoveryEnds` a purchase that straddled the start of recovery (`Straddles`). `SettledIsConfirmed` and
`ConfirmRecordsRunning` except a layer that was passed over without a word, `NetworkSettles` an interrupted apply whose reclaim failed (`missed`). Each exception is something the code
does, and section 7 says what.

## 5. Fairness

Only what the scheduling of the code gives:

* *Room charge*: weak fairness of the lane's steps once it runs (deadlines of `Send` and of transactions), of orphan
  recovery and of every handler of pmsd (5 s authorisation, write deadline, answer timer); **strong** fairness of catch-up, since
  `postingLoop` runs it after `lanes.wait()`, that is when the lane is idle, which comes and goes. Nothing is assumed of PMS, link, guests,
  operators. `HandlerCanAdvance` states progress of the relay without fairness.
* *Card*: weak fairness of the purchase request, of a caller inside `Reconcile` and of time; **strong** fairness of the loop's
  passes: every round runs all of them, but a pass can start only while the loop is between two others. Nothing of guest, provider, finance.
* *Restore*: weak fairness of the restore goroutine, edged's start-up and the lane; of the outcome of a live card payment, which the reconcile loop brings about
  (`PurchaseConcludes` of `CardCheckout`); and of an operator who concludes every hold and releases, because `RecoveryEnds` is about whether that is possible to the end.
* *Mirror*: weak fairness of pmsd's goroutine (it reconnects with backoff, sweeps at every connect and periodically), of the applier, and
  of the second record of a move the PMS has begun to send.
* *Access*: weak fairness of the applier, which retries the oldest event, of the expiry sweep and of time.
* *Network*: weak fairness of the steps of the running operation, of the loops and of systemd's restart; **strong** fairness of those that wait
  for the lock, since a Go mutex starves no waiter.

## 6. Proofs

The theorems hold for every value of the constants: any number of charges, guests, connections, purchases, revisions,
faults and restarts. Each is proved from the named `ASSUME`s of the modules (bounds are naturals, special values are not
ordinary ones, a price is at least one minor unit, connection = P# in `RoomCharge`), which TLC evaluates on every
run. Where a theorem needs more, its statement says so; there are two, on the relay's carried memory and on
`ReviewScope`, named below. Every inductive invariant was first
checked by TLC on the constants of the module's run.

### Room charge: `RoomChargeProofs`

| Theorem | Statement |
|---|---|
| `Invariance`, `TypeCorrect` | `Spec => []Inv`, `Spec => []TypeOK` |
| `NotSentSound` | `Spec => []NotSentNeverOnWire` |
| `OneTransmission` | `Spec => []OneTransmissionPerAuthorisation` |
| `MoneyInvariance` | `Spec => []MoneyInv` |
| `DebitedOnce`, `GrantedAgainstDebit` | `Spec => []DebitedAtMostOnce`, `Spec => []GrantedIsDebited` |
| `QueueNeverWedges` | `Spec => []QueuedIsSendable` |
| `RoomOnWire` | `Spec => WrittenRoomIsAnnounced` |
| `ContractKept` | `ReviewScope = "AtRest"` implies `Spec => KeepsContract` |

*What was sent.* `NotSentNeverOnWire` could be broken by a command still in the relay when
the ledger records NOT_SENT, so the invariant says more (`NotSentIsOver`): the P# is not on the wire **and** its handler is idle or
done **and** the lane is not about to hand it over. For settle to establish that, the lane must know it when it holds
NOT_TRANSMITTED (`LaneKnows`), and a handler's state must tell the truth about the wire (`HandlersKnow`). A failed dial leaves the
handler idle for good, since P#s are never reused (`AttemptsAllocated`). For the second property, `AuthorisedInTurn` extends the claim from
"on the wire" to "not NOT_SENT": an attempt begun after one that may have been sent passed the retry gate, so
the authorisation was there and this attempt consumed it; `ReviewOnce` says it is neither given nor consumed twice, and `LatestIsLast` that the
gate looked at the right attempt. Every action of pmsd is shown to be a *handler move*, handler moves keep the invariant, then one lemma per
transaction of the lane and one for the environment; `NextInv` puts them together.

*The money.* An attempt is `Spent` when nothing can put it on the wire and the PMS will not act on it any more. `RetriedAreSpent` is the heart: what precedes
an authorised retry is spent and not on the folio, and stays so, hence a second debit would need a second decision. For the
decision to be right, an answer has to be true wherever it is between PMS and ledger (`AnswersTrue`, through `pa`, the relay's
buffer, the response, the lane's hand and the attempt row). `DebitedAtMostOnce` depends on what reviewers look at, as the model states it: they
release a charge for retry only when it is not on the folio and nothing of it is under way.

*The room.* `ViewIsCurrent` relates the relay's view, the feed and the PMS while the port is offered; it is what the writer's last
comparison rests on.

*The refinement.* A posting's abstract state is computed from ledger and folio. The steps that must not move it are the ones of a charge that is closed:
`ClosedIsSpent` says that nothing of it can still reach the folio, `AckedIsDone` and `RowsOpen` that the lane does not touch it again. The
hypothesis `ReviewScope = "AtRest"` (reviewers decide only rows that no attempt is working on) is the one the run `charge_promise` uses; section 7
says what the code allows without it.

### Relay: `FinancialRelayProofs`, `RelayAloneProofs`

`FinancialRelayProofs` holds the type lemmas of the relay's actions. `RelayAloneProofs` has

| Theorem | Statement |
|---|---|
| `RelayInvariance` | `Spec => []RelayInv` |
| `AnswersAreOwn` | `Spec => []AnswerIsItsOwn` |
| `WrittenOnceInMemory` | `Spec /\ []NoEvictionDue => []WrittenOnce` |
| `EveryCommandWrittenOnce` | `MaxAttempt <= MaxCarried => (Spec => []WrittenOnce)` |
| `HandlersNeverStuck` | `Spec => []HandlerHasStep` |
| `SlotNeverLeaks` | `Spec => []SlotIsHeld` |

`Knows` says what a connection's memory is entitled to: a buffered answer is of its own P#. `CarriedOnce` says that what was written is
remembered and that what waits at the writer waits once; it is inductive as long as marking a P# evicts none. That is a real hypothesis: the code keeps
the last 4096 P#s, and an evicted one is protected only by the ledger's `SENDING` check, which scd makes anew for every attempt.

`HandlerCanAdvance` has two halves. `SlotIsHeld` is its first: the pending slot belongs to a handler that has yet to answer. It is inductive with the fact that a connection whose
answer was delivered has lost the slot (`AnsweredHasLeft`). `HandlerHasStep` is its second, with the guards of the handler's and the writer's steps written out in place of ENABLED. Two places could wait for ever: a
command handed to a writer that has ended, which is why `Handle` also selects on the writer's end (`Orphaned`), and the loop in `markCarried`
that drops old P#s until there is room. `EvictionEnds` shows that this loop ends for every order list, also one with
entries of P#s that were forgotten: there is a least number of entries after which the set has room or the list is empty.

### Card: `CardCheckoutProofs`

| Theorem | Statement |
|---|---|
| `CardInvariance`, `ReturnInvariance` | the two inductive invariants, `CardInv` and, beside it, `ReturnInv` |
| `PaidBeforeGranted` | `Spec => []GrantedIsPaid` |
| `NotFoundSound` | `Spec => []NotFoundIsUnpaid` |
| `SettlementOwned` | `Spec => []OpenSettlementIsOwned` |
| `NoLateGrant` | `Spec => NoGrantAfterFullReturn` |
| `ReversalsTrue` | `Spec => []ReversalsAreReal` |
| `PurchaseContractKept` | `Spec => KeepsPurchaseContract` |

A caller of `Reconcile` applies in one transaction what it heard in an earlier call after reading a row
in a still earlier one. `AnswersAreTrue` says what of this is left when it is used: a capture heard stays a capture; a row read
when the checkout was past its grace carries the final creation outcome, since only a finished request ages (`RequestKnows`); and NOT_FOUND, believed only
then, means that there is no checkout or nobody has its address (`NeverPaid`), which no later step changes
(`NothingTakenBack`). `LedgerIsTrue` carries the same facts over to what the outcome authority wrote. `SettlementsFollow` ties the settlement
to the charge, and money returned to a settlement that has left SETTLED, which is what `Grant` reads. `OpenSettlementIsOwned` is
not inductive because an operator may conclude a charge before its settlement: `HoldsCover` adds that the hold of a
charge never stands alone while the settlement is in progress. Every step is shown to be at most one ledger transaction
(`StepIsTransaction`), so that the ledger's own parts are proved transaction by transaction. For the money that came back, `ReportsAreReal` says that a
report a caller still holds is true of the provider however old it is, and `CountedById` that refunds reported one by one
are counted by identifier, so that a second caller with the same report adds nothing; totals are compared, not added.

*The refinement.* The abstract purchase (its status, its charge's outcome, what was paid, returned and booked, its access) is computed from settlement, charge, provider and
entitlement. Every step of a purchase request, a caller, finance, recovery or the provider is shown to be one step of the contract for one purchase or none
(`PurchaseStepMaps`), and the ledger is dealt with transaction by transaction (`ConclusionMaps`, `AccessMaps`, `ReturnMaps`). Two facts beyond `CardInv` and `ReturnInv` are needed.
`BooksFirst`: a checkout exists at the provider only for a charge that is committed, so nobody can pay what is in no book. `OpenIsUndecided`: a settlement still open
has a charge that is undecided, or failed by an operator, so nothing moves a purchase to review once its money is known; it rests on `ApplyOutcome` concluding only a PENDING
charge. Unlike the contract of the room charge this one needs no hypothesis: every operator action on a card purchase goes through a hold or a case.

### Restore: `FinancialRestoreProofs`

| Theorem | Statement |
|---|---|
| `RestoreInvariance`, `RestoreTypes` | `Spec => []RestoreInv`, `Spec => []TypeOK` |
| `RepeatDetectable` | `Spec => []RepeatIsDetectable` |
| `OriginalKept` | `Spec => []OriginalSurvives` |
| `NoRepeatReconciled` | `Spec => NoRepeatOnceReconciled` |

Only a database that was set aside or loaded from a backup may still queue a charge that was sent, and every such database is older than the marker
(`Generations`), because the marker is advanced between the loading and the first rename. A live database
reaches the marker's generation only by entering recovery, which leaves nothing sendable, also in the lane's hand (`NothingSentWaits`). `Stages`
tells which databases exist at which place of `runRestore`, so that no failing rename can lose the original. `NoRepeatReconciled` needs what pmsd holds as well (`Handed`): commands exist only while
pmsd runs on the live database, at most one for a charge, of an attempt whose row cannot go out again; and a command found authorised after edged had reconciled is of a charge not sent before.

### Stays: `StayMirrorProofs`, `StayAccessProofs`

| Theorem | Statement |
|---|---|
| `MirrorInvariance`, `MirrorTypes` | `Spec => []MirrorInv`, `Spec => []TypeOK` |
| `EventsInOrder` | `Spec => []AppliedInOrder` |
| `EpisodeInvariance` | `Spec => [](MirrorInv /\ EpisodeInv)` |
| `EpisodesReal` | `Spec => []EpisodesAreReal` |
| `AccessInvariance`, `AccessTypes` | `Spec => []AccessInv`, `Spec => []TypeOK` |
| `OneActive` | `Spec => []OneActiveAtATime` |
| `RefundsHold` | `Spec => []RefundedStaysEnded` |
| `MovesKeepPackage` | `Spec => MoveKeepsPackage` |

`Good` is the LIVE barrier: pmsd, synced and outside a window, has nothing staged, so that a LIVE row never overtakes a staged one. A sweep feeds any
number of records through `ReadOne`; that it keeps `Good` is an induction over the records.

`EpisodesAreReal` speaks of the mirror as it is, but what breaks it is a row admitted long before it is applied. So the invariant foresees: `Foreseen` has the mirrors that the waiting
rows (the inbox, then the staging buffer) will make one after the other, each of them `Allowed`, that is without more arrivals or departures than there were; and the last of them is `Right` about
every guest it holds for present. It has his room where pmsd is synced outside a window; a published roster lists him; and in a window either his room is yet to be swept or he is listed and in his
room. A departure is then harmless when it is sent (`GoneFollows`) because the last mirror does not hold its guest for present in that room any more, the owed half of a move included (`OwesOut`), and the
check-outs a roster adds (`ClosesAll`) because whoever it leaves out is not held for present. A lost link cuts the foreseen mirrors short (`ForeseenCut`), publishing leaves them as they are, the engine
takes the first of them (`ForeseenApplied`).

In `StayAccess` a row that has ended keeps its time for good and a new package begins now and ends every other live row, so packages follow each other in time; where one was
ended ahead of the clock, the record of the check-out that did so was there when the next one began (`InTurn`, `Owed`), which is what `Lead` excepts. At most one row is live (`OneLive`), nothing
is dated further ahead than `FutureSkew` (`Past`), and there is one record per check-out (`Shapes`). `RefundedStaysEnded` follows a
chain of continuations of any length down to the package that was paid for, by induction over row numbers. `Checkouts` adds what a check-out's record
says of the package it converted, which is what the move's second half looks for.

### Network: `NetworkChangeProofs`

| Theorem | Statement |
|---|---|
| `NetworkInvariance` | `Spec => []NetInv` |
| `RejectedNotRendered` | `Spec => []RejectedIsNotRendered` |
| `WireInvariance` | `Spec => [](NetInv /\ WireInv)` |
| `SettledRunsConfirmed` | `Spec => []SettledIsConfirmed` |
| `ConfirmsWhatRuns` | `Spec => ConfirmRecordsRunning` |
| `RollbackRestores` | `Spec => CleanRollbackReaches`, what is left of the sentence section 7 refutes |

`NetInv` says for each operation which revision it works for, where it is going and what it leaves in force. `WireInv` says that the layers it has behind it hold its target or were passed
over without a word (`Progress`, by `Has` and `HasDhcp`: the DHCP server counts together with the file it starts from), that a factory-clean taken by mistake has passed over all of them, and that a
pending revision in force runs on every layer not passed over (`PendingRuns`). Neither needs a hypothesis about reads: a read that fails unnoticed puts its layer into `missed`, and only bringing the
layer to the confirmed configuration, or a new apply, takes it out. `CleanRollbackReaches` is the strongest statement of a clean rollback that the code keeps: it has restored every layer that is not in `missed`.

### Only model-checked

All progress properties (liveness), `HandlerCanAdvance` in its own form (it speaks of ENABLED; `HandlersNeverStuck` and `SlotNeverLeaks` prove its two halves), and the two runs that expect a violation.
Every other property of a passing run is a theorem, under a hypothesis where one is named above.

## 7. What the code does not keep

Two statements of the repository are checked as such, and TLC's counterexample is a behaviour of the code. `PROJECT.json`
(`findings`) quotes the lines.

| Run | Said | Done |
|---|---|---|
| `nothing_replayed` | a crash mid-restore "still leaves the next start holding money movement"; "Nothing is replayed automatically"; reconciliation "must run before any financial worker starts" | only edged compares marker and database; scd's lane starts by itself, so a reboot between the swap and the record of the restore lets it resend a charge that is QUEUED in the backup and was posted since |
| `clean_rollback_restores` | of a rollback, "an empty result means the appliance is back on the previous configuration" | the error of reading the target is discarded, so one failed read is taken for "nothing was ever confirmed": the guest bridges are destroyed and the rollback is recorded as complete. Bundle files that cannot be read (`apply_ops.go:697`, `720`, `734`) are passed over in the same silence, and a DHCP configuration that Kea accepted counts as restored although no socket is looked for, as an apply does (`139`). A DHCP bootstrap is undone only if its snapshot has survived, which a confirmation clears |

Further differences met while modelling. Counterexamples of the first seven were produced with earlier versions of these models.

*Room charge*
* "will not be retried. The posting is final" (`resources_phase4_review.go:31`): abandoning is admitted for a charge QUEUED again
  after NOT_SENT; it fails the settlement and leaves the row, which the lane then sends.
* "a crash before this is repaired by ApplySettlementOutcomes" (`engine.go:396`): catch-up selects settlements IN_PROGRESS; an acknowledged
  retry is in MANUAL_REVIEW and stays unsettled.
* "goes back to manual review instead" (`engine.go:282`): after a retry the terminal action is set and every further one is refused.
* "a DRAINING interface must still drain" (`gate.go:15`): the command authorisation requires ACTIVE.
* the block lasts "until the manual-review decision on that charge": a late outcome of a charge already failed places it anew.
* "a room move stops a stale posting command at the writer" (`adapter_fias.go:440`): `detach` deletes the view before it clears the steady flag.
* a P# handed to a writer "is never answered "not sent"" (`financial_relay.go:250`): a repeated command that passed the check before the mark is; scd sends each
  P# once, so the ledger is not affected.
* `markCarried` trims its order list only while the set is full; P#s forgotten after a refusal leave their entry behind.

*Card and recovery*
* the loop "grants captured ones that were never granted (crash recovery)": not when a hold moved the settlement to
  MANUAL_REVIEW, or a partial refund was recorded, before the grant.
* quiescing reports that every service that can write financial state is stopped; scd's own loops are not.
* a settle whose row was held meanwhile is refused by the recovery gate and is left to orphan recovery.
* the holds do not reach a command that pmsd has found authorised (`financial_relay.go:258`) and not yet written (`:299`): edged can reconcile and hold the rail in between, and a restored charge
  is written again afterwards. `NoRepeatOnceReconciled` says that this is the only way once edged has reconciled.
* a room charge whose insert passed the recovery gate (`0019:229`) before recovery was declared, and whose transaction commits after the holds were taken, is QUEUED without a hold and cannot be claimed; the
  release refuses it as unaccounted work (`0025:336`) and nothing can hold or conclude it, so that recovery cannot be ended until a restore, or a disagreement of marker and database, holds the rail again (a second declaration returns early, `0022:229`). `RecoveryEnds` excepts it
  (`Straddles`). A card payment in the same position is concluded by the reconcile loop.

*Mirror and access*
* rows staged by an abandoned generation become claimable when a later one is published (`pg.go:110`); order is still that of receipt.
* a departure that names only a room closes the mirrored sharer when the other is not mirrored; one between DR and DS is skipped.
* with `RosterTrustMin` 50, departures lost on a small hotel's link are never closed by a sweep.
* a package granted after the PMS time of a check-out that is applied late ends with reason CHECKOUT, so the move restores nothing; two quick moves
  applied late lose the continuation, since a boundary is looked up by its time.
* the grant does not look at the stay's status. A second check-out that meets the live grace of the first fails and holds up its interface until that grace expires.
* a check-out time up to five minutes ahead is trusted (`checkout.go:51`, `361`). The package it converts ends in the future. With After Check-out Access switched off, a room move within the lead gives the guest a continuation beside
  it, and another check-out dated there meets MULTIPLE_ACTIVE_AT_BOUNDARY, which returns before devices and sessions are revoked. With it switched on, the grace begins in the future,
  `apply_entitlement_transition` refuses to end it earlier than it began (`0010:549`), so that the room move restores nothing (a warning is logged, `pg.go:244`) and the grant of a purchase fails, until the lead has passed.
  Outside such leads two packages are never active at once (`OneActiveAtATime`). Today the times come from the appliance itself: FIAS records carry none (`adapter_fias.go:543`) and roster check-outs the receipt of
  the sweep's last record (`0160:63`), so it takes a feed with PMS times, or a clock that is set back, to meet it.
* "before the stay's own last applied event, is clamped up to that floor" (`checkout.go:368`, and a test of that name in `boundary_floor_integration_test.go:52`): the query asks for `sequence_version < $5` (`:396`), and
  every row that pmsd and the roster write has version 0 (`worker.go:495`, `0160:192`), so that this floor never applies.

*Network*
* "the watchdog can reclaim an apply that died mid-flight" (`apply.go:308`): the watchdog looks at pending revisions only. An interrupted apply is reclaimed at the start and while a block is in force; it stays `applying`, holding
  the in-flight slot with no block left, when the reclaim cannot list it, when its rollback is refused or cannot be recorded and the reconcile right after lifts the block, or when a
  reassertion from the console lifts the block without a reclaim. The appliance runs the confirmed configuration meanwhile (`SettledIsConfirmed`, `RejectedIsNotRendered`), but refuses every further change until netd restarts
  (`NetworkSettles` excepts it).
* `blockedRecoveryLoop` reads the applying revisions without the lock; one that has become pending since may be rolled back as interrupted.
* a rollback or reconcile that cannot read a file of its target's bundle passes that layer over without a problem; a rollback does not look whether Kea holds a socket. `SettledIsConfirmed` holds for the layers that were not passed over.
* a rollback whose netplan step failed is unblocked by a reconcile that does not rewrite netplan, the file bridges are rebuilt from at the next boot.
* `factoryClean` leaves the firewall structure and does not restart the resolver; `bootstrapKeaIfStopped` writes an unconfirmed configuration to Kea's file.

## 8. Abstractions

* Amounts are whole units of one price; currencies, hashes, frame formats and rendering are left out: no property is about them. Freshness and configuration checks
  of the gates are one Boolean each.
* Deadlines, tickers and backoff are interleaving, except where a comparison of times decides (card `age`, access `now`, `overdue`).
* The write guard and the write are one step (both run on the writer goroutine); a write that fails after its first byte is a step of its own.
* A graceful stop answers nothing, which is the harder case for the peer.
* The lane is the only claimer of an interface, so SKIP LOCKED never skips.
* In `FinancialRestore` the lane is reduced to claim, hand-off, settle, orphan recovery and settlement outcome; `RoomCharge` has the rest. The hand-off and pmsd's check are one step: the dial alone changes nothing. One card payment
  stands for the card rail, its statuses reduced to what holds and release tell apart; `CardCheckout` has the rest. A restart of edged alone on a database that agrees with the marker changes nothing and is left out.
* In `CardCheckout` a charge's account and adapter can be resolved: where they cannot, `queryAndApply` returns before its deadline branch (`checkout.go:350-357`) and the charge stays PENDING until the account is back, which
  `PurchaseConcludes` does not cover. The late-capture re-query is modelled as switched on; `STAYCONNECT_PHASE4_PAYMENT_RECHECK` is off by default, and then `LateCaptureIsReviewed` promises nothing.
* In `StayMirror` the PMS's records are received as they are sent or lost with the link; records equal in every field are not told apart. The inbox takes every LIVE record: one that is identical to an earlier one byte
  for byte is dropped by the code (`pg.go:309-347`, `worker.go:417-423`), and an engine that meets it would change nothing. A departure that names only a room is not refused for being older than the room's present guest
  (GO_STALE_ROOM_DEPARTURE, `stayengine/pg.go:174-191`), so the model allows more departures than the code.
* In `StayAccess` an entitlement is live or ended. `restore_room_move_access` has two more refusals, UNSUPPORTED and DATA_USED_UP (`0213:252`, `269`), and its savepoint may fail for reasons outside the model (`pg.go:233-249`); all leave
  the access as it is, and `MoveKeepsPackage` speaks of moves without them. The emergency catalogue is taken to be there (`checkout.go:247-251`); without it a check-out stays pending.
* In `NetworkChange` a configuration is a model value and a layer holds one, none or a mixture. A reconcile has no rebind restart: once failures cease, Kea is taken to bind its sockets on the configuration it is given. The console's
  reassertion is not run at the same time as the recovery loop's reconcile. A layer counts as restored by what runs; the netplan file, which matters at the next reboot, is not among the layers `SettledIsConfirmed` speaks of.
* HTTP handling, permissions and listings are presentation.

## 9. Not modelled

* Room charge: onboarding, flags and dark mode, `AUTH_DISABLED` (behaves like ACTIVE for room charges).
* Card: settlement reports, account administration, the providers' wire formats.
* Restore: keys, erasure ledger, retention and schema steps on the staging database (one step that may fail), the safety backup, a change of the cluster's
  system identity, the compliance archive.
* Mirror: the financial resync gate, the REST adapter, the supervisor's ownership lock, RESERVED and POST_STAY, sharer lists, occupancy evidence, dry-run reconciliation.
* Access: devices, sessions, data quotas, SUSPENDED and PENDING, the emergency catalogue, corrections (GC).
* Network: validation rules, the portal address, bundle existence, ambiguous commits, a crash of Kea itself, bridge ownership, drift caused from outside,
  the system-network manager, shaping.
* Post-stay offers; accounting and enforcement (usage, plans, leases); the backup ledger's assessment; sign-in (OTP, throttle, attempts); Central (activation,
  assignment, licensing, portal TLS): state machines of their own, independent of the parts above, and next in the plan.
* Front ends, deployment, scripts, governance: no state beyond what the daemons keep.

## 10. Plan

1. **Enforcement and outage leases**, **OTP and throttle**, **the backup ledger's assessment**. Three questions from reading netd that the first of these should put to TLC:
   does "kernel expiry <= boundary" (`phase3_lease.go:37`) hold late in a long pass, whose lease length is computed from the start of the pass (`phase3_provision.go:60`) and
   shortened by the elapsed time in `renewAgain` only (`phase3_churn.go:228`); is "it returns only once the attempt and its deadline are fsynced" (`phase3_journal.go:337`) kept
   by the early return for an attempt already begun in memory (`phase3_journal.go:366`) when its last save failed; and is "nft still denies" (`phase3_provision.go:7`) true when a class
   is prepared again after a crash while its lease is in force.
2. **Central**: assignment versions, two-phase retirement, licence anti-rollback, certificate orders.
