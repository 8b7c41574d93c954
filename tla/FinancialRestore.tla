-------------------------- MODULE FinancialRestore --------------------------
(***************************************************************************)
(* Restoring the site database while money is in flight.  scd replaces the *)
(* live database by a backup (rename aside, rename in), and three guards   *)
(* keep a charge of the backup from being sent a second time: the restore  *)
(* marker, a generation counter outside the database that is advanced      *)
(* before the swap; the record of the restore in the restored database,    *)
(* which enters financial recovery and holds the posting rail; and edged,  *)
(* which compares marker and database when it starts.                      *)
(*                                                                         *)
(* A database is its outbox rows with their settlements, one card payment, *)
(* its restore generation and its recovery epoch.  The posting lane is     *)
(* reduced to what a restore can disturb: claim, hand-off, settle, orphan  *)
(* recovery (PostingLedger has the rest).  A purchase is two steps, the    *)
(* insert that passes the recovery gate and the commit; so is a command in *)
(* pmsd, the check against the database and the write.  A crash may come   *)
(* between any two steps.                                                  *)
(***************************************************************************)
EXTENDS Integers, FiniteSets

CONSTANTS Items,       \* room charges
          MaxMade,     \* bound: purchases
          MaxTries,    \* bound: attempts of one charge
          MaxRestores, \* bound: generations the marker may reach
          MaxBackups,  \* bound: backups taken
          MaxFaults,   \* bound: failing restore steps, failing answers, scd crashes
          MaxReboots   \* bound: reboots of the appliance

ASSUME RestoreBounds ==
    /\ MaxMade \in Nat /\ MaxTries \in Nat /\ MaxRestores \in Nat
    /\ MaxBackups \in Nat /\ MaxFaults \in Nat /\ MaxReboots \in Nat
    /\ "card" \notin Items

VARIABLES live,    \* the database under the live name, or NoDb
          aside,   \* the one kept as ..._before_..., or NoDb
          staging, \* the one the backup was loaded into, or NoDb
          backups, \* verified backups
          marker,  \* restore_generation in /etc/stayconnect
          step,    \* where runRestore is
          next,    \* its nextGen
          maint,   \* the maintenance flag in /run
          edged,   \* down, starting (not yet reconciled), up
          pmsd,    \* portald, pmsd and acctd: stopped and started together
          opening, \* purchases past the recovery gate, not yet committed
          lane,    \* the attempt scd's posting lane is in
          cmds,    \* commands pmsd found authorised and has not written yet
          made,    \* purchases ever committed
          sent,    \* postings the PMS received for each charge
          faults, reboots

dbVars == <<live, aside, staging>>
restoreVars == <<step, next, maint>>
boundVars == <<faults, reboots>>
vars == <<dbVars, backups, marker, restoreVars, edged, pmsd, opening, lane, cmds, made, sent, boundVars>>

NoDb == [none |-> TRUE]

\* A settlement, or the card payment: live (IN_PROGRESS; CREATED, PENDING) or unresolved
\* (MANUAL_REVIEW; UNKNOWN) without a hold of the current epoch, held by an open one,
\* unresolved with its hold concluded, or nothing that recovery would hold.
Work == {"over", "live", "unresolved", "held", "concluded"}

Row == [st: {"NONE", "QUEUED", "IN_FLIGHT", "HELD_RECOVERY", "DONE"},
        out: {"NONE", "SENDING", "NOT_SENT", "ACKED", "UNKNOWN"},
        n: 0 .. MaxTries,
        auth: BOOLEAN,
        hold: {"none", "open", "CONFIRMED_COMPLETED", "CONFIRMED_NOT_COMPLETED", "ABANDONED"},
        settle: Work]
NoRow == [st |-> "NONE", out |-> "NONE", n |-> 0, auth |-> FALSE, hold |-> "none", settle |-> "over"]
NewRow == [NoRow EXCEPT !.st = "QUEUED", !.settle = "live"]
\* held: the charges that have a hold of the current epoch.
Database == [rows: [Items -> Row], gen: 0 .. MaxRestores, recovery: BOOLEAN, held: SUBSET Items,
             card: Work]

Step == {"idle", "staged", "quiesced", "marked", "aside", "swapped", "verified", "recorded"}
NoLane == [i |-> "none", n |-> 0, res |-> "none"]
Lane == [i: Items, n: 1 .. MaxTries, res: {"begun", "handed", "ACKED", "UNKNOWN", "NOT_SENT"}]
        \cup {NoLane}
\* early: found authorised while edged had not reconciled marker and database.
Command == [i: Items, n: 1 .. MaxTries, early: BOOLEAN]
Card == "card"

\* Types; what the lane remembers and what the three databases hold stay within the bounds.
TypeOK ==
    /\ live \in Database \cup {NoDb}
    /\ aside \in Database \cup {NoDb}
    /\ staging \in Database \cup {NoDb}
    /\ backups \subseteq Database
    /\ marker \in 0 .. MaxRestores
    /\ step \in Step
    /\ next \in 0 .. MaxRestores + 1
    /\ maint \in BOOLEAN
    /\ edged \in {"down", "starting", "up"}
    /\ pmsd \in {"down", "up"}
    /\ opening \subseteq Items \cup {Card}
    /\ lane \in Lane
    /\ cmds \subseteq Command
    /\ made \subseteq Items \cup {Card}
    /\ sent \in [Items -> Nat]
    /\ faults \in 0 .. MaxFaults
    /\ reboots \in 0 .. MaxReboots

Init ==
    /\ live = [rows |-> [i \in Items |-> NoRow], gen |-> 0, recovery |-> FALSE, held |-> {},
               card |-> "over"]
    /\ aside = NoDb
    /\ staging = NoDb
    /\ backups = {}
    /\ marker = 0
    /\ step = "idle"
    /\ next = 0
    /\ maint = FALSE
    /\ edged = "up"
    /\ pmsd = "up"
    /\ opening = {}
    /\ lane = NoLane
    /\ cmds = {}
    /\ made = {}
    /\ sent = [i \in Items |-> 0]
    /\ faults = 0
    /\ reboots = 0

Fault == faults < MaxFaults /\ faults' = faults + 1

-----------------------------------------------------------------------------
(* The posting rail *)

Present == live # NoDb
SetRow(i, r) == live' = [live EXCEPT !.rows[i] = r]

\* A guest buys: the insert passes the gate that refuses new financial work during
\* recovery.  One card payment stands for the rail.
BeginCreate(w) ==
    /\ Present /\ pmsd = "up"
    /\ w \notin made \cup opening
    /\ Cardinality(made \cup opening) < MaxMade
    /\ ~live.recovery
    /\ opening' = opening \cup {w}
    /\ UNCHANGED <<dbVars, backups, marker, restoreVars, edged, pmsd, lane, cmds, made, sent, boundVars>>

\* The commit: nothing looks at the recovery state again.
CommitCharge(i) ==
    /\ Present /\ i \in opening
    /\ opening' = opening \ {i}
    /\ made' = made \cup {i}
    /\ SetRow(i, NewRow)
    /\ UNCHANGED <<aside, staging, backups, marker, restoreVars, edged, pmsd, lane, cmds, sent, boundVars>>

CommitCard ==
    /\ Present /\ Card \in opening
    /\ opening' = opening \ {Card}
    /\ made' = made \cup {Card}
    /\ live' = [live EXCEPT !.card = "live"]
    /\ UNCHANGED <<aside, staging, backups, marker, restoreVars, edged, pmsd, lane, cmds, sent, boundVars>>

\* A payment outcome is recorded in recovery too: the gate has no UPDATE trigger.
CardOutcome ==
    /\ Present
    /\ \/ live.card = "live" /\ live' = [live EXCEPT !.card = "unresolved"]
       \/ live.card \in {"live", "unresolved", "concluded"} /\ live' = [live EXCEPT !.card = "over"]
    /\ UNCHANGED <<aside, staging, backups, marker, restoreVars, edged, pmsd, opening, lane, cmds, made, sent, boundVars>>

\* RunOnce's first transaction: claim, attempt row, authorization consumed.
Claim(i) ==
    /\ Present /\ lane = NoLane
    /\ ~live.recovery
    /\ \A j \in Items : live.rows[j].st # "IN_FLIGHT"
    /\ LET r == live.rows[i] IN
       /\ r.st = "QUEUED"
       /\ r.out \in {"NONE", "NOT_SENT"} \/ r.auth
       /\ r.n < MaxTries
       /\ SetRow(i, [r EXCEPT !.st = "IN_FLIGHT", !.out = "SENDING", !.n = @ + 1, !.auth = FALSE])
       /\ lane' = [i |-> i, n |-> r.n + 1, res |-> "begun"]
    /\ UNCHANGED <<aside, staging, backups, marker, restoreVars, edged, pmsd, opening, cmds, made, sent, boundVars>>

\* The lane's attempt as the live database has it.
AttemptIsLive ==
    /\ Present /\ lane # NoLane
    /\ live.rows[lane.i].n = lane.n
    /\ live.rows[lane.i].out = "SENDING"

\* pmsd asks the live database: is the attempt in flight?
Authorised == AttemptIsLive /\ live.rows[lane.i].st = "IN_FLIGHT"

\* The lane hands the command over and pmsd finds it authorised.
Authorise ==
    /\ lane # NoLane /\ lane.res = "begun"
    /\ pmsd = "up" /\ Authorised
    /\ cmds' = cmds \cup {[i |-> lane.i, n |-> lane.n, early |-> edged # "up"]}
    /\ lane' = [lane EXCEPT !.res = "handed"]
    /\ UNCHANGED <<dbVars, backups, marker, restoreVars, edged, pmsd, opening, made, sent, boundVars>>

\* pmsd cannot be dialled or refuses the command: provably not transmitted.
NotTransmitted ==
    /\ lane # NoLane /\ lane.res = "begun"
    /\ pmsd = "down" \/ ~Authorised
    /\ lane' = [lane EXCEPT !.res = "NOT_SENT"]
    /\ UNCHANGED <<dbVars, backups, marker, restoreVars, edged, pmsd, opening, cmds, made, sent, boundVars>>

\* The lane's attempt is the one command c carries, and it waits for the answer.
Awaits(c) == lane.res = "handed" /\ lane.i = c.i /\ lane.n = c.n
Answer(c, res) == lane' = IF Awaits(c) THEN [lane EXCEPT !.res = res] ELSE lane

\* The write, which does not look at the database again, and the answer; a write that
\* broke off or an answer that did not come is UNKNOWN.
Write(c) ==
    /\ cmds' = cmds \ {c}
    /\ \/ /\ sent' = [sent EXCEPT ![c.i] = @ + 1]
          /\ Answer(c, "ACKED") /\ UNCHANGED faults
       \/ /\ sent' \in {sent, [sent EXCEPT ![c.i] = @ + 1]}
          /\ Answer(c, "UNKNOWN") /\ Fault
    /\ UNCHANGED <<dbVars, backups, marker, restoreVars, edged, pmsd, opening, made, reboots>>

\* No link, a resync, a busy slot or the guard before the first byte.
WriteRefused(c) ==
    /\ cmds' = cmds \ {c}
    /\ Answer(c, "NOT_SENT")
    /\ UNCHANGED <<dbVars, backups, marker, restoreVars, edged, pmsd, opening, made, sent, boundVars>>

\* pmsd went away with the command, or the answer did not arrive in time.
LostAnswer ==
    /\ lane # NoLane /\ lane.res = "handed"
    /\ IF \E c \in cmds : Awaits(c) THEN Fault ELSE UNCHANGED faults
    /\ lane' = [lane EXCEPT !.res = "UNKNOWN"]
    /\ UNCHANGED <<dbVars, backups, marker, restoreVars, edged, pmsd, opening, cmds, made, sent, reboots>>

\* Mutant of SettledState: a command that was not sent fails its row.
SettledStateFails(st, res) ==
    CASE res = "ACKED" -> "DONE"
      [] res = "UNKNOWN" -> "HELD_RECOVERY"
      [] res = "NOT_SENT" -> "FAILED"

\* What settle leaves in a row that may have been held or concluded meanwhile.
SettledState(st, res) ==
    CASE res = "ACKED" -> "DONE"
      [] res = "UNKNOWN" -> "HELD_RECOVERY"
      [] res = "NOT_SENT" -> IF st \in {"IN_FLIGHT", "QUEUED"} THEN "QUEUED" ELSE st

\* The recovery gate refuses a held row to an ordinary update, and with it the whole
\* transaction; the event of an attempt this database does not have is refused too.
SettleAdmitted ==
    /\ AttemptIsLive
    /\ ~(live.rows[lane.i].st = "HELD_RECOVERY" /\ lane.res = "ACKED")

Settle ==
    /\ lane # NoLane /\ lane.res \notin {"begun", "handed"}
    /\ IF SettleAdmitted
       THEN LET r == live.rows[lane.i] IN
            SetRow(lane.i, [r EXCEPT !.st = SettledState(r.st, lane.res), !.out = lane.res])
       ELSE UNCHANGED live
    /\ lane' = NoLane
    /\ UNCHANGED <<aside, staging, backups, marker, restoreVars, edged, pmsd, opening, cmds, made, sent, boundVars>>

\* RecoverOrphanedAttempts: never while the lane is mid-posting.
RecoverOrphan(i) ==
    /\ Present /\ lane = NoLane
    /\ live.rows[i].st = "IN_FLIGHT" /\ live.rows[i].out = "SENDING"
    /\ SetRow(i, [live.rows[i] EXCEPT !.st = "HELD_RECOVERY", !.out = "UNKNOWN"])
    /\ UNCHANGED <<aside, staging, backups, marker, restoreVars, edged, pmsd, opening, lane, cmds, made, sent, boundVars>>

\* p4_posting_settlement_outcome, after settle or from ApplySettlementOutcomes: a separate
\* transaction, and no lane is mid-posting.
ApplyOutcome(i) ==
    /\ Present /\ lane = NoLane
    /\ LET r == live.rows[i] IN
       \/ /\ r.settle \in {"live", "unresolved", "concluded"} /\ r.out = "ACKED"
          /\ SetRow(i, [r EXCEPT !.settle = "over"])
       \/ /\ r.settle = "live" /\ r.out = "UNKNOWN"
          /\ SetRow(i, [r EXCEPT !.settle = "unresolved"])
    /\ UNCHANGED <<aside, staging, backups, marker, restoreVars, edged, pmsd, opening, lane, cmds, made, sent, boundVars>>

-----------------------------------------------------------------------------
(* Financial recovery *)

\* A hold of this epoch on a settlement or payment: one that is there stays as it is.
Hold(w) == IF w \in {"live", "unresolved"} THEN "held" ELSE w

\* Mutant of HoldRails: the work is copied into the holds and stays claimable.
HoldRailsCopies(d) ==
    LET caught == {i \in Items : d.rows[i].st \in {"QUEUED", "IN_FLIGHT"}} IN
    [d EXCEPT !.rows = [i \in Items |->
                          IF i \in caught \ d.held THEN [d.rows[i] EXCEPT !.hold = "open"]
                          ELSE d.rows[i]],
              !.held = @ \cup caught]

\* p4_hold_financial_rails: queued and in-flight rows stop being sendable, and those
\* without a hold of this epoch get one (ON CONFLICT DO NOTHING); settlements and payments
\* that are not over get one and keep their status.
HoldRails(d) ==
    LET caught == {i \in Items : d.rows[i].st \in {"QUEUED", "IN_FLIGHT"}}
        posting(i) == IF i \in caught
                      THEN [d.rows[i] EXCEPT !.st = "HELD_RECOVERY",
                                             !.hold = IF i \in d.held THEN @ ELSE "open"]
                      ELSE d.rows[i]
    IN  [d EXCEPT !.rows = [i \in Items |->
                              [posting(i) EXCEPT !.settle = Hold(@)]],
                  !.held = @ \cup caught,
                  !.card = Hold(@)]

\* A new epoch has no holds yet.
Unhold(w) == IF w = "concluded" THEN "unresolved" ELSE w
NewEpoch(d) ==
    [d EXCEPT !.recovery = TRUE, !.held = {}, !.card = Unhold(@),
              !.rows = [i \in Items |-> [d.rows[i] EXCEPT !.settle = Unhold(@)]]]

\* Recovery is entered, or continued: a database that is already in recovery opens no
\* second epoch and keeps its holds.
EnterRecovery(d, gen) ==
    LET e == IF d.recovery THEN d ELSE NewEpoch(d) IN HoldRails([e EXCEPT !.gen = gen])

\* Mutant of Reconciled: only a marker behind the database is a disagreement.
ReconciledBehindOnly(d, m) ==
    IF m >= d.gen THEN d ELSE EnterRecovery(d, d.gen)

\* p4_reconcile_financial_epoch_v2 on one cluster: marker and database must agree.
Reconciled(d, m) ==
    IF m = d.gen THEN d ELSE EnterRecovery(d, IF m > d.gen THEN m ELSE d.gen)

\* edged starts: it reads the marker and reconciles before it serves.
EdgedReconcile ==
    /\ edged = "starting" /\ Present
    /\ live' = Reconciled(live, marker)
    /\ edged' = "up"
    /\ UNCHANGED <<aside, staging, backups, marker, restoreVars, pmsd, opening, lane, cmds, made, sent, boundVars>>

\* An operator declares recovery without a restore.
Declare ==
    /\ Present /\ edged = "up" /\ ~live.recovery /\ Fault
    /\ live' = EnterRecovery(live, live.gen)
    /\ UNCHANGED <<aside, staging, backups, marker, restoreVars, edged, pmsd, opening, lane, cmds, made, sent, reboots>>

\* A conclusion that agrees with the folio at the moment it is recorded.
TrueOfFolio(i, resolution) ==
    /\ resolution = "CONFIRMED_COMPLETED" => sent[i] > 0
    /\ resolution = "CONFIRMED_NOT_COMPLETED" => sent[i] = 0

ResolveHold(i, resolution) ==
    /\ Present /\ edged = "up"
    /\ live.rows[i].hold = "open"
    /\ TrueOfFolio(i, resolution)
    /\ LET r == live.rows[i]
           ends == r.st = "HELD_RECOVERY" /\ resolution # "CONFIRMED_NOT_COMPLETED"
       IN  SetRow(i, [r EXCEPT !.hold = resolution, !.st = IF ends THEN "DONE" ELSE @])
    /\ UNCHANGED <<aside, staging, backups, marker, restoreVars, edged, pmsd, opening, lane, cmds, made, sent, boundVars>>

\* The holds on a settlement and on the card payment: a conclusion leaves them unresolved
\* for the audited review; one that was over meanwhile, or a payment confirmed not to have
\* happened, is over.
ResolveSettlementHold(i) ==
    /\ Present /\ edged = "up"
    /\ live.rows[i].settle = "held"
    /\ \E w \in {"concluded", "over"} : SetRow(i, [live.rows[i] EXCEPT !.settle = w])
    /\ UNCHANGED <<aside, staging, backups, marker, restoreVars, edged, pmsd, opening, lane, cmds, made, sent, boundVars>>

ResolveCardHold ==
    /\ Present /\ edged = "up"
    /\ live.card = "held"
    /\ \E w \in {"concluded", "over"} : live' = [live EXCEPT !.card = w]
    /\ UNCHANGED <<aside, staging, backups, marker, restoreVars, edged, pmsd, opening, lane, cmds, made, sent, boundVars>>

\* p4_authorize_zero_attempt_retry, by an operator who looks at the folio again.
AuthoriseRetry(i) ==
    /\ Present /\ edged = "up"
    /\ LET r == live.rows[i] IN
       /\ r.st = "HELD_RECOVERY" /\ r.out = "NONE"
       /\ r.hold = "CONFIRMED_NOT_COMPLETED"
       /\ sent[i] = 0
       /\ SetRow(i, [r EXCEPT !.st = "QUEUED", !.auth = TRUE])
    /\ UNCHANGED <<aside, staging, backups, marker, restoreVars, edged, pmsd, opening, lane, cmds, made, sent, boundVars>>

Unaccounted(r) == r.st \in {"QUEUED", "IN_FLIGHT"} /\ ~r.auth

\* Mutant of Releasable: an authorised retry counts as unaccounted work.
ReleasableNothingQueued(d) ==
    /\ d.recovery
    /\ d.card \notin {"held", "live"}
    /\ \A i \in Items : LET r == d.rows[i] IN
          /\ r.hold # "open" /\ r.settle \notin {"held", "live"}
          /\ r.st \notin {"QUEUED", "IN_FLIGHT"}

\* p4_release_financial_recovery's refusals: an open hold of any kind, work still sendable
\* that nobody authorised, a live payment, a settlement in progress.
Releasable(d) ==
    /\ d.recovery
    /\ d.card \notin {"held", "live"}
    /\ \A i \in Items : LET r == d.rows[i] IN
          /\ r.hold # "open" /\ r.settle \notin {"held", "live"}
          /\ ~Unaccounted(r)

Release ==
    /\ Present /\ edged = "up"
    /\ Releasable(live)
    /\ live' = [live EXCEPT !.recovery = FALSE]
    /\ UNCHANGED <<aside, staging, backups, marker, restoreVars, edged, pmsd, opening, lane, cmds, made, sent, boundVars>>

-----------------------------------------------------------------------------
(* The restore *)

TakeBackup ==
    /\ Present /\ step = "idle" /\ ~maint
    /\ Cardinality(backups) < MaxBackups
    /\ live \notin backups
    /\ backups' = backups \cup {live}
    /\ UNCHANGED <<dbVars, marker, restoreVars, edged, pmsd, opening, lane, cmds, made, sent, boundVars>>

\* Maintenance on, and the backup loaded into a staging database.
Stage(b) ==
    /\ Present /\ step = "idle" /\ ~maint
    /\ marker < MaxRestores
    /\ maint' = TRUE
    /\ staging' = b
    /\ step' = "staged"
    /\ UNCHANGED <<live, aside, backups, marker, next, edged, pmsd, opening, lane, cmds, made, sent, boundVars>>

StartDependents == edged' = "starting" /\ pmsd' = "up"

\* fail() before the swap: the staging database is dropped and the services started.
GiveUp ==
    /\ staging' = NoDb
    /\ maint' = FALSE
    /\ step' = "idle"
    /\ StartDependents

\* critical(): maintenance stays and nothing is started.
Critical == step' = "idle" /\ UNCHANGED <<maint, edged, pmsd>>

\* proveQuiesced stops and checks every dependent service; the next generation is read.
\* Dependents that were not proven stopped may have been stopped all the same.
Quiesce ==
    /\ step = "staged"
    /\ \/ /\ next' = marker + 1
          /\ edged' = "down" /\ pmsd' = "down" /\ cmds' = {}
          /\ step' = "quiesced"
          /\ UNCHANGED <<staging, maint, faults>>
       \/ /\ staging' = NoDb /\ maint' = FALSE /\ step' = "idle"
          /\ edged' \in {"starting", edged} \ {"down"} /\ pmsd' = "up"
          /\ cmds' \in {cmds, {}}
          /\ Fault /\ UNCHANGED next
    /\ UNCHANGED <<live, aside, backups, marker, opening, lane, made, sent, reboots>>

\* advanceMarker: a failing transient unit may have written the file or not.
AdvanceMarker ==
    /\ step = "quiesced"
    /\ \/ /\ marker' = next
          /\ step' = "marked"
          /\ UNCHANGED <<staging, maint, edged, pmsd, faults>>
       \/ /\ marker' \in {marker, next}
          /\ GiveUp /\ Fault
    /\ UNCHANGED <<live, aside, backups, next, opening, lane, cmds, made, sent, reboots>>

\* pg_terminate_backend ends the purchases that were not committed; the rename is refused
\* while a connection is left.
RenameAside ==
    /\ step = "marked"
    /\ \/ /\ aside' = live
          /\ live' = NoDb
          /\ opening' = {}
          /\ step' = "aside"
          /\ UNCHANGED <<staging, maint, edged, pmsd, faults>>
       \/ GiveUp /\ Fault /\ opening' \in {opening, {}} /\ UNCHANGED <<live, aside>>
    /\ UNCHANGED <<backups, marker, next, lane, cmds, made, sent, reboots>>

\* The second rename; when it fails the first is undone, and that may fail too.
RenameIn ==
    /\ step = "aside"
    /\ \/ /\ live' = staging
          /\ staging' = NoDb
          /\ step' = "swapped"
          /\ UNCHANGED <<aside, maint, edged, pmsd, faults>>
       \/ /\ live' = aside
          /\ aside' = NoDb
          /\ GiveUp /\ Fault
       \/ Critical /\ Fault /\ UNCHANGED dbVars
    /\ UNCHANGED <<backups, marker, next, opening, lane, cmds, made, sent, reboots>>

\* Mutant of Rollback: the clean-up after a failed second rename takes the original.
RollbackCleansUp ==
    \/ live' = aside /\ aside' = NoDb /\ GiveUp
    \/ Critical /\ live' = NoDb /\ aside' = NoDb /\ UNCHANGED staging

\* rollback(): rename the restored database away, the original back.
Rollback ==
    \/ live' = aside /\ aside' = NoDb /\ GiveUp
    \/ Critical /\ UNCHANGED dbVars
    \/ Critical /\ staging' = live /\ live' = NoDb /\ UNCHANGED aside

\* Privileges, integrity and hypertables of what is now live.
Verify ==
    /\ step = "swapped"
    /\ \/ step' = "verified" /\ UNCHANGED <<dbVars, maint, edged, pmsd, faults>>
       \/ Rollback /\ Fault
    /\ UNCHANGED <<backups, marker, next, opening, lane, cmds, made, sent, reboots>>

\* p4_record_supported_restore: the generation must advance; the site enters recovery.
Record ==
    /\ step = "verified"
    /\ \/ /\ next > live.gen
          /\ live' = EnterRecovery(live, next)
          /\ step' = "recorded"
          /\ UNCHANGED <<aside, staging, maint, edged, pmsd, faults>>
       \/ Rollback /\ Fault
    /\ UNCHANGED <<backups, marker, next, opening, lane, cmds, made, sent, reboots>>

BackInService ==
    /\ step = "recorded"
    /\ maint' = FALSE
    /\ step' = "idle"
    /\ StartDependents
    /\ UNCHANGED <<dbVars, backups, marker, next, opening, lane, cmds, made, sent, boundVars>>

-----------------------------------------------------------------------------
(* Crashes *)

\* scd dies and is restarted: lane, open transactions and restore are gone; the flag, the
\* stopped services and pmsd's commands stay as they are.
ScdCrash ==
    /\ Fault
    /\ lane' = NoLane /\ opening' = {}
    /\ step' = "idle"
    /\ UNCHANGED <<dbVars, backups, marker, next, maint, edged, pmsd, cmds, made, sent, reboots>>

\* Every service starts, in no order that waits for edged; /run is empty.
Reboot ==
    /\ reboots < MaxReboots
    /\ reboots' = reboots + 1
    /\ lane' = NoLane /\ opening' = {} /\ cmds' = {}
    /\ step' = "idle"
    /\ maint' = FALSE
    /\ StartDependents
    /\ UNCHANGED <<dbVars, backups, marker, next, made, sent, faults>>

RestoreStep ==
    \/ Quiesce \/ AdvanceMarker \/ RenameAside \/ RenameIn \/ Verify \/ Record \/ BackInService

LaneStep ==
    \/ Authorise \/ NotTransmitted \/ LostAnswer \/ Settle
    \/ \E i \in Items : Claim(i) \/ RecoverOrphan(i) \/ ApplyOutcome(i)

PmsdStep == \E c \in cmds : Write(c) \/ WriteRefused(c)

OperatorStep ==
    \/ Declare \/ Release \/ ResolveCardHold
    \/ \E i \in Items :
          \/ \E r \in {"CONFIRMED_COMPLETED", "CONFIRMED_NOT_COMPLETED", "ABANDONED"} : ResolveHold(i, r)
          \/ ResolveSettlementHold(i) \/ AuthoriseRetry(i)

PurchaseStep ==
    \/ CommitCard \/ CardOutcome
    \/ \E w \in Items \cup {Card} : BeginCreate(w)
    \/ \E i \in Items : CommitCharge(i)

Next ==
    \/ RestoreStep \/ LaneStep \/ PmsdStep \/ OperatorStep \/ PurchaseStep
    \/ TakeBackup \/ EdgedReconcile \/ ScdCrash \/ Reboot
    \/ \E b \in backups : Stage(b)

Spec == Init /\ [][Next]_vars

\* The restore goroutine and edged's start-up run on, and the reconciler concludes a live
\* card payment (CardCheckout's PurchaseConcludes); an operator who opened the recovery
\* screen concludes every hold and releases.
FairSpec ==
    /\ Spec
    /\ WF_vars(RestoreStep) /\ WF_vars(EdgedReconcile) /\ WF_vars(LaneStep)
    /\ WF_vars(Present /\ live.card = "live" /\ CardOutcome)
    /\ WF_vars(Release) /\ WF_vars(ResolveCardHold)
    /\ \A i \in Items : WF_vars(ResolveSettlementHold(i)) /\ WF_vars(\E r \in {"CONFIRMED_COMPLETED", "CONFIRMED_NOT_COMPLETED"} : ResolveHold(i, r))

-----------------------------------------------------------------------------
(* Properties *)

\* Whatever step failed or crashed: a live database whose queue would repeat a charge
\* the PMS already has is older than the marker, so edged's detector (ReconcileEpoch)
\* recognises it, and the record of the restore is not refused as not advancing.
RepeatIsDetectable ==
    Present => \A i \in Items :
        sent[i] > 0 /\ live.rows[i].st = "QUEUED" => live.gen < marker

\* Once edged has reconciled, no restored row is transmitted a second time until edged is
\* restarted: the holds reach the queued rows and the claims already made, but not a command
\* pmsd had found authorised before.
NoRepeatOnceReconciled ==
    [][\A i \in Items : sent[i] > 0 /\ sent'[i] > sent[i] =>
          edged # "up" \/ \E c \in cmds \ cmds' : c.i = i /\ c.early]_vars

\* Whatever renames and rollbacks failed: without a live database the original is still
\* set aside, and charges are missing from a database the detector accepts only after a
\* restore (a recorded one, or one edged detected) has been held and concluded.
OriginalSurvives ==
    /\ ~Present => aside # NoDb
    /\ Present /\ live.gen = marker /\ (\E i \in made \cap Items : live.rows[i].st = "NONE") => marker > 0

\* A room charge that passed the gate before recovery was entered and was committed after
\* the holds were taken: it has no hold, and the release is refused because of it.
Straddles ==
    \E i \in Items : Unaccounted(live.rows[i]) /\ i \notin live.held /\ live.rows[i].settle = "live"

\* Recovery ends: an operator who concludes every hold can always release, an authorised
\* retry and a settle that raced the hold included, unless a purchase straddled its start.
RecoveryEnds ==
    (edged = "up" /\ Present /\ live.recovery)
        ~> (~Present \/ edged # "up" \/ ~live.recovery \/ Straddles)

\* "Nothing is replayed automatically": no charge reaches the PMS twice.
NothingReplayed == \A i \in Items : sent[i] <= 1

=============================================================================
