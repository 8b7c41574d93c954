---------------------------- MODULE NetworkChange ----------------------------
(***************************************************************************)
(* netd's change of the guest network: a revision is applied layer by      *)
(* layer, awaits the operator's confirmation, and is confirmed or rolled   *)
(* back to the confirmed configuration by the operator, by the confirmation*)
(* watchdog, or, after a restart, by the reclaim and the boot reconcile.   *)
(* Any step may fail and the service or the whole appliance may restart    *)
(* between any two steps.                                                  *)
(*                                                                         *)
(* A configuration is a model value; Clean is the factory-clean appliance. *)
(* The wire has five layers: the live bridges, the netplan file they are   *)
(* rebuilt from at boot, the firewall structure, the DHCP server and the   *)
(* resolver.  Mixed is a layer that holds no single configuration, or a    *)
(* DHCP server that took its configuration and holds no socket for it.     *)
(***************************************************************************)
EXTENDS Integers, Sequences, FiniteSets

CONSTANTS Config,
          Clean,        \* no guest network
          Mixed,        \* partly one configuration, partly another
          Unknown,      \* nothing: no intent in force, no snapshot on disk
          MaxRev,       \* bound of the revisions
          MaxFaults     \* bound of failures, crashes, reboots and console interventions

ASSUME NetworkAssumption ==
    /\ MaxRev \in Nat /\ MaxFaults \in Nat
    /\ {Clean, Mixed, Unknown} \cap Config = {}
    /\ Clean # Mixed /\ Clean # Unknown /\ Mixed # Unknown

VARIABLES
    rev,         \* network_config_revisions.state
    intent,      \* network_config_revisions.intent
    overdue,     \* confirm_deadline of the pending revision has passed
    unresolved,  \* revisions whose failure_reason says ROLLBACK INCOMPLETE
    wire,        \* what each layer holds
    keaFile,     \* the file a cold DHCP server starts from
    keaSnap,     \* the pre-bootstrap DHCP snapshot exists
    snapshot,    \* the last-confirmed snapshot's intent
    markFile,    \* rollback-incomplete.json
    todo,        \* where the boot or recovery sequence of netd is; "down": no process
    serving,     \* the boot sequence is over: requests, watchdog and ticks run
    op,          \* the operation that holds the lock
    inForce,     \* the intent every render uses
    before,      \* applyInflight: what was in force before the apply of this process
    blocked,     \* the incomplete-rollback marker in memory
    diskErr,     \* the confirmed DHCP configuration could not be saved
    asked,       \* rollbacks decided, waiting for the lock
    missed,      \* history: what the last operation on it left undone without reporting a problem
    faults

db == <<rev, intent, overdue, unresolved>>
files == <<keaFile, keaSnap, snapshot, markFile>>
memory == <<todo, serving, op, inForce, before, blocked, diskErr, asked>>
vars == <<rev, intent, overdue, unresolved, wire, keaFile, keaSnap, snapshot, markFile,
          todo, serving, op, inForce, before, blocked, diskErr, asked, missed, faults>>

Revs == 1 .. MaxRev
NoRev == 0
NotBlocked == -1
Layers == {"bridges", "netplan", "nft", "dhcp", "dns"}

Serving == Layers \ {"netplan"}   \* what guests are served by; the netplan file matters at the next reboot

\* The layers each operation writes, in its order, and the record it ends with.
Order == [apply     |-> <<"bridges", "netplan", "nft", "dhcp", "dns", "record">>,
          rollback  |-> <<"bridges", "nft", "dhcp", "dns", "netplan", "record">>,
          clean     |-> <<"bridges", "netplan", "dns", "dhcp", "record">>,
          reconcile |-> <<"bridges", "nft", "dhcp", "dns", "record">>,
          confirm   |-> <<"record">>]

Idle == [job |-> "idle", pc |-> 1, r |-> NoRev, bad |-> FALSE, nft |-> FALSE, target |-> Unknown]
Job(job, r, target) == [Idle EXCEPT !.job = job, !.r = r, !.target = target]

LockFree == op = Idle /\ todo # "down"
At(layer) == op.job # "idle" /\ Order[op.job][op.pc] = layer
Onward(bad, nft) == [op EXCEPT !.pc = @ + 1, !.bad = @ \/ bad, !.nft = nft]

InFlight == {r \in Revs : rev[r] \in {"applying", "pending"}}
Pending == {r \in Revs : rev[r] = "pending"}
Active == {r \in Revs : rev[r] = "active"}
ActiveRev == IF Active = {} THEN NoRev ELSE CHOOSE r \in Active : TRUE
Confirmed == IF Active = {} THEN Clean ELSE intent[ActiveRev]

\* an apply that was interrupted, or could not be rolled back, is left as it is
Overlooked == missed' = IF InFlight = Pending THEN missed ELSE missed \cup {"reclaim"}

Fault == faults < MaxFaults /\ faults' = faults + 1
NoFault == faults' = faults

\* An appliance as installed, with netd started and nothing applied.
Init ==
    /\ rev = [r \in Revs |-> "none"]
    /\ intent = [r \in Revs |-> Clean]
    /\ overdue = FALSE
    /\ unresolved = {}
    /\ wire = [layer \in Layers |-> Clean]
    /\ keaFile = Clean
    /\ keaSnap = FALSE
    /\ snapshot = Unknown
    /\ markFile = NotBlocked
    /\ todo = "none"
    /\ serving = TRUE
    /\ op = Idle
    /\ inForce = Unknown
    /\ before = Idle
    /\ blocked = NotBlocked
    /\ diskErr = FALSE
    /\ asked = {}
    /\ missed = {}
    /\ faults = 0

-----------------------------------------------------------------------------
(* The incomplete-rollback marker.                                         *)

\* markRollbackIncomplete: memory always; the file unless the disk fails too
Mark(r, faulty) == blocked' = r /\ markFile' \in {r} \cup (IF faulty THEN {markFile} ELSE {})

\* clearRollbackIncomplete: history, then the file, then memory; a failure leaves the block
Lifted == unresolved' = {} /\ markFile' = NotBlocked /\ blocked' = NotBlocked
Lift ==
    \/ NoFault /\ Lifted
    \/ Fault /\ unresolved' \in {unresolved, {}} /\ UNCHANGED <<markFile, blocked>>

-----------------------------------------------------------------------------
(* The start of a rollback, under the lock.                                *)

\* rollback: back to the confirmed revision, or factory-clean when there is none
Undo(r) == IF Active \ {r} = {} THEN Job("clean", r, Clean) ELSE Job("rollback", r, Confirmed)

\* The state is read again, and the target.  An unreadable state is fail-closed: nothing is changed and further
\* changes are refused.  An error in reading the target's bundle path is discarded: there seems to be no target.
EnterRollback(r, faulty) ==
    \/ op' = Undo(r) /\ UNCHANGED <<blocked, markFile, missed>>
    \/ /\ faulty /\ Active \ {r} # {} /\ op' = Job("clean", r, Clean)
       /\ missed' = missed \cup Serving /\ UNCHANGED <<blocked, markFile>>
    \/ faulty /\ op' = Idle /\ Mark(r, TRUE) /\ Overlooked

StillInFlightAsDecided(r) == r \in Revs
StillInFlight(r) == r \in InFlight

RollbackBegin(who, r) ==
    /\ <<who, r>> \in asked
    /\ LockFree
    /\ asked' = asked \ {<<who, r>>}
    /\ \E faulty \in BOOLEAN :
          /\ IF faulty THEN Fault ELSE NoFault
          /\ \/ StillInFlight(r) /\ EnterRollback(r, faulty)
             \/ /\ ~StillInFlight(r) /\ op' = Idle /\ UNCHANGED missed
                /\ IF faulty THEN Mark(r, TRUE) ELSE UNCHANGED <<blocked, markFile>>
    /\ UNCHANGED <<db, wire, keaFile, keaSnap, snapshot, todo, serving, inForce, before, diskErr>>

-----------------------------------------------------------------------------
(* The decisions to roll back, taken before the lock.                      *)

Ask(who, r) == asked' = asked \cup {<<who, r>>} /\ UNCHANGED <<db, wire, files, todo, serving, op, inForce, before, blocked, diskErr, missed, faults>>

DeadlinePasses ==
    /\ Pending # {} /\ ~overdue
    /\ overdue' = TRUE
    /\ UNCHANGED <<rev, intent, unresolved, wire, files, memory, missed, faults>>

WatchdogDecides(r) ==
    /\ serving /\ r \in Pending /\ overdue
    /\ \A s \in Revs : <<"watchdog", s>> \notin asked
    /\ Ask("watchdog", r)

OperatorDecides(r) == serving /\ r \in InFlight /\ Ask("operator", r)

\* the operator's request does not wait for the lock for ever
OperatorGivesUp(r) ==
    /\ <<"operator", r>> \in asked /\ op # Idle
    /\ asked' = asked \ {<<"operator", r>>}
    /\ UNCHANGED <<db, wire, files, todo, serving, op, inForce, before, blocked, diskErr, missed, faults>>

-----------------------------------------------------------------------------
(* Apply.                                                                  *)

MayApply == serving /\ LockFree /\ blocked = NotBlocked /\ InFlight = {}
Free == {r \in Revs : rev[r] = "none" /\ \A s \in 1 .. r - 1 : rev[s] # "none"}

\* refused by the validation, the renderer, the syntax check or the in-flight slot
RejectApply(r) ==
    /\ MayApply /\ r \in Free
    /\ rev' = [rev EXCEPT ![r] = "failed"]
    /\ UNCHANGED <<intent, overdue, unresolved, wire, files, memory, missed, faults>>

BeginApply(r, c) ==
    /\ MayApply /\ r \in Free
    /\ rev' = [rev EXCEPT ![r] = "applying"]
    /\ intent' = [intent EXCEPT ![r] = c]
    /\ before' = Job("apply", r, inForce)
    /\ inForce' = c
    /\ op' = Job("apply", r, c)
    /\ UNCHANGED <<overdue, unresolved, wire, files, todo, serving, blocked, diskErr, asked, missed, faults>>

-----------------------------------------------------------------------------
(* The layers.                                                             *)

\* what a failed or interrupted write leaves in a layer
Residue(layer) ==
    CASE layer \in {"bridges", "dns"} -> {wire[layer], Mixed}
      [] layer = "netplan" -> {wire[layer], op.target}
      [] layer = "dhcp" -> IF wire.dhcp = Clean THEN {Clean} ELSE {wire.dhcp, keaFile, op.target}
      [] OTHER -> {wire[layer]}

Written(layer) == wire' = [wire EXCEPT ![layer] = op.target]
Torn(layer) == \E left \in Residue(layer) : wire' = [wire EXCEPT ![layer] = left]

\* a layer brought to the target is no longer missed, unless the target is the factory-clean one taken by mistake
Done(layer) == missed' = IF op.job = "apply" \/ op.target = Confirmed THEN missed \ {layer} ELSE missed

\* A failed layer: an apply is rolled back; a reconcile without a firewall stops there; the others go on.
Fails(layer) ==
    /\ Fault
    /\ IF op.job = "apply"
       THEN EnterRollback(op.r, TRUE)
       ELSE /\ op' = [Onward(TRUE, FALSE) EXCEPT
                        !.pc = IF op.job = "reconcile" /\ layer = "nft" THEN Len(Order["reconcile"]) ELSE @]
            /\ UNCHANGED <<blocked, markFile, missed>>

\* Goes on to the next layer.
Succeeds(layer) == NoFault /\ op' = Onward(FALSE, op.nft) /\ Done(layer) /\ UNCHANGED <<blocked, markFile>>

\* Goes on to the next layer although this one was not restored, and says nothing: a file of the target's bundle, or
\* its intent, could not be read.
Skips(layer) ==
    /\ Fault /\ op' = Onward(FALSE, op.nft)
    /\ missed' = missed \cup {layer}
    /\ UNCHANGED <<blocked, markFile>>

Kept == UNCHANGED <<db, snapshot, todo, serving, asked>>
NoDhcp == UNCHANGED <<keaFile, keaSnap, diskErr>>
NoIntent == UNCHANGED <<inForce, before>>

\* createNetwork, removeStrayBridges and reconcileAddresses.  A stray bridge that a reconcile had to remove is a
\* problem it reports.  Where the bridges cannot be listed, a rollback stops, refused and unrecorded, and a
\* factory-clean of the boot reconcile stops with a problem.
Bridges ==
    /\ At("bridges")
    /\ \/ Written("bridges") /\ Succeeds("bridges")
       \/ /\ op.job = "reconcile" /\ wire.bridges \notin {op.target, Clean}
          /\ Written("bridges") /\ op' = Onward(TRUE, FALSE) /\ Done("bridges") /\ NoFault /\ UNCHANGED <<blocked, markFile>>
       \/ Torn("bridges") /\ op.job = "rollback" /\ Skips("bridges")
       \/ Torn("bridges") /\ Fails("bridges")
       \/ /\ op.job \in {"rollback", "clean"} /\ op.r # NoRev
          /\ Fault /\ op' = Idle /\ Mark(op.r, FALSE) /\ Overlooked /\ UNCHANGED wire
       \/ /\ op.job = "clean" /\ op.r = NoRev
          /\ Fault /\ op' = [Onward(TRUE, FALSE) EXCEPT !.pc = Len(Order["clean"])] /\ UNCHANGED <<wire, blocked, markFile, missed>>
    /\ Kept /\ NoDhcp /\ NoIntent

Netplan ==
    /\ At("netplan")
    /\ \/ Written("netplan") /\ Succeeds("netplan")
       \/ op.job = "rollback" /\ Fault /\ op' = Onward(FALSE, op.nft) /\ UNCHANGED <<wire, blocked, markFile, missed>>
       \/ Torn("netplan") /\ Fails("netplan")
    /\ Kept /\ NoDhcp /\ NoIntent

\* abandonRejectedIntent: what was in force before the rejected apply, when this process applied it
AbandonedStays(r) == inForce
Abandoned(r) == IF before.r = r THEN before.target ELSE inForce

\* The converge is atomic.  A rollback puts its target in force first; when it cannot read the target, the
\* rejected intent is abandoned.
Nft ==
    /\ At("nft")
    /\ \/ /\ Written("nft") /\ NoFault /\ op' = Onward(FALSE, TRUE) /\ Done("nft") /\ UNCHANGED <<before, blocked, markFile>>
          /\ inForce' = op.target
       \/ Torn("nft") /\ Fails("nft") /\ inForce' = op.target /\ UNCHANGED before
       \/ /\ op.job = "rollback"
          /\ UNCHANGED wire /\ Fails("nft")
          /\ inForce' = Abandoned(op.r)
          /\ before' = Idle
    /\ Kept /\ NoDhcp

\* the server took the configuration and holds no socket of a gateway
Deaf == wire' = [wire EXCEPT !.dhcp = Mixed]

\* The file a cold DHCP server starts from follows the confirmed configuration (persistConfirmedKea).
Persisted == keaFile' = Confirmed /\ diskErr' = FALSE
NotPersisted == keaFile' = keaFile /\ diskErr' = TRUE

\* bootstrapKeaIfStopped, pushKea, and the sockets: an apply does not go on with a server that is not listening; a
\* rebind restart that fails leaves the server on its file
DhcpOfApply ==
    /\ op.job = "apply"
    /\ LET stopped == wire.dhcp = Clean
           Bootstrap(begun) == /\ keaFile' = IF begun THEN op.target ELSE keaFile
                               /\ keaSnap' = (keaSnap \/ begun)
       IN  \/ Written("dhcp") /\ Succeeds("dhcp") /\ Bootstrap(stopped)
           \/ Torn("dhcp") /\ Fails("dhcp") /\ \E begun \in {FALSE, stopped} : Bootstrap(begun)
           \/ (Written("dhcp") \/ Deaf) /\ Fails("dhcp") /\ Bootstrap(stopped)
    /\ UNCHANGED diskErr

\* pushKea, then persistConfirmedKea: a rollback saves only what it could render and push.  A push that is accepted
\* does not show that the server rebound its sockets: a reconcile looks (kea_running), a rollback does not.  Neither
\* pushes when it cannot read the bundle's file; the reconcile then only sees whether some server is listening.
DhcpOfRestore ==
    /\ op.job \in {"rollback", "reconcile"}
    /\ LET saves == op.job = "reconcile" \/ op.nft
           Saved == IF saves THEN Persisted ELSE UNCHANGED <<keaFile, diskErr>>
       IN  \/ Written("dhcp") /\ Succeeds("dhcp") /\ Saved
           \/ op.job = "rollback" /\ Deaf /\ Skips("dhcp") /\ Saved
           \/ /\ op.job = "rollback" \/ wire.dhcp \notin {Clean, Mixed}
              /\ Skips("dhcp") /\ UNCHANGED <<wire, keaFile, diskErr>>
           \/ saves /\ Written("dhcp") /\ Fails("dhcp") /\ NotPersisted
           \/ Torn("dhcp") /\ Fails("dhcp") /\ IF op.job = "reconcile" THEN Persisted ELSE UNCHANGED <<keaFile, diskErr>>
           \/ op.job = "reconcile" /\ Deaf /\ Fails("dhcp") /\ Persisted
           \/ op.job = "reconcile" /\ Fails("dhcp") /\ UNCHANGED <<wire, keaFile, diskErr>>
    /\ UNCHANGED keaSnap

\* restoreKeaBootstrap: undone only if it was done; the snapshot is kept when a step fails
DhcpOfClean ==
    /\ op.job = "clean"
    /\ \/ /\ keaSnap /\ Written("dhcp") /\ Succeeds("dhcp")
          /\ keaFile' = Clean /\ keaSnap' = FALSE
       \/ ~keaSnap /\ Succeeds("dhcp") /\ UNCHANGED <<wire, keaFile, keaSnap>>
       \/ keaSnap /\ Torn("dhcp") /\ Fails("dhcp") /\ keaFile' \in {keaFile, Clean} /\ UNCHANGED keaSnap
    /\ UNCHANGED diskErr

Dhcp ==
    /\ At("dhcp")
    /\ DhcpOfApply \/ DhcpOfRestore \/ DhcpOfClean
    /\ inForce' = IF op.job = "clean" THEN Unknown ELSE inForce
    /\ Kept /\ UNCHANGED before

\* The fragment and the restart.  The factory-clean branch removes the fragment and does not restart the resolver; a
\* rollback or a reconcile that cannot read the bundle's fragment leaves the resolver alone.
Dns ==
    /\ At("dns")
    /\ \/ op.job # "clean" /\ Written("dns") /\ Succeeds("dns")
       \/ op.job = "clean" /\ wire' = [wire EXCEPT !.dns = IF @ = Clean THEN Clean ELSE Mixed] /\ Succeeds("dns")
       \/ op.job \in {"rollback", "reconcile"} /\ Skips("dns") /\ UNCHANGED wire
       \/ Torn("dns") /\ Fails("dns")
    /\ Kept /\ NoDhcp /\ NoIntent

-----------------------------------------------------------------------------
(* What an operation records at its end.                                   *)

\* MarkPending, after the health checks; without it the change is rolled back
ApplyRecord ==
    /\ At("record") /\ op.job = "apply"
    /\ \/ /\ NoFault /\ op' = Idle
          /\ rev' = [rev EXCEPT ![op.r] = "pending"] /\ overdue' = FALSE
          /\ UNCHANGED <<blocked, markFile, missed>>
       \/ Fault /\ EnterRollback(op.r, TRUE) /\ UNCHANGED <<rev, overdue>>
    /\ UNCHANGED <<intent, unresolved, wire, keaFile, keaSnap, snapshot, todo, serving, inForce, before, diskErr, asked>>

\* finishRollback, recordRolledBack: the marker, then the record; either may fail, or both.  Nothing repeats a clean
\* rollback whose record failed unless the revision is pending and the watchdog finds it again.
RollbackRecord ==
    /\ At("record") /\ op.job \in {"rollback", "clean"} /\ op.r # NoRev
    /\ op' = Idle /\ before' = Idle
    /\ \E recorded \in BOOLEAN :
          /\ rev' = IF recorded /\ op.r \in InFlight THEN [rev EXCEPT ![op.r] = "rolled_back"] ELSE rev
          /\ \/ ~op.bad /\ blocked = op.r /\ Lift /\ (recorded \/ Fault)
             \/ ~op.bad /\ blocked = op.r /\ Lifted /\ ~recorded /\ Fault
             \/ /\ ~op.bad /\ blocked # op.r
                /\ (recorded /\ NoFault) \/ (~recorded /\ Fault)
                /\ UNCHANGED <<unresolved, markFile, blocked>>
             \/ /\ op.bad
                /\ (recorded /\ NoFault /\ Mark(op.r, FALSE)) \/ (Fault /\ Mark(op.r, TRUE))
                /\ unresolved' = IF recorded THEN unresolved \cup {op.r} ELSE unresolved
          /\ IF recorded THEN missed' = missed \ {"reclaim"} ELSE Overlooked
    /\ overdue' = (overdue /\ Pending' # {})
    /\ UNCHANGED <<intent, wire, keaFile, keaSnap, snapshot, todo, serving, inForce, diskErr, asked>>

\* Problems block further changes; a complete convergence lifts the block.
ReconcileRecord ==
    /\ At("record") /\ op.job \in {"reconcile", "clean"} /\ op.r = NoRev
    /\ op' = Idle /\ todo' = "none" /\ serving' = TRUE
    /\ \/ op.bad /\ blocked = NotBlocked /\ NoFault /\ Mark(ActiveRev, FALSE) /\ UNCHANGED unresolved
       \/ op.bad /\ blocked = NotBlocked /\ Fault /\ Mark(ActiveRev, TRUE) /\ UNCHANGED unresolved
       \/ ~op.bad /\ blocked # NotBlocked /\ Lift
       \/ op.bad = (blocked # NotBlocked) /\ NoFault /\ UNCHANGED <<unresolved, markFile, blocked>>
    /\ UNCHANGED <<rev, intent, overdue, wire, keaFile, keaSnap, snapshot, inForce, before, diskErr, asked, missed>>

-----------------------------------------------------------------------------
(* Confirm.                                                                *)

RunningIsAssumed(r) == r \in Pending
\* runningIs: the intent in force is this revision's
RunningIs(r) == inForce = intent[r]

\* MarkActive
Confirm(r) ==
    /\ serving /\ LockFree /\ blocked = NotBlocked
    /\ r \in Pending /\ RunningIs(r)
    /\ rev' = [s \in Revs |-> IF s = r THEN "active" ELSE IF s \in Active THEN "superseded" ELSE rev[s]]
    /\ overdue' = FALSE
    /\ op' = Job("confirm", r, intent[r])
    /\ UNCHANGED <<intent, unresolved, wire, files, todo, serving, inForce, before, blocked, diskErr, asked, missed, faults>>

\* the snapshot, the DHCP server's file, the end of the bootstrap snapshot
ConfirmFiles ==
    /\ At("record") /\ op.job = "confirm"
    /\ \/ NoFault /\ snapshot' = Confirmed /\ Persisted
       \/ Fault /\ snapshot' = snapshot /\ Persisted
       \/ Fault /\ snapshot' = Confirmed /\ NotPersisted
    /\ keaSnap' = FALSE
    /\ op' = Idle /\ before' = Idle
    /\ UNCHANGED <<db, wire, markFile, todo, serving, inForce, blocked, asked, missed>>

-----------------------------------------------------------------------------
(* The loops.                                                              *)

\* reassertNftStructure
NftTick ==
    /\ serving /\ LockFree /\ inForce # Unknown
    /\ wire' = [wire EXCEPT !.nft = inForce]
    /\ UNCHANGED <<db, files, memory, missed, faults>>

\* portalRefresh: the confirmed DHCP configuration is saved after all; what is in force is pushed again to a running
\* server whose captive-portal option differs from it (syncKeaCaptiveLocked)
PortalRefresh ==
    /\ serving /\ LockFree
    /\ \/ diskErr /\ Active # {} /\ Persisted /\ UNCHANGED wire
       \/ /\ inForce # Unknown /\ wire.dhcp \notin {Clean, inForce}
          /\ wire' = [wire EXCEPT !.dhcp = inForce] /\ UNCHANGED <<keaFile, diskErr>>
    /\ UNCHANGED <<db, keaSnap, snapshot, markFile, todo, serving, op, inForce, before, blocked, asked, missed, faults>>

RecoverByRestart == serving /\ FALSE
\* blockedRecoveryLoop
Recover ==
    /\ serving /\ todo = "none" /\ blocked # NotBlocked
    /\ todo' = "reclaim"
    /\ UNCHANGED <<db, wire, files, serving, op, inForce, before, blocked, diskErr, asked, missed, faults>>

\* reassertConfirmed, from the console: the reconcile without the reclaim before it
Reassert ==
    /\ serving /\ todo = "none" /\ Fault
    /\ todo' = "reconcile"
    /\ Overlooked
    /\ UNCHANGED <<db, wire, files, serving, op, inForce, before, blocked, diskErr, asked>>

\* ReclaimInterruptedOnBoot: the list is read without the lock; a failure is logged and nothing reads it again
Reclaim ==
    /\ todo = "reclaim"
    /\ todo' = "reconcile"
    /\ \/ NoFault /\ asked' = asked \cup {<<"recovery", r>> : r \in InFlight \ Pending} /\ missed' = missed \ {"reclaim"}
       \/ Fault /\ UNCHANGED asked /\ Overlooked
    /\ UNCHANGED <<db, wire, files, serving, op, inForce, before, blocked, diskErr>>

\* reconcileConfirmed up to its first layer.  A database that does not answer is stood in for by the snapshot, as a
\* problem; an unusable answer, or no snapshot, changes nothing.
ReconcileBegin ==
    /\ todo = "reconcile" /\ LockFree
    /\ \A r \in Revs : <<"recovery", r>> \notin asked
    /\ \/ /\ Active = {} /\ NoFault
          /\ op' = Job("clean", NoRev, Clean)
          /\ UNCHANGED <<snapshot, inForce>>
       \/ /\ Active # {}
          /\ op' = Job("reconcile", NoRev, Confirmed)
          /\ inForce' = Confirmed
          /\ \/ NoFault /\ snapshot' = Confirmed
             \/ Fault /\ snapshot # Confirmed /\ UNCHANGED snapshot
       \/ /\ Fault /\ snapshot # Unknown
          /\ op' = [Job("reconcile", NoRev, snapshot) EXCEPT !.bad = TRUE]
          /\ inForce' = snapshot
          /\ UNCHANGED snapshot
       \/ /\ Fault
          /\ op' = [Job("reconcile", NoRev, Clean) EXCEPT !.bad = TRUE, !.pc = Len(Order["reconcile"])]
          /\ UNCHANGED <<snapshot, inForce>>
    /\ UNCHANGED <<db, wire, keaFile, keaSnap, markFile, todo, serving, before, blocked, diskErr, asked, missed>>

-----------------------------------------------------------------------------
(* Crash and restart.                                                      *)

MemoryLost ==
    /\ todo' = "down" /\ serving' = FALSE
    /\ op' = Idle /\ inForce' = Unknown /\ before' = Idle
    /\ blocked' = NotBlocked /\ diskErr' = FALSE /\ asked' = {}

\* the service stops, possibly in the middle of a layer
Crash ==
    /\ todo # "down" /\ Fault /\ MemoryLost
    /\ \/ UNCHANGED wire
       \/ \E layer \in Layers : At(layer) /\ Torn(layer)
    /\ UNCHANGED <<db, files, missed>>

\* the appliance restarts: bridges from netplan, the static firewall, the DHCP server from its file
Reboot ==
    /\ todo # "down" /\ Fault /\ MemoryLost
    /\ wire' = [wire EXCEPT !.bridges = wire.netplan, !.nft = Clean, !.dhcp = keaFile]
    /\ UNCHANGED <<db, files, missed>>

\* loadIncompleteMarker: the file, else the history
Recorded == {r \in unresolved : \A s \in Revs : s > r => rev[s] \notin {"active", "pending", "applying"}}

Boot ==
    /\ todo = "down"
    /\ todo' = "reclaim"
    /\ \/ markFile # NotBlocked /\ blocked' = markFile /\ NoFault
       \/ /\ markFile = NotBlocked /\ NoFault
          /\ blocked' = IF Recorded = {} THEN NotBlocked ELSE CHOOSE r \in Recorded : \A s \in Recorded : s <= r
       \/ markFile = NotBlocked /\ Recorded # {} /\ Fault /\ UNCHANGED blocked
    /\ UNCHANGED <<db, wire, files, serving, op, inForce, before, diskErr, asked, missed>>

-----------------------------------------------------------------------------
LayerStep == Bridges \/ Netplan \/ Nft \/ Dhcp \/ Dns
RecordStep == ApplyRecord \/ RollbackRecord \/ ReconcileRecord \/ ConfirmFiles
Who == {"watchdog", "operator", "recovery"}

Next ==
    \/ \E r \in Revs : \/ RejectApply(r) \/ Confirm(r) \/ WatchdogDecides(r) \/ OperatorDecides(r) \/ OperatorGivesUp(r)
                       \/ \E c \in Config : BeginApply(r, c)
                       \/ \E who \in Who : RollbackBegin(who, r)
    \/ LayerStep \/ RecordStep
    \/ DeadlinePasses \/ NftTick \/ PortalRefresh \/ Recover \/ Reassert \/ Reclaim \/ ReconcileBegin
    \/ Crash \/ Reboot \/ Boot

Spec == Init /\ [][Next]_vars

\* An operation runs to its end; the loops tick; the service is restarted by systemd; and the lock is a Go mutex,
\* which starves no waiter that blocks on it, as the watchdog, the reclaim and the reconcile do.
FairSpec ==
    /\ Spec
    /\ WF_vars(LayerStep) /\ WF_vars(RecordStep)
    /\ WF_vars(Boot) /\ WF_vars(Reclaim) /\ WF_vars(Recover) /\ WF_vars(DeadlinePasses)
    /\ SF_vars(ReconcileBegin)
    /\ WF_vars(\E r \in Revs : WatchdogDecides(r))
    /\ SF_vars(\E r \in Revs : RollbackBegin("watchdog", r))
    /\ SF_vars(\E r \in Revs : RollbackBegin("recovery", r))

-----------------------------------------------------------------------------
(* Properties.                                                             *)

Settled == serving /\ op = Idle /\ blocked = NotBlocked /\ Pending = {}

\* Once no change awaits a decision and none is refused, what runs is the confirmed configuration, through failures,
\* rollbacks, crashes and restarts, also with a revision left 'applying' by one of them: the bridges, the DHCP server,
\* its file (unless the failure to write it is known and being retried), the firewall and the resolver.  Excepted is a
\* layer that the last operation on it skipped without a word, as rollback and reconcileConfirmed do when a read of
\* their target fails, and a DHCP server that a rollback left without a socket.  Factory-clean speaks of bridges and
\* DHCP alone.
SettledIsConfirmed ==
    Settled =>
        /\ "bridges" \in missed \/ wire.bridges = Confirmed
        /\ "dhcp" \in missed \/ (wire.dhcp = Confirmed /\ (keaFile = Confirmed \/ diskErr))
        /\ Confirmed # Clean => \A layer \in {"dns", "nft"} : layer \in missed \/ wire[layer] = Confirmed

\* A configuration that was rejected is never left for the firewall loop to install: with nothing in flight, or with
\* only an interrupted apply and no block, what is in force is the confirmed configuration, the stand-in snapshot of
\* one, or nothing (applyInflight).
RejectedIsNotRendered ==
    serving /\ op = Idle /\ (InFlight = {} \/ (Pending = {} /\ blocked = NotBlocked))
        => inForce \in {Confirmed, snapshot, Unknown}

\* A revision is recorded as confirmed only while every layer runs it (Confirm's runningIs and the lock); excepted is
\* a layer that was skipped without a word on the way to an equal configuration.
ConfirmRecordsRunning ==
    [][\A r \in Revs : rev[r] = "pending" /\ rev'[r] = "active" =>
          \A layer \in Serving : layer \in missed \/ wire[layer] = intent[r]]_vars

\* An unconfirmed or interrupted change does not stay, and a block does not stay: failures cease, and the watchdog,
\* the reclaim and the recovery loop then bring the appliance back without a restart.  Excepted is an interrupted
\* apply that the last reclaim could not list, could not roll back or could not record, or that a reassertion from the
\* console passed over: the reconcile that follows lifts the block, and nothing looks at the revision again before
\* the next start or the next block.
NetworkSettles ==
    []<>(serving /\ Pending = {} /\ blocked = NotBlocked /\ (InFlight = {} \/ "reclaim" \in missed))

\* "an empty result means the appliance is back on the previous configuration" (rollback): a rollback recorded
\* without unfinished steps has restored the bridges and the DHCP server of the confirmed configuration.
CleanRollbackRestores ==
    [][\A r \in Revs : r \in InFlight /\ rev'[r] = "rolled_back" /\ r \notin unresolved' =>
          wire.bridges = Confirmed /\ wire.dhcp = Confirmed]_vars
=============================================================================
