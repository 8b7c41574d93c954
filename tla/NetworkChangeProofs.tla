------------------------- MODULE NetworkChangeProofs -------------------------
(***************************************************************************)
(* Proofs about NetworkChange: what is in force once every change is       *)
(* decided, that a revision is confirmed only while it runs, and that a    *)
(* settled appliance runs what was confirmed.                              *)
(*                                                                         *)
(* None of the three is inductive.  NetInv says for each operation which   *)
(* revision it works for, where it is going and what it leaves in force.   *)
(* WireInv says which layers an operation has behind it hold its target or *)
(* were passed over without a word (missed).                               *)
(***************************************************************************)
EXTENDS NetworkChange, TLAPS

-----------------------------------------------------------------------------
(* The inductive invariant *)

RevStates == {"none", "failed", "applying", "pending", "rolled_back", "active", "superseded"}
Value == Config \cup {Clean, Mixed, Unknown}
Jobs == {"idle", "apply", "rollback", "clean", "reconcile", "confirm"}
Ops == [job: Jobs, pc: Nat, r: Revs \cup {NoRev}, bad: BOOLEAN, nft: BOOLEAN, target: Value]

\* What may be in force when no apply of this process is undecided.
Safe == {Confirmed, snapshot, Unknown}

NetTypes ==
    /\ rev \in [Revs -> RevStates]
    /\ intent \in [Revs -> Config \cup {Clean}]
    /\ op \in Ops /\ before \in Ops
    /\ inForce \in Value
    /\ snapshot \in Config \cup {Unknown}
    /\ serving \in BOOLEAN

Revisions ==
    /\ \A r, s \in InFlight : r = s
    /\ \A r, s \in Active : r = s
    /\ \A r \in InFlight \cup Active : intent[r] \in Config
    /\ snapshot # Unknown => Active # {}
    /\ todo = "down" => ~serving

\* Where each operation may be.
Where ==
    /\ op.job = "idle" => op = Idle
    /\ op.job \in {"apply", "rollback"} => op.pc \in 1 .. 6
    /\ op.job \in {"clean", "reconcile"} => op.pc \in 1 .. 5
    /\ op.job = "confirm" => op.pc = 1

\* An apply works for its revision, which is in force; what was in force before is remembered.
Applying ==
    op.job = "apply" =>
        /\ op.r \in Revs /\ rev[op.r] = "applying"
        /\ op.target = intent[op.r] /\ inForce = intent[op.r]
        /\ before.r = op.r
        /\ blocked = NotBlocked /\ serving /\ ~op.bad

\* A rollback works for a revision in flight and towards the confirmed one, which it puts in force with the firewall;
\* factory-clean puts nothing in force with the DHCP server, which the one of a start may not reach.
RollingBack ==
    /\ op.job = "rollback" =>
        /\ op.r \in InFlight /\ Active # {} /\ op.target = Confirmed
        /\ op.pc > 2 => inForce \in Safe
        /\ op.pc > 2 /\ ~op.bad => inForce = Confirmed
    /\ op.job = "clean" =>
        /\ op.r = NoRev \/ op.r \in InFlight
        /\ op.target = Clean
        /\ op.pc > 4 => inForce = Unknown \/ (op.bad /\ op.r = NoRev)

\* A reconcile works towards the confirmed revision or, as a problem, towards the snapshot that stands in for it.
Reconciling ==
    op.job = "reconcile" =>
        /\ op.r = NoRev
        /\ op.pc < 5 => Active # {} /\ op.target \in {Confirmed, snapshot} /\ inForce = op.target /\ op.target # Unknown
        /\ ~op.bad => Active # {} /\ op.target = Confirmed /\ inForce = Confirmed

Confirming ==
    op.job = "confirm" =>
        /\ InFlight = {} /\ Active # {}
        /\ inForce = Confirmed

\* Only an undecided apply of this process has something else in force, and it remembers what to go back to.
InForceIsSafe ==
    /\ before.r \in InFlight => before.target \in {Confirmed, Unknown}
    /\ before.r \notin InFlight => inForce \in Safe

\* While changes are admitted the stand-in snapshot is not in force either, nor an interrupted apply's intent.
FreeIsConfirmed ==
    serving /\ op.job = "idle" /\ blocked = NotBlocked /\ (before.r \notin InFlight \/ Pending = {})
        => inForce \in {Confirmed, Unknown}

NetInv ==
    /\ NetTypes /\ Revisions /\ Where
    /\ Applying /\ RollingBack /\ Reconciling /\ Confirming
    /\ InForceIsSafe /\ FreeIsConfirmed

\* A layer holds the configuration, or was passed over; the DHCP server holds it together with its file.
Has(layer, c) == layer \in missed \/ wire[layer] = c
HasDhcp(c) == "dhcp" \in missed \/ (wire.dhcp = c /\ keaFile = c)
Runs(c) == \A layer \in Serving : Has(layer, c)

\* The layers an operation has behind it hold its target or were passed over, unless it met a problem; a factory-clean
\* taken by mistake passes over all of them.
Progress ==
    /\ op.job = "apply" =>
        /\ op.pc > 1 => wire.bridges = op.target
        /\ op.pc > 3 => wire.nft = op.target
        /\ op.pc > 4 => wire.dhcp = op.target
        /\ op.pc > 5 => wire.dns = op.target
    /\ op.job = "rollback" /\ ~op.bad =>
        /\ op.pc > 1 => Has("bridges", op.target)
        /\ op.pc > 2 => Has("nft", op.target) /\ op.nft
        /\ op.pc > 3 => HasDhcp(op.target)
        /\ op.pc > 4 => Has("dns", op.target)
    /\ op.job = "reconcile" /\ ~op.bad =>
        /\ op.pc > 1 => Has("bridges", op.target)
        /\ op.pc > 2 => Has("nft", op.target)
        /\ op.pc > 3 => HasDhcp(op.target)
        /\ op.pc > 4 => Has("dns", op.target)
    /\ op.job = "clean" =>
        /\ Active # {} => Serving \subseteq missed
        /\ Active = {} /\ op.pc > 1 /\ ~op.bad => wire.bridges = Clean
        /\ Active = {} /\ op.pc > 4 /\ ~op.bad => wire.dhcp = Clean /\ keaFile = Clean
    /\ op.job = "confirm" => Runs(Confirmed)

\* Before anything is confirmed, the DHCP server and its file are as installed unless the bootstrap snapshot says so.
Bootstrapped ==
    /\ Active = {} => keaSnap \/ (wire.dhcp = Clean /\ keaFile = Clean)
    /\ diskErr => Active # {}

\* A pending revision whose intent is in force runs on every layer that was not passed over.
PendingRuns ==
    serving /\ op.job = "idle" /\ blocked = NotBlocked =>
        \A r \in Pending : inForce = intent[r] => Runs(intent[r])

WireTypes ==
    /\ wire \in [Layers -> Value] /\ keaFile \in Value
    /\ keaSnap \in BOOLEAN /\ diskErr \in BOOLEAN

WireInv ==
    /\ WireTypes /\ Progress /\ Bootstrapped /\ PendingRuns /\ SettledIsConfirmed

-----------------------------------------------------------------------------
(* Facts about the definitions *)

\* The constants are told apart.
LEMMA Apart ==
    /\ NoRev \notin Revs /\ NotBlocked \notin Revs \cup {NoRev}
    /\ Clean \notin Config /\ Mixed \notin Config /\ Unknown \notin Config
    /\ Clean # Mixed /\ Clean # Unknown /\ Mixed # Unknown
BY NetworkAssumption DEF NoRev, NotBlocked, Revs

\* Idle is an operation, and so is a job.
LEMMA JobFacts ==
    ASSUME NEW job \in Jobs, NEW r \in Revs \cup {NoRev}, NEW target \in Value
    PROVE  /\ Job(job, r, target) \in Ops
           /\ Job(job, r, target).job = job /\ Job(job, r, target).r = r /\ Job(job, r, target).target = target
           /\ Job(job, r, target).pc = 1
           /\ ~Job(job, r, target).bad
BY DEF Job, Idle, Ops, Value

\* Nothing holds the lock.
LEMMA IdleFacts == Idle \in Ops /\ Idle.job = "idle" /\ Idle.r = NoRev
BY DEF Idle, Ops, Jobs, Value

\* Where an operation writes which layer.
LEMMA AtWhere ==
    ASSUME op \in Ops, Where, NEW layer, At(layer)
    PROVE  /\ op.job # "idle"
           /\ layer = "bridges" => op.pc = 1 /\ op.job \in {"apply", "rollback", "clean", "reconcile"}
           /\ layer = "netplan" => \/ op.job \in {"apply", "clean"} /\ op.pc = 2
                                   \/ op.job = "rollback" /\ op.pc = 5
           /\ layer = "nft" => \/ op.job = "apply" /\ op.pc = 3
                               \/ op.job \in {"rollback", "reconcile"} /\ op.pc = 2
           /\ layer = "dhcp" => \/ op.job \in {"apply", "clean"} /\ op.pc = 4
                                \/ op.job \in {"rollback", "reconcile"} /\ op.pc = 3
           /\ layer = "dns" => \/ op.job = "apply" /\ op.pc = 5
                               \/ op.job = "clean" /\ op.pc = 3
                               \/ op.job \in {"rollback", "reconcile"} /\ op.pc = 4
           /\ layer = "record" => \/ op.job \in {"apply", "rollback"} /\ op.pc = 6
                                  \/ op.job \in {"clean", "reconcile"} /\ op.pc = 5
                                  \/ op.job = "confirm" /\ op.pc = 1
<1>1. op.job \in Jobs /\ op.job # "idle" /\ Order[op.job][op.pc] = layer
  BY DEF Ops, At
<1>2. CASE op.job = "apply"
  <2>1. Order[op.job] = <<"bridges", "netplan", "nft", "dhcp", "dns", "record">>
    BY <1>2 DEF Order
  <2>2. op.pc \in {1, 2, 3, 4, 5, 6}
    BY <1>2 DEF Where
  <2> QED
    BY <1>1, <1>2, <2>1, <2>2
<1>3. CASE op.job = "rollback"
  <2>1. Order[op.job] = <<"bridges", "nft", "dhcp", "dns", "netplan", "record">>
    BY <1>3 DEF Order
  <2>2. op.pc \in {1, 2, 3, 4, 5, 6}
    BY <1>3 DEF Where
  <2> QED
    BY <1>1, <1>3, <2>1, <2>2
<1>4. CASE op.job = "clean"
  <2>1. Order[op.job] = <<"bridges", "netplan", "dns", "dhcp", "record">>
    BY <1>4 DEF Order
  <2>2. op.pc \in {1, 2, 3, 4, 5}
    BY <1>4 DEF Where
  <2> QED
    BY <1>1, <1>4, <2>1, <2>2
<1>5. CASE op.job = "reconcile"
  <2>1. Order[op.job] = <<"bridges", "nft", "dhcp", "dns", "record">>
    BY <1>5 DEF Order
  <2>2. op.pc \in {1, 2, 3, 4, 5}
    BY <1>5 DEF Where
  <2> QED
    BY <1>1, <1>5, <2>1, <2>2
<1>6. CASE op.job = "confirm"
  <2>1. Order[op.job] = <<"record">>
    BY <1>6 DEF Order
  <2>2. op.pc = 1
    BY <1>6 DEF Where
  <2> QED
    BY <1>1, <1>6, <2>1, <2>2
<1> QED
  BY <1>1, <1>2, <1>3, <1>4, <1>5, <1>6 DEF Jobs

\* Going on to the next layer.
LEMMA OnwardFacts ==
    ASSUME op \in Ops, NEW bad \in BOOLEAN, NEW nft \in BOOLEAN
    PROVE  /\ Onward(bad, nft) \in Ops
           /\ Onward(bad, nft).job = op.job /\ Onward(bad, nft).r = op.r /\ Onward(bad, nft).target = op.target
           /\ Onward(bad, nft).pc = op.pc + 1
           /\ Onward(bad, nft).bad <=> op.bad \/ bad
           /\ Onward(bad, nft).nft <=> nft
<1> DEFINE f == [op EXCEPT !.pc = @ + 1]
           g == [f EXCEPT !.bad = @ \/ bad]
<1>1. f \in Ops /\ f.job = op.job /\ f.r = op.r /\ f.target = op.target /\ f.pc = op.pc + 1 /\ f.bad = op.bad
  BY DEF Ops
<1> HIDE DEF f
<1>2. (f.bad \/ bad) \in BOOLEAN
  OBVIOUS
<1>3. g \in Ops /\ g.job = f.job /\ g.r = f.r /\ g.target = f.target /\ g.pc = f.pc /\ g.bad = (f.bad \/ bad)
  BY <1>1, <1>2 DEF Ops
<1>4. Onward(bad, nft) = [g EXCEPT !.nft = nft]
  BY DEF Onward, f
<1> HIDE DEF g
<1>5. /\ [g EXCEPT !.nft = nft] \in Ops
      /\ [g EXCEPT !.nft = nft].job = g.job /\ [g EXCEPT !.nft = nft].r = g.r
      /\ [g EXCEPT !.nft = nft].target = g.target /\ [g EXCEPT !.nft = nft].pc = g.pc
      /\ [g EXCEPT !.nft = nft].bad = g.bad /\ [g EXCEPT !.nft = nft].nft = nft
  BY <1>3 DEF Ops
<1> QED
  BY <1>1, <1>3, <1>4, <1>5

\* The confirmed configuration is the intent of the active revision.
LEMMA ConfirmedIs ==
    /\ Active = {} => Confirmed = Clean
    /\ Active # {} => ActiveRev \in Active /\ Confirmed = intent[ActiveRev]
BY DEF Confirmed, ActiveRev

\* With the same active revisions and the same intents of them, the confirmed configuration is the same.
LEMMA ConfirmedStays ==
    ASSUME Active' = Active, \A r \in Active : intent'[r] = intent[r]
    PROVE  Confirmed' = Confirmed /\ ActiveRev' = ActiveRev
<1>1. ActiveRev' = ActiveRev
  BY DEF ActiveRev
<1> QED
  BY <1>1, ConfirmedIs DEF Confirmed

\* With the same revisions everything read of them is the same.
LEMMA SameRevs ==
    ASSUME rev' = rev, intent' = intent
    PROVE  /\ InFlight' = InFlight /\ Pending' = Pending /\ Active' = Active
           /\ Confirmed' = Confirmed /\ ActiveRev' = ActiveRev
<1>1. InFlight' = InFlight /\ Pending' = Pending /\ Active' = Active
  BY DEF InFlight, Pending, Active
<1> QED
  BY <1>1, ConfirmedStays

-----------------------------------------------------------------------------
(* Kinds of steps, for NetInv *)

kept == <<rev, intent, op, before, inForce, snapshot, blocked, serving>>

\* The first state satisfies the invariant.
LEMMA InitNet == Init => NetInv
<1> SUFFICES ASSUME Init PROVE NetInv
  OBVIOUS
<1>1. rev = [r \in Revs |-> "none"] /\ op = Idle /\ before = Idle /\ inForce = Unknown /\ snapshot = Unknown
  BY DEF Init
<1>2. InFlight = {} /\ Active = {}
  BY <1>1 DEF InFlight, Active
<1>3. NetTypes
  <2>1. serving \in BOOLEAN
    BY DEF Init
  <2> QED
    BY <1>1, <2>1, IdleFacts DEF Init, NetTypes, RevStates, Value
<1>4. Revisions
  BY <1>1, <1>2 DEF Revisions, Init
<1>5. Where /\ Applying /\ RollingBack /\ Reconciling /\ Confirming
  BY <1>1, IdleFacts DEF Where, Applying, RollingBack, Reconciling, Confirming
<1>6. InForceIsSafe /\ FreeIsConfirmed
  BY <1>1, <1>2 DEF InForceIsSafe, FreeIsConfirmed, Safe
<1> QED
  BY <1>3, <1>4, <1>5, <1>6 DEF NetInv

\* A step of a loop or of a waiter that changes nothing of what the invariant speaks of.
LEMMA StillNet ==
    ASSUME NetInv, UNCHANGED kept, todo' = "down" => ~serving'
    PROVE  NetInv'
<1> USE DEF kept
<1>1. /\ InFlight' = InFlight /\ Pending' = Pending /\ Active' = Active /\ Confirmed' = Confirmed
  BY SameRevs
<1>2. Safe' = Safe
  BY <1>1 DEF Safe
<1>3. NetTypes' /\ Where'
  BY DEF NetInv, NetTypes, Where
<1>4. Revisions'
  BY <1>1 DEF NetInv, Revisions
<1>5. Applying' /\ RollingBack' /\ Reconciling' /\ Confirming'
  BY <1>1, <1>2 DEF NetInv, Applying, RollingBack, Reconciling, Confirming
<1>6. InForceIsSafe' /\ FreeIsConfirmed'
  BY <1>1, <1>2 DEF NetInv, InForceIsSafe, FreeIsConfirmed
<1> QED
  BY <1>3, <1>4, <1>5, <1>6 DEF NetInv

\* A process that is gone has nothing in force and no operation.
LEMMA LostNet ==
    ASSUME NetInv, MemoryLost, UNCHANGED <<rev, intent, snapshot>>
    PROVE  NetInv'
<1>1. /\ InFlight' = InFlight /\ Active' = Active /\ Confirmed' = Confirmed
  BY SameRevs
<1>2. op' = Idle /\ before' = Idle /\ inForce' = Unknown /\ serving' = FALSE
  BY DEF MemoryLost
<1>3. NetTypes'
  <2>1. serving' \in BOOLEAN
    BY <1>2
  <2> QED
    BY <1>2, <2>1, IdleFacts DEF NetInv, NetTypes, Value
<1>4. Revisions'
  BY <1>1, <1>2 DEF NetInv, Revisions
<1>5. Where' /\ Applying' /\ RollingBack' /\ Reconciling' /\ Confirming'
  BY <1>2, IdleFacts DEF Where, Applying, RollingBack, Reconciling, Confirming
<1>6. before'.r \notin InFlight'
  BY <1>1, <1>2, IdleFacts, Apart DEF InFlight
<1>7. InForceIsSafe' /\ FreeIsConfirmed'
  BY <1>2, <1>6 DEF InForceIsSafe, FreeIsConfirmed, Safe
<1> QED
  BY <1>3, <1>4, <1>5, <1>7 DEF NetInv

\* A process that starts knows what the file or the history says and serves nothing yet.
LEMMA BootNet ==
    ASSUME NetInv, Boot
    PROVE  NetInv'
<1>1. /\ UNCHANGED <<rev, intent, op, before, inForce, snapshot, serving>> /\ ~serving /\ todo' # "down"
  BY DEF Boot, db, files, NetInv, Revisions
<1>2. /\ InFlight' = InFlight /\ Active' = Active /\ Confirmed' = Confirmed
  BY <1>1, SameRevs
<1>3. Safe' = Safe
  BY <1>1, <1>2 DEF Safe
<1>4. NetTypes' /\ Where'
  BY <1>1 DEF NetInv, NetTypes, Where
<1>5. Revisions'
  BY <1>1, <1>2 DEF NetInv, Revisions
<1>6. Applying' /\ RollingBack' /\ Reconciling' /\ Confirming'
  BY <1>1, <1>2, <1>3 DEF NetInv, Applying, RollingBack, Reconciling, Confirming
<1>7. InForceIsSafe' /\ FreeIsConfirmed'
  BY <1>1, <1>2, <1>3 DEF NetInv, InForceIsSafe, FreeIsConfirmed
<1> QED
  BY <1>4, <1>5, <1>6, <1>7 DEF NetInv

\* What a step that enters or refuses a rollback leaves alone, and what it may put in force.
EnteringFrame ==
    /\ UNCHANGED <<rev, intent, snapshot, serving, todo, before>>
    /\ inForce' \in Value
    /\ before.r \notin InFlight => inForce' \in Safe

\* A rollback begins for a revision in flight.
LEMMA UndoNet ==
    ASSUME NetInv, EnteringFrame, NEW r \in InFlight,
           op' = Undo(r) \/ op' = Job("clean", r, Clean)
    PROVE  NetInv'
<1>1. /\ InFlight' = InFlight /\ Active' = Active /\ Confirmed' = Confirmed
  BY SameRevs DEF EnteringFrame
<1>2. Safe' = Safe
  BY <1>1 DEF Safe, EnteringFrame
<1>3. r \in Revs /\ r # NoRev /\ r \notin Active
  BY Apart DEF InFlight, Active
<1>4. Clean \in Value /\ (Active # {} => Confirmed \in Value)
  BY ConfirmedIs DEF NetInv, Revisions, Value
<1>5. /\ op' \in Ops /\ op'.r = r /\ op'.pc = 1 /\ op'.job \in {"clean", "rollback"}
      /\ op'.job = "clean" => op'.target = Clean
      /\ op'.job = "rollback" => op'.target = Confirmed /\ Active # {}
  <2>1. CASE Active \ {r} = {} \/ op' = Job("clean", r, Clean)
    <3>1. op' = Job("clean", r, Clean)
      BY <2>1 DEF Undo
    <3>2. PICK job \in Jobs : job = "clean"
      BY DEF Jobs
    <3>3. /\ Job(job, r, Clean) \in Ops
          /\ Job(job, r, Clean).job = job /\ Job(job, r, Clean).r = r
          /\ Job(job, r, Clean).target = Clean /\ Job(job, r, Clean).pc = 1
      BY <3>1, <1>3, <1>4, JobFacts
    <3> QED
      BY <3>1, <3>2, <3>3
  <2>2. CASE ~(Active \ {r} = {} \/ op' = Job("clean", r, Clean))
    <3>1. op' = Job("rollback", r, Confirmed) /\ Active # {}
      BY <2>2 DEF Undo
    <3>2. PICK job \in Jobs : job = "rollback"
      BY DEF Jobs
    <3>3. /\ Job(job, r, Confirmed) \in Ops
          /\ Job(job, r, Confirmed).job = job /\ Job(job, r, Confirmed).r = r
          /\ Job(job, r, Confirmed).target = Confirmed /\ Job(job, r, Confirmed).pc = 1
      BY <3>1, <1>3, <1>4, JobFacts
    <3> QED
      BY <3>1, <3>2, <3>3
  <2> QED
    BY <2>1, <2>2
<1>6. NetTypes'
  BY <1>5 DEF NetInv, NetTypes, EnteringFrame
<1>7. Revisions'
  BY <1>1 DEF NetInv, Revisions, EnteringFrame
<1>8. Where' /\ Applying' /\ Reconciling' /\ Confirming'
  BY <1>5 DEF Where, Applying, Reconciling, Confirming
<1>9. RollingBack'
  BY <1>1, <1>5 DEF RollingBack
<1>10. InForceIsSafe' /\ FreeIsConfirmed'
  BY <1>1, <1>2, <1>5 DEF NetInv, InForceIsSafe, FreeIsConfirmed, EnteringFrame
<1> QED
  BY <1>6, <1>7, <1>8, <1>9, <1>10 DEF NetInv

\* An operation stops and further changes are refused.
LEMMA RefusedNet ==
    ASSUME NetInv, EnteringFrame, op' = Idle, blocked' # NotBlocked
    PROVE  NetInv'
<1>1. /\ InFlight' = InFlight /\ Active' = Active /\ Confirmed' = Confirmed
  BY SameRevs DEF EnteringFrame
<1>2. Safe' = Safe
  BY <1>1 DEF Safe, EnteringFrame
<1>3. NetTypes'
  BY IdleFacts DEF NetInv, NetTypes, EnteringFrame
<1>4. Revisions'
  BY <1>1 DEF NetInv, Revisions, EnteringFrame
<1>5. Where' /\ Applying' /\ RollingBack' /\ Reconciling' /\ Confirming'
  BY IdleFacts DEF Where, Applying, RollingBack, Reconciling, Confirming
<1>6. InForceIsSafe' /\ FreeIsConfirmed'
  BY <1>1, <1>2 DEF NetInv, InForceIsSafe, FreeIsConfirmed, EnteringFrame
<1> QED
  BY <1>3, <1>4, <1>5, <1>6 DEF NetInv

\* A rollback begins or is refused.
LEMMA EnterNet ==
    ASSUME NetInv, EnteringFrame, NEW r \in InFlight, NEW faulty, EnterRollback(r, faulty)
    PROVE  NetInv'
<1>1. CASE op' = Undo(r)
  BY <1>1, UndoNet
<1>2. CASE op' = Job("clean", r, Clean)
  BY <1>2, UndoNet
<1>3. CASE op' = Idle /\ Mark(r, TRUE)
  <2>1. blocked' # NotBlocked
    BY <1>3, Apart DEF Mark, InFlight
  <2> QED
    BY <1>3, <2>1, RefusedNet
<1> QED
  BY <1>1, <1>2, <1>3 DEF EnterRollback

\* An operation goes on to a later layer.
LEMMA WentOnNet ==
    ASSUME NetInv, op.job \notin {"idle", "confirm"},
           op' \in Ops, op'.job = op.job, op'.r = op.r, op'.target = op.target, op.bad => op'.bad, Where',
           UNCHANGED <<rev, intent, snapshot, serving, todo, blocked>>,
           inForce' \in Value, before' \in Ops,
           \/ before' = before /\ (before.r \notin InFlight => inForce' \in Safe)
           \/ before' = Idle /\ inForce' \in Safe,
           op.job = "apply" => inForce' = inForce /\ before' = before /\ ~op'.bad,
           op.job = "rollback" /\ op'.pc > 2 => inForce' \in Safe,
           op.job = "rollback" /\ op'.pc > 2 /\ ~op'.bad => inForce' = Confirmed,
           op.job = "clean" /\ op'.pc > 4 => inForce' = Unknown \/ (op'.bad /\ op.r = NoRev),
           op.job = "reconcile" => inForce' = inForce /\ (op'.pc < 5 => op.pc < 5)
    PROVE  NetInv'
<1>1. /\ InFlight' = InFlight /\ Active' = Active /\ Confirmed' = Confirmed
  BY SameRevs
<1>2. Safe' = Safe
  BY <1>1 DEF Safe
<1>3. NetTypes'
  BY DEF NetInv, NetTypes
<1>4. Revisions'
  BY <1>1 DEF NetInv, Revisions
<1>5. Applying' /\ Confirming'
  BY <1>1 DEF NetInv, Applying, Confirming
<1>6. RollingBack'
  BY <1>1, <1>2 DEF NetInv, RollingBack
<1>7. Reconciling'
  BY <1>1 DEF NetInv, Reconciling
<1>8. InForceIsSafe'
  <2>1. Idle.r \notin InFlight
    BY IdleFacts, Apart DEF InFlight
  <2> QED
    BY <1>1, <1>2, <2>1 DEF NetInv, InForceIsSafe
<1>9. FreeIsConfirmed'
  BY DEF FreeIsConfirmed
<1> QED
  BY <1>3, <1>4, <1>5, <1>6, <1>7, <1>8, <1>9 DEF NetInv

-----------------------------------------------------------------------------
(* The layers *)

\* An operation goes on to a later layer.
GoesOn ==
    /\ op' \in Ops /\ op'.job = op.job /\ op'.r = op.r /\ op'.target = op.target
    /\ op.bad => op'.bad
    /\ \/ op'.pc = op.pc + 1
       \/ op'.pc = 5 /\ op'.bad /\ (op.job = "reconcile" \/ (op.job = "clean" /\ op.r = NoRev))
    /\ op.job = "apply" => (op'.bad <=> op.bad)
    /\ blocked' = blocked

\* What the layers leave alone.
LayerFrame == UNCHANGED <<rev, intent, snapshot, serving, todo>>

\* Success goes on.
LEMMA SucceedsGoesOn ==
    ASSUME op \in Ops, NEW nft \in BOOLEAN, op' = Onward(FALSE, nft), blocked' = blocked
    PROVE  GoesOn /\ op'.pc = op.pc + 1 /\ (op'.bad <=> op.bad) /\ (op'.nft <=> nft)
BY OnwardFacts DEF GoesOn

\* A problem that is noted goes on.
LEMMA ProblemGoesOn ==
    ASSUME op \in Ops, NEW nft \in BOOLEAN, op' = Onward(TRUE, nft), blocked' = blocked, op.job # "apply"
    PROVE  GoesOn /\ op'.pc = op.pc + 1 /\ op'.bad
BY OnwardFacts DEF GoesOn

\* A failed layer of another operation than an apply goes on, as a problem.
LEMMA FailsGoesOn ==
    ASSUME op \in Ops, NEW layer, Fails(layer), op.job # "apply"
    PROVE  /\ GoesOn /\ op'.bad
           /\ ~(op.job = "reconcile" /\ layer = "nft") => op'.pc = op.pc + 1
<1> DEFINE f == Onward(TRUE, FALSE)
           at == IF op.job = "reconcile" /\ layer = "nft" THEN Len(Order["reconcile"]) ELSE f.pc
<1>1. /\ f \in Ops /\ f.job = op.job /\ f.r = op.r /\ f.target = op.target /\ f.pc = op.pc + 1 /\ f.bad
  BY OnwardFacts
<1>2. op' = [f EXCEPT !.pc = at] /\ blocked' = blocked
  BY DEF Fails
<1>3. Len(Order["reconcile"]) = 5
  BY DEF Order
<1> HIDE DEF f
<1>4. at \in Nat /\ at = IF op.job = "reconcile" /\ layer = "nft" THEN 5 ELSE op.pc + 1
  BY <1>1, <1>3 DEF Ops
<1> HIDE DEF at
<1>5. /\ op' \in Ops /\ op'.job = f.job /\ op'.r = f.r /\ op'.target = f.target /\ op'.pc = at
      /\ op'.bad <=> f.bad
  BY <1>1, <1>2, <1>4 DEF Ops
<1> QED
  BY <1>1, <1>2, <1>4, <1>5 DEF GoesOn

\* The factory-clean of a start that cannot list the bridges stops there, as a problem.
CleanStops ==
    /\ op.job = "clean" /\ op.r = NoRev
    /\ op' = [Onward(TRUE, FALSE) EXCEPT !.pc = Len(Order["clean"])] /\ blocked' = blocked

\* It goes on, to its record.
LEMMA CleanStopsGoesOn ==
    ASSUME op \in Ops, CleanStops
    PROVE  GoesOn /\ op'.bad
<1> DEFINE f == Onward(TRUE, FALSE)
<1>1. /\ f \in Ops /\ f.job = op.job /\ f.r = op.r /\ f.target = op.target /\ f.bad
  BY OnwardFacts
<1>2. op' = [f EXCEPT !.pc = Len(Order["clean"])] /\ blocked' = blocked /\ op.job = "clean" /\ op.r = NoRev
  BY DEF CleanStops
<1>3. Len(Order["clean"]) = 5
  BY DEF Order
<1> HIDE DEF f
<1>4. op' = [f EXCEPT !.pc = 5]
  BY <1>2, <1>3
<1>5. /\ op' \in Ops /\ op'.job = f.job /\ op'.r = f.r /\ op'.target = f.target /\ op'.pc = 5 /\ op'.bad
  BY <1>1, <1>4 DEF Ops
<1> QED
  BY <1>1, <1>2, <1>5 DEF GoesOn

\* A failed layer of an apply begins its rollback.
LEMMA FailsEnters ==
    ASSUME NEW layer, Fails(layer), op.job = "apply"
    PROVE  EnterRollback(op.r, TRUE)
BY DEF Fails

\* Where an operation is after a layer.
LEMMA GoesOnWhere ==
    ASSUME NetInv, NEW layer \in Layers, At(layer), GoesOn
    PROVE  /\ Where'
           /\ op.job \notin {"idle", "confirm"}
           /\ op.job = "reconcile" => op.pc < 5
           /\ op.job = "clean" /\ layer # "dhcp" => op'.pc <= 4 \/ (op'.bad /\ op.r = NoRev)
           /\ op.job = "rollback" /\ layer = "bridges" => op'.pc = 2
           /\ op.job = "rollback" /\ layer \notin {"bridges", "nft"} => op.pc > 2
<1>1. /\ op \in Ops /\ Where
  BY DEF NetInv, NetTypes
<1>2. layer \in {"bridges", "netplan", "nft", "dhcp", "dns"}
  BY DEF Layers
<1>3. op.job \in {"apply", "rollback", "clean", "reconcile"}
  BY <1>1, <1>2, AtWhere
<1>4. CASE op.job = "apply"
  BY <1>1, <1>2, <1>4, AtWhere DEF GoesOn, Where
<1>5. CASE op.job = "rollback"
  BY <1>1, <1>2, <1>5, AtWhere DEF GoesOn, Where
<1>6. CASE op.job = "clean"
  BY <1>1, <1>2, <1>6, AtWhere DEF GoesOn, Where
<1>7. CASE op.job = "reconcile"
  BY <1>1, <1>2, <1>7, AtWhere DEF GoesOn, Where
<1> QED
  BY <1>3, <1>4, <1>5, <1>6, <1>7

\* A layer that does not touch what is in force.
LEMMA PlainLayerNet ==
    ASSUME NetInv, NEW layer \in {"bridges", "netplan", "dns"}, At(layer), GoesOn,
           LayerFrame, UNCHANGED <<inForce, before>>
    PROVE  NetInv'
<1>1. /\ Where'
      /\ op.job \notin {"idle", "confirm"}
      /\ op.job = "reconcile" => op.pc < 5
      /\ op.job = "clean" => op'.pc <= 4 \/ (op'.bad /\ op.r = NoRev)
      /\ op.job = "rollback" => op'.pc = 2 \/ op.pc > 2
  BY GoesOnWhere DEF Layers
<1>2. inForce' \in Value /\ before' \in Ops
  BY DEF NetInv, NetTypes
<1>3. before.r \notin InFlight => inForce' \in Safe
  BY DEF NetInv, InForceIsSafe
<1>4. op.job = "apply" => ~op'.bad
  BY DEF NetInv, Applying, GoesOn
<1>5. op.job = "rollback" /\ op'.pc > 2 => inForce' \in Safe
  BY <1>1 DEF NetInv, RollingBack
<1>6. op.job = "rollback" /\ op'.pc > 2 /\ ~op'.bad => inForce' = Confirmed
  BY <1>1 DEF NetInv, RollingBack, GoesOn
<1>7. op.job = "clean" => ~(op'.pc > 4) \/ (op'.bad /\ op.r = NoRev)
  BY <1>1 DEF GoesOn, Ops
<1> QED
  BY <1>1, <1>2, <1>3, <1>4, <1>5, <1>6, <1>7, WentOnNet DEF GoesOn, LayerFrame

\* A failed apply keeps the invariant.
LEMMA ApplyFailsNet ==
    ASSUME NetInv, op.job = "apply", EnterRollback(op.r, TRUE), LayerFrame, UNCHANGED before, inForce' \in Value
    PROVE  NetInv'
<1>1. op.r \in InFlight /\ before.r = op.r
  BY DEF NetInv, Applying, InFlight
<1>2. EnteringFrame
  BY <1>1 DEF EnteringFrame, LayerFrame
<1> QED
  BY <1>1, <1>2, EnterNet

\* A plain layer, written or failed.
LEMMA PlainOrFailsNet ==
    ASSUME NetInv, NEW layer \in {"bridges", "netplan", "dns"}, At(layer), Succeeds(layer) \/ Skips(layer) \/ Fails(layer),
           LayerFrame, UNCHANGED <<inForce, before>>
    PROVE  NetInv'
<1>1. op \in Ops /\ op.nft \in BOOLEAN /\ inForce' \in Value
  BY DEF NetInv, NetTypes, Ops
<1>2. CASE Succeeds(layer) \/ Skips(layer)
  <2>1. GoesOn
    BY <1>1, <1>2, SucceedsGoesOn DEF Succeeds, Skips
  <2> QED
    BY <2>1, PlainLayerNet
<1>3. CASE Fails(layer) /\ op.job = "apply"
  BY <1>1, <1>3, FailsEnters, ApplyFailsNet
<1>4. CASE Fails(layer) /\ op.job # "apply"
  <2>1. GoesOn
    BY <1>1, <1>4, FailsGoesOn
  <2> QED
    BY <2>1, PlainLayerNet
<1> QED
  BY <1>2, <1>3, <1>4

\* The bridges.
LEMMA BridgesNet ==
    ASSUME NetInv, Bridges
    PROVE  NetInv'
<1>1. LayerFrame /\ UNCHANGED <<inForce, before>> /\ At("bridges")
  BY DEF Bridges, Kept, NoIntent, LayerFrame, db
<1>2. op \in Ops /\ Where
  BY DEF NetInv, NetTypes
<1>3. CASE Succeeds("bridges") \/ Skips("bridges") \/ Fails("bridges")
  BY <1>1, <1>3, PlainOrFailsNet
<1>4. CASE op' = Onward(TRUE, FALSE) /\ op.job = "reconcile" /\ blocked' = blocked
  <2>1. GoesOn
    BY <1>2, <1>4, ProblemGoesOn
  <2> QED
    BY <1>1, <2>1, PlainLayerNet
<1>5. CASE op.job \in {"rollback", "clean"} /\ op.r # NoRev /\ op' = Idle /\ Mark(op.r, FALSE)
  <2>1. op.r \in Revs
    BY <1>2, <1>5 DEF Ops
  <2>2. blocked' # NotBlocked
    BY <1>5, <2>1, Apart DEF Mark
  <2>3. EnteringFrame
    BY <1>1 DEF EnteringFrame, LayerFrame, NetInv, NetTypes, InForceIsSafe
  <2> QED
    BY <1>5, <2>2, <2>3, RefusedNet
<1>6. CASE CleanStops
  <2>1. GoesOn
    BY <1>2, <1>6, CleanStopsGoesOn
  <2> QED
    BY <1>1, <2>1, PlainLayerNet
<1> QED
  BY <1>3, <1>4, <1>5, <1>6 DEF Bridges, CleanStops

\* The netplan file.
LEMMA NetplanNet ==
    ASSUME NetInv, Netplan
    PROVE  NetInv'
<1>1. LayerFrame /\ UNCHANGED <<inForce, before>> /\ At("netplan")
  BY DEF Netplan, Kept, NoIntent, LayerFrame, db
<1>2. CASE Succeeds("netplan") \/ Fails("netplan")
  BY <1>1, <1>2, PlainOrFailsNet
<1>3. CASE op' = Onward(FALSE, op.nft) /\ blocked' = blocked
  <2>1. GoesOn
    BY <1>3, SucceedsGoesOn DEF NetInv, NetTypes, Ops
  <2> QED
    BY <1>1, <2>1, PlainLayerNet
<1> QED
  BY <1>2, <1>3 DEF Netplan

\* The resolver.
LEMMA DnsNet ==
    ASSUME NetInv, Dns
    PROVE  NetInv'
<1>1. LayerFrame /\ UNCHANGED <<inForce, before>> /\ At("dns")
  BY DEF Dns, Kept, NoIntent, LayerFrame, db
<1>2. Succeeds("dns") \/ Skips("dns") \/ Fails("dns")
  BY DEF Dns
<1> QED
  BY <1>1, <1>2, PlainOrFailsNet

\* The firewall: a rollback puts its target in force, or abandons the rejected intent.
LEMMA NftNet ==
    ASSUME NetInv, Nft
    PROVE  NetInv'
<1>1. LayerFrame /\ At("nft")
  BY DEF Nft, Kept, LayerFrame, db
<1>2. op \in Ops /\ Where /\ op.target \in Value /\ op.job \in {"apply", "rollback", "reconcile"}
  <2>1. op \in Ops /\ Where
    BY DEF NetInv, NetTypes
  <2> QED
    BY <1>1, <2>1, AtWhere DEF Ops
<1>3. before \in Ops /\ Idle \in Ops
  BY IdleFacts DEF NetInv, NetTypes
<1>4. op.job = "rollback" => op.target = Confirmed /\ op.r \in InFlight
  BY DEF NetInv, RollingBack
<1>5. op.job \in {"apply", "reconcile"} => inForce = op.target
  <2>1. op.job = "reconcile" => op.pc < 5
    BY <1>1, <1>2, AtWhere
  <2> QED
    BY <2>1 DEF NetInv, Applying, Reconciling
<1>6. op.job = "apply" => ~op.bad /\ before.r \in InFlight
  BY DEF NetInv, Applying, InFlight
<1>7. \/ before.r \in InFlight
      \/ inForce \in Safe
  BY DEF NetInv, InForceIsSafe
<1>8. ASSUME GoesOn, inForce' = op.target, before' = before, op.job = "rollback" \/ inForce' = inForce
      PROVE  NetInv'
  <2>1. /\ Where' /\ op.job \notin {"idle", "confirm"}
        /\ op.job = "reconcile" => op.pc < 5
    BY <1>1, <1>8, GoesOnWhere DEF Layers
  <2>2. before.r \notin InFlight => inForce' \in Safe
    BY <1>4, <1>7, <1>8 DEF Safe
  <2>3. op.job = "rollback" => inForce' = Confirmed /\ inForce' \in Safe
    BY <1>4, <1>8 DEF Safe
  <2>4. op.job = "apply" => inForce' = inForce /\ before' = before /\ ~op'.bad
    BY <1>5, <1>6, <1>8 DEF GoesOn
  <2>5. op.job = "reconcile" => inForce' = inForce /\ op.pc < 5
    BY <1>5, <1>8, <2>1
  <2>6. inForce' \in Value /\ before' \in Ops
    BY <1>2, <1>3, <1>8
  <2> QED
    BY <1>1, <1>2, <1>8, <2>1, <2>2, <2>3, <2>4, <2>5, <2>6, WentOnNet DEF GoesOn, LayerFrame
<1>9. CASE op' = Onward(FALSE, TRUE) /\ inForce' = op.target /\ UNCHANGED <<before, blocked>>
  <2>1. GoesOn
    BY <1>2, <1>9, SucceedsGoesOn
  <2> QED
    BY <1>2, <1>5, <1>8, <1>9, <2>1
<1>10. CASE Fails("nft") /\ inForce' = op.target /\ UNCHANGED before
  <2>1. CASE op.job = "apply"
    BY <1>1, <1>2, <1>10, <2>1, FailsEnters, ApplyFailsNet
  <2>2. CASE op.job # "apply"
    <3>1. GoesOn
      BY <1>2, <1>10, <2>2, FailsGoesOn
    <3> QED
      BY <1>2, <1>5, <1>8, <1>10, <3>1
  <2> QED
    BY <2>1, <2>2
<1>11. CASE op.job = "rollback" /\ Fails("nft") /\ inForce' = Abandoned(op.r) /\ before' = Idle
  <2>1. GoesOn /\ op'.bad
    BY <1>2, <1>11, FailsGoesOn
  <2>2. Where'
    BY <1>1, <2>1, GoesOnWhere DEF Layers
  <2>3. inForce' \in Safe
    <3>1. CASE before.r = op.r
      BY <1>4, <1>11, <3>1 DEF Abandoned, NetInv, InForceIsSafe, Safe
    <3>2. CASE before.r # op.r
      <4>1. before.r \notin InFlight
        BY <1>4, <1>11, <3>2 DEF NetInv, Revisions
      <4> QED
        BY <1>7, <1>11, <3>2, <4>1 DEF Abandoned
    <3> QED
      BY <3>1, <3>2
  <2>4. inForce' \in Value
    <3>1. before.target \in Value /\ inForce \in Value
      BY <1>3 DEF Ops, NetInv, NetTypes
    <3> QED
      BY <1>11, <3>1 DEF Abandoned
  <2> QED
    BY <1>1, <1>3, <1>11, <2>1, <2>2, <2>3, <2>4, WentOnNet DEF GoesOn, LayerFrame
<1> QED
  BY <1>9, <1>10, <1>11 DEF Nft

\* The DHCP server: factory-clean puts nothing in force.
LEMMA DhcpNet ==
    ASSUME NetInv, Dhcp
    PROVE  NetInv'
<1>1. LayerFrame /\ At("dhcp") /\ UNCHANGED before
  BY DEF Dhcp, Kept, LayerFrame, db
<1>2. op \in Ops /\ Where /\ op.nft \in BOOLEAN
  BY DEF NetInv, NetTypes, Ops
<1>3. inForce' = IF op.job = "clean" THEN Unknown ELSE inForce
  BY DEF Dhcp
<1>4. inForce' \in Value /\ before' \in Ops
  BY <1>1, <1>3 DEF NetInv, NetTypes, Value
<1>5. Succeeds("dhcp") \/ Skips("dhcp") \/ Fails("dhcp")
  BY DEF Dhcp, DhcpOfApply, DhcpOfRestore, DhcpOfClean
<1>6. ASSUME GoesOn
      PROVE  NetInv'
  <2>1. /\ Where' /\ op.job \notin {"idle", "confirm"}
        /\ op.job = "reconcile" => op.pc < 5
        /\ op.job = "rollback" => op.pc > 2
    BY <1>1, <1>6, GoesOnWhere DEF Layers
  <2>2. before.r \notin InFlight => inForce' \in Safe
    BY <1>3 DEF NetInv, InForceIsSafe, Safe
  <2>3. op.job = "rollback" => inForce' \in Safe /\ (~op'.bad => inForce' = Confirmed)
    BY <1>3, <1>6, <2>1 DEF NetInv, RollingBack, GoesOn
  <2>4. op.job = "apply" => inForce' = inForce /\ ~op'.bad
    BY <1>3, <1>6 DEF NetInv, Applying, GoesOn
  <2>5. op.job = "clean" => inForce' = Unknown
    BY <1>3
  <2>6. op.job = "reconcile" => inForce' = inForce
    BY <1>3
  <2> QED
    BY <1>1, <1>4, <1>6, <2>1, <2>2, <2>3, <2>4, <2>5, <2>6, WentOnNet DEF GoesOn, LayerFrame
<1>7. CASE Succeeds("dhcp") \/ Skips("dhcp")
  BY <1>2, <1>6, <1>7, SucceedsGoesOn DEF Succeeds, Skips
<1>8. CASE Fails("dhcp") /\ op.job = "apply"
  BY <1>1, <1>4, <1>8, FailsEnters, ApplyFailsNet
<1>9. CASE Fails("dhcp") /\ op.job # "apply"
  BY <1>2, <1>6, <1>9, FailsGoesOn
<1> QED
  BY <1>5, <1>7, <1>8, <1>9

-----------------------------------------------------------------------------
(* Beginnings and ends *)

\* An operation ends and changes are decided as they were, or the block stays or grows.
LEMMA EndedNet ==
    ASSUME NetInv, op' = Idle, UNCHANGED <<rev, intent>>,
           before' \in Ops, before' = before \/ before' = Idle,
           inForce' = inForce, snapshot' \in Config \cup {Unknown}, serving' \in BOOLEAN,
           todo' = "down" => ~serving',
           snapshot' # Unknown => Active # {},
           before' = before \/ inForce \in {Confirmed, snapshot', Unknown},
           before.r \notin InFlight => inForce \in {Confirmed, snapshot', Unknown},
           serving' /\ blocked' = NotBlocked => inForce \in {Confirmed, Unknown}
    PROVE  NetInv'
<1>1. /\ InFlight' = InFlight /\ Active' = Active /\ Confirmed' = Confirmed
  BY SameRevs
<1>2. NetTypes'
  BY IdleFacts DEF NetInv, NetTypes
<1>3. Revisions'
  BY <1>1 DEF NetInv, Revisions
<1>4. Where' /\ Applying' /\ RollingBack' /\ Reconciling' /\ Confirming'
  BY IdleFacts DEF Where, Applying, RollingBack, Reconciling, Confirming
<1>5. Idle.r \notin InFlight
  BY IdleFacts, Apart DEF InFlight
<1>6. InForceIsSafe'
  BY <1>1, <1>5 DEF NetInv, InForceIsSafe, Safe
<1>7. FreeIsConfirmed'
  BY <1>1 DEF FreeIsConfirmed
<1> QED
  BY <1>2, <1>3, <1>4, <1>6, <1>7 DEF NetInv

\* A refused apply.
LEMMA RejectNet ==
    ASSUME NetInv, NEW r \in Revs, RejectApply(r)
    PROVE  NetInv'
<1>1. /\ rev[r] = "none" /\ rev' = [rev EXCEPT ![r] = "failed"] /\ rev \in [Revs -> RevStates]
      /\ UNCHANGED <<intent, op, before, inForce, snapshot, blocked, serving, todo>>
      /\ op = Idle
  BY DEF RejectApply, Free, NetInv, NetTypes, memory, files, MayApply, LockFree
<1>2. InFlight' = InFlight /\ Pending' = Pending /\ Active' = Active
  BY <1>1 DEF InFlight, Pending, Active
<1>3. Confirmed' = Confirmed
  BY <1>1, <1>2, ConfirmedStays
<1>4. NetTypes'
  BY <1>1 DEF NetInv, NetTypes, RevStates
<1>5. Revisions'
  BY <1>1, <1>2 DEF NetInv, Revisions
<1>6. Where' /\ Applying' /\ RollingBack' /\ Reconciling' /\ Confirming'
  BY <1>1, IdleFacts DEF Where, Applying, RollingBack, Reconciling, Confirming
<1>7. InForceIsSafe' /\ FreeIsConfirmed'
  BY <1>1, <1>2, <1>3 DEF NetInv, InForceIsSafe, FreeIsConfirmed, Safe
<1> QED
  BY <1>4, <1>5, <1>6, <1>7 DEF NetInv

\* An apply begins where nothing is in flight, and remembers what was in force.
LEMMA BeginApplyNet ==
    ASSUME NetInv, NEW r \in Revs, NEW c \in Config, BeginApply(r, c)
    PROVE  NetInv'
<1>1. /\ rev[r] = "none" /\ rev' = [rev EXCEPT ![r] = "applying"] /\ rev \in [Revs -> RevStates]
      /\ intent' = [intent EXCEPT ![r] = c] /\ intent \in [Revs -> Config \cup {Clean}]
      /\ before' = Job("apply", r, inForce) /\ op' = Job("apply", r, c) /\ inForce' = c
      /\ UNCHANGED <<snapshot, blocked, serving, todo>>
      /\ op = Idle /\ serving /\ blocked = NotBlocked /\ InFlight = {}
  BY DEF BeginApply, Free, NetInv, NetTypes, files, MayApply, LockFree
<1>2. InFlight' = {r} /\ Active' = Active /\ r \notin Active
  BY <1>1 DEF InFlight, Active
<1>3. Confirmed' = Confirmed
  BY <1>1, <1>2, ConfirmedStays
<1>4. PICK job \in Jobs : job = "apply"
  BY DEF Jobs
<1>5. inForce \in Value /\ c \in Value
  BY DEF NetInv, NetTypes, Value
<1>6. /\ op' \in Ops /\ op'.job = "apply" /\ op'.r = r /\ op'.target = c /\ op'.pc = 1 /\ ~op'.bad
  BY <1>1, <1>4, <1>5, JobFacts
<1>7. before' \in Ops /\ before'.r = r /\ before'.target = inForce
  BY <1>1, <1>4, <1>5, JobFacts
<1>8. inForce \in {Confirmed, Unknown}
  BY <1>1, IdleFacts DEF NetInv, FreeIsConfirmed, Pending, InFlight
<1>9. NetTypes'
  BY <1>1, <1>5, <1>6, <1>7 DEF NetInv, NetTypes, RevStates
<1>10. Revisions'
  BY <1>1, <1>2 DEF NetInv, Revisions
<1>11. Where' /\ RollingBack' /\ Reconciling' /\ Confirming'
  BY <1>6 DEF Where, RollingBack, Reconciling, Confirming
<1>12. Applying'
  BY <1>1, <1>6, <1>7 DEF Applying
<1>13. InForceIsSafe' /\ FreeIsConfirmed'
  BY <1>1, <1>2, <1>3, <1>6, <1>7, <1>8 DEF InForceIsSafe, FreeIsConfirmed
<1> QED
  BY <1>9, <1>10, <1>11, <1>12, <1>13 DEF NetInv

\* A decided rollback takes the lock.
LEMMA RollbackBeginNet ==
    ASSUME NetInv, NEW who, NEW r \in Revs, RollbackBegin(who, r)
    PROVE  NetInv'
<1>1. /\ UNCHANGED <<rev, intent, snapshot, serving, todo, before, inForce>> /\ op = Idle
  BY DEF RollbackBegin, db, LockFree
<1>2. EnteringFrame
  BY <1>1 DEF EnteringFrame, NetInv, NetTypes, InForceIsSafe
<1>3. CASE StillInFlight(r)
  <2>1. PICK faulty \in BOOLEAN : EnterRollback(r, faulty)
    BY <1>3 DEF RollbackBegin
  <2> QED
    BY <1>2, <1>3, <2>1, EnterNet DEF StillInFlight
<1>4. CASE ~StillInFlight(r)
  <2>1. op' = Idle /\ (blocked' = blocked \/ blocked' = r)
    BY <1>4 DEF RollbackBegin, Mark
  <2>2. CASE blocked' = r
    BY <1>2, <2>1, <2>2, RefusedNet, Apart
  <2>3. CASE blocked' = blocked
    BY <1>1, <2>1, <2>3, StillNet DEF kept, NetInv, Revisions
  <2> QED
    BY <2>1, <2>2, <2>3
<1> QED
  BY <1>3, <1>4

\* A confirmed revision is the active one.
LEMMA ConfirmRevs ==
    ASSUME NetInv, NEW r \in Revs, Confirm(r)
    PROVE  /\ Active' = {r} /\ InFlight' = {} /\ Confirmed' = intent[r]
           /\ intent[r] \in Config /\ inForce = intent[r] /\ rev' \in [Revs -> RevStates]
           /\ op = Idle /\ serving /\ blocked = NotBlocked /\ r \in Pending
           /\ UNCHANGED <<intent, inForce, before, snapshot, blocked, serving, todo>>
<1>1. /\ rev \in [Revs -> RevStates] /\ rev[r] = "pending" /\ inForce = intent[r] /\ op = Idle /\ serving
      /\ blocked = NotBlocked /\ r \in Pending /\ r \in InFlight
      /\ UNCHANGED <<intent, inForce, before, snapshot, blocked, serving, todo>>
      /\ rev' = [s \in Revs |-> IF s = r THEN "active" ELSE IF s \in Active THEN "superseded" ELSE rev[s]]
  BY DEF Confirm, NetInv, NetTypes, Pending, InFlight, RunningIs, LockFree, files
<1>2. \A s \in Revs : s # r => s \notin InFlight
  BY <1>1 DEF NetInv, Revisions
<1>3. Active' = {r}
  BY <1>1 DEF Active
<1>4. InFlight' = {}
  BY <1>1, <1>2 DEF InFlight
<1>5. ActiveRev' = r
  BY <1>3 DEF ActiveRev
<1>6. Confirmed' = intent[r]
  BY <1>1, <1>3, <1>5 DEF Confirmed
<1>7. intent[r] \in Config
  BY <1>1 DEF NetInv, Revisions
<1>8. rev' \in [Revs -> RevStates]
  BY <1>1 DEF RevStates
<1> QED
  BY <1>1, <1>3, <1>4, <1>6, <1>7, <1>8

\* A confirmation begins.
LEMMA ConfirmNet ==
    ASSUME NetInv, NEW r \in Revs, Confirm(r)
    PROVE  NetInv'
<1>1. /\ Active' = {r} /\ InFlight' = {} /\ Confirmed' = intent[r]
      /\ intent[r] \in Config /\ inForce = intent[r] /\ rev' \in [Revs -> RevStates]
      /\ UNCHANGED <<intent, inForce, before, snapshot, blocked, serving, todo>>
  BY ConfirmRevs
<1>2. op' = Job("confirm", r, intent[r])
  BY DEF Confirm
<1>3. PICK job \in Jobs : job = "confirm"
  BY DEF Jobs
<1>4. intent[r] \in Value
  BY <1>1 DEF Value
<1>5. op' \in Ops /\ op'.job = "confirm" /\ op'.pc = 1
  BY <1>2, <1>3, <1>4, JobFacts
<1>6. NetTypes'
  BY <1>1, <1>5 DEF NetInv, NetTypes
<1>7. Revisions'
  BY <1>1 DEF NetInv, Revisions
<1>8. Where' /\ Applying' /\ RollingBack' /\ Reconciling'
  BY <1>5 DEF Where, Applying, RollingBack, Reconciling
<1>9. Confirming'
  BY <1>1 DEF Confirming
<1>10. InForceIsSafe' /\ FreeIsConfirmed'
  BY <1>1, <1>5 DEF InForceIsSafe, FreeIsConfirmed, Safe
<1> QED
  BY <1>6, <1>7, <1>8, <1>9, <1>10 DEF NetInv

\* A confirmation ends.
LEMMA ConfirmFilesNet ==
    ASSUME NetInv, ConfirmFiles
    PROVE  NetInv'
<1>1. /\ op' = Idle /\ before' = Idle /\ UNCHANGED <<rev, intent, inForce, serving, todo, blocked>>
      /\ snapshot' \in {snapshot, Confirmed} /\ op.job = "confirm"
  BY DEF ConfirmFiles, db
<1>2. inForce = Confirmed /\ Active # {}
  BY <1>1 DEF NetInv, Confirming
<1>3. Confirmed \in Config
  BY <1>2, ConfirmedIs DEF NetInv, Revisions
<1>4. /\ snapshot' \in Config \cup {Unknown} /\ serving' \in BOOLEAN /\ (todo' = "down" => ~serving')
      /\ before' \in Ops
  BY <1>1, <1>3, IdleFacts DEF NetInv, NetTypes, Revisions
<1> QED
  BY <1>1, <1>2, <1>4, EndedNet

\* An apply is recorded, or rolled back when it cannot be.
LEMMA ApplyRecordNet ==
    ASSUME NetInv, ApplyRecord
    PROVE  NetInv'
<1>1. op.job = "apply" /\ UNCHANGED <<intent, snapshot, serving, todo, inForce, before>>
  BY DEF ApplyRecord
<1>2. op.r \in Revs /\ rev[op.r] = "applying" /\ before.r = op.r /\ rev \in [Revs -> RevStates]
  BY <1>1 DEF NetInv, Applying, NetTypes
<1>3. CASE op' = Idle /\ rev' = [rev EXCEPT ![op.r] = "pending"] /\ blocked' = blocked
  <2>1. InFlight' = InFlight /\ Active' = Active
    BY <1>2, <1>3 DEF InFlight, Active
  <2>2. Confirmed' = Confirmed
    BY <1>1, <2>1, ConfirmedStays
  <2>3. before.r \in InFlight /\ Pending' # {}
    BY <1>2, <1>3 DEF InFlight, Pending
  <2>4. NetTypes'
    BY <1>1, <1>2, <1>3, IdleFacts DEF NetInv, NetTypes, RevStates
  <2>5. Revisions'
    BY <1>1, <2>1 DEF NetInv, Revisions
  <2>6. Where' /\ Applying' /\ RollingBack' /\ Reconciling' /\ Confirming'
    BY <1>3, IdleFacts DEF Where, Applying, RollingBack, Reconciling, Confirming
  <2>7. InForceIsSafe' /\ FreeIsConfirmed'
    BY <1>1, <2>1, <2>2, <2>3 DEF NetInv, InForceIsSafe, FreeIsConfirmed
  <2> QED
    BY <2>4, <2>5, <2>6, <2>7 DEF NetInv
<1>4. CASE EnterRollback(op.r, TRUE) /\ rev' = rev
  <2>1. LayerFrame /\ UNCHANGED before /\ inForce' \in Value
    BY <1>1, <1>4 DEF LayerFrame, NetInv, NetTypes
  <2> QED
    BY <1>1, <1>4, <2>1, ApplyFailsNet
<1> QED
  BY <1>3, <1>4 DEF ApplyRecord

\* What is in force at the end of a rollback.
LEMMA RollbackEnd ==
    ASSUME NetInv, At("record"), op.job \in {"rollback", "clean"}
    PROVE  /\ op.r # NoRev => inForce \in Safe
           /\ ~op.bad => inForce \in {Confirmed, Unknown}
           /\ op.r # NoRev => op.r \in InFlight
<1>1. op \in Ops /\ Where
  BY DEF NetInv, NetTypes
<1>2. op.job = "rollback" => op.pc = 6
  BY <1>1, AtWhere
<1>3. op.job = "clean" => op.pc = 5
  BY <1>1, AtWhere
<1> QED
  BY <1>2, <1>3 DEF NetInv, RollingBack, Safe

\* The record of a rollback.
LEMMA RollbackRecordNet ==
    ASSUME NetInv, RollbackRecord
    PROVE  NetInv'
<1>1. /\ op' = Idle /\ before' = Idle /\ UNCHANGED <<intent, snapshot, serving, todo, inForce>>
      /\ At("record") /\ op.job \in {"rollback", "clean"} /\ op.r # NoRev
      /\ rev' = rev \/ rev' = [rev EXCEPT ![op.r] = "rolled_back"]
  BY DEF RollbackRecord
<1>2. inForce \in Safe /\ (~op.bad => inForce \in {Confirmed, Unknown}) /\ op.r \in InFlight
  BY <1>1, RollbackEnd
<1>3. op.bad => blocked' # NotBlocked
  BY <1>2, Apart DEF RollbackRecord, Mark, InFlight
<1>4. /\ rev \in [Revs -> RevStates] /\ op.r \in Revs
  BY <1>2 DEF NetInv, NetTypes, InFlight
<1>5. InFlight' \in SUBSET InFlight /\ Active' = Active
  BY <1>1, <1>2, <1>4 DEF InFlight, Active
<1>6. Confirmed' = Confirmed
  BY <1>1, <1>5, ConfirmedStays
<1>7. NetTypes'
  BY <1>1, <1>4, IdleFacts DEF NetInv, NetTypes, RevStates
<1>8. Revisions'
  BY <1>1, <1>5 DEF NetInv, Revisions
<1>9. Where' /\ Applying' /\ RollingBack' /\ Reconciling' /\ Confirming'
  BY <1>1, IdleFacts DEF Where, Applying, RollingBack, Reconciling, Confirming
<1>10. before'.r \notin InFlight'
  BY <1>1, <1>5, IdleFacts, Apart DEF InFlight
<1>11. InForceIsSafe' /\ FreeIsConfirmed'
  BY <1>1, <1>2, <1>3, <1>6, <1>10 DEF InForceIsSafe, FreeIsConfirmed, Safe
<1> QED
  BY <1>7, <1>8, <1>9, <1>11 DEF NetInv

\* The record of a reconcile.
LEMMA ReconcileRecordNet ==
    ASSUME NetInv, ReconcileRecord
    PROVE  NetInv'
<1>1. /\ op' = Idle /\ todo' = "none" /\ serving' = TRUE /\ UNCHANGED <<rev, intent, snapshot, inForce, before>>
      /\ At("record") /\ op.job \in {"reconcile", "clean"}
  BY DEF ReconcileRecord
<1>2. ActiveRev # NotBlocked
  BY ConfirmedIs, Apart DEF ActiveRev, Active
<1>3. op.bad => blocked' # NotBlocked
  BY <1>2 DEF ReconcileRecord, Mark
<1>4. ~op.bad => inForce \in {Confirmed, Unknown}
  BY <1>1, RollbackEnd DEF NetInv, Reconciling
<1>5. before.r \notin InFlight => inForce \in Safe
  BY DEF NetInv, InForceIsSafe
<1>6. serving' \in BOOLEAN
  BY <1>1
<1>7. before' \in Ops /\ snapshot' \in Config \cup {Unknown} /\ (snapshot' # Unknown => Active # {})
  BY <1>1 DEF NetInv, NetTypes, Revisions
<1> QED
  BY <1>1, <1>3, <1>4, <1>5, <1>6, <1>7, EndedNet DEF Safe

\* A reconcile begins: towards the confirmed configuration, or towards the snapshot as a problem.
LEMMA ReconcileBeginNet ==
    ASSUME NetInv, ReconcileBegin
    PROVE  NetInv'
<1>1. UNCHANGED <<rev, intent, todo, serving, before, blocked>>
  BY DEF ReconcileBegin, db
<1>2. /\ InFlight' = InFlight /\ Active' = Active /\ Confirmed' = Confirmed
  BY <1>1, SameRevs
<1>3. ASSUME op' \in Ops, op'.job \in {"clean", "reconcile"}, op'.r = NoRev, op'.pc \in 1 .. 5,
             op'.job = "clean" => op'.target = Clean /\ op'.pc = 1,
             inForce' \in Value, snapshot' \in Config \cup {Unknown}, snapshot' # Unknown => Active # {},
             (inForce' = inForce /\ snapshot' = snapshot) \/ inForce' \in {Confirmed, snapshot'},
             op'.job = "reconcile" /\ op'.pc < 5 =>
                /\ Active # {} /\ op'.target \in {Confirmed, snapshot'} /\ inForce' = op'.target
                /\ op'.target # Unknown,
             op'.job = "reconcile" /\ ~op'.bad => Active # {} /\ op'.target = Confirmed /\ inForce' = Confirmed
      PROVE  NetInv'
  <2>1. NetTypes'
    BY <1>1, <1>3 DEF NetInv, NetTypes
  <2>2. Revisions'
    BY <1>1, <1>2, <1>3 DEF NetInv, Revisions
  <2>3. Where' /\ Applying' /\ Confirming'
    BY <1>3 DEF Where, Applying, Confirming
  <2>4. RollingBack'
    BY <1>3 DEF RollingBack
  <2>5. Reconciling'
    BY <1>2, <1>3 DEF Reconciling
  <2>6. InForceIsSafe'
    BY <1>1, <1>2, <1>3 DEF NetInv, InForceIsSafe, Safe
  <2>7. FreeIsConfirmed'
    BY <1>3 DEF FreeIsConfirmed
  <2> QED
    BY <2>1, <2>2, <2>3, <2>4, <2>5, <2>6, <2>7 DEF NetInv
<1>4. /\ inForce \in Value /\ snapshot \in Config \cup {Unknown} /\ (snapshot # Unknown => Active # {})
      /\ snapshot \in Value /\ Clean \in Value
  BY DEF NetInv, NetTypes, Revisions, Value
<1>5. Active # {} => Confirmed \in Config /\ Confirmed \in Value /\ Confirmed # Unknown
  BY ConfirmedIs, Apart DEF NetInv, Revisions, Value
<1>6. PICK j \in Jobs, k \in Jobs : j = "clean" /\ k = "reconcile"
  BY DEF Jobs
<1>7. CASE Active = {} /\ op' = Job("clean", NoRev, Clean) /\ UNCHANGED <<snapshot, inForce>>
  <2>1. op' \in Ops /\ op'.job = "clean" /\ op'.r = NoRev /\ op'.target = Clean /\ op'.pc = 1 /\ ~op'.bad
    BY <1>4, <1>6, <1>7, JobFacts
  <2> QED
    BY <1>3, <1>4, <1>7, <2>1
<1>8. CASE /\ Active # {} /\ op' = Job("reconcile", NoRev, Confirmed) /\ inForce' = Confirmed
           /\ snapshot' \in {snapshot, Confirmed}
  <2>1. op' \in Ops /\ op'.job = "reconcile" /\ op'.r = NoRev /\ op'.target = Confirmed /\ op'.pc = 1 /\ ~op'.bad
    BY <1>5, <1>6, <1>8, JobFacts
  <2> QED
    BY <1>3, <1>4, <1>5, <1>8, <2>1
<1>9. CASE /\ snapshot # Unknown /\ op' = [Job("reconcile", NoRev, snapshot) EXCEPT !.bad = TRUE]
           /\ inForce' = snapshot /\ UNCHANGED snapshot
  <2>1. PICK f \in Ops : /\ f = Job("reconcile", NoRev, snapshot)
                         /\ f.job = "reconcile" /\ f.r = NoRev /\ f.target = snapshot /\ f.pc = 1
    BY <1>4, <1>6, JobFacts
  <2>2. op' \in Ops /\ op'.job = "reconcile" /\ op'.r = NoRev /\ op'.target = snapshot /\ op'.pc = 1 /\ op'.bad
    BY <1>9, <2>1 DEF Ops
  <2> QED
    BY <1>3, <1>4, <1>9, <2>2
<1>10. CASE /\ op' = [Job("reconcile", NoRev, Clean) EXCEPT !.bad = TRUE, !.pc = Len(Order["reconcile"])]
            /\ UNCHANGED <<snapshot, inForce>>
  <2>1. PICK f \in Ops : f = Job("reconcile", NoRev, Clean) /\ f.job = "reconcile" /\ f.r = NoRev
    BY <1>4, <1>6, JobFacts
  <2> DEFINE g == [f EXCEPT !.bad = TRUE]
  <2>2. g \in Ops /\ g.job = "reconcile" /\ g.r = NoRev /\ g.bad
    BY <2>1 DEF Ops
  <2>3. Len(Order["reconcile"]) = 5
    BY DEF Order
  <2>4. op' = [g EXCEPT !.pc = 5]
    BY <1>10, <2>1, <2>3
  <2> HIDE DEF g
  <2>5. op' \in Ops /\ op'.job = "reconcile" /\ op'.r = NoRev /\ op'.pc = 5 /\ op'.bad
    BY <2>2, <2>4 DEF Ops
  <2>6. op'.pc \in 1 .. 5 /\ ~(op'.pc < 5)
    BY <2>5
  <2>7. inForce' \in Value /\ snapshot' \in Config \cup {Unknown} /\ (snapshot' # Unknown => Active # {})
    BY <1>4, <1>10
  <2> QED
    BY <1>3, <1>10, <2>5, <2>6, <2>7
<1> QED
  BY <1>7, <1>8, <1>9, <1>10 DEF ReconcileBegin

\* Every step keeps the invariant.
LEMMA NextNet == NetInv /\ [Next]_vars => NetInv'
<1> SUFFICES ASSUME NetInv, [Next]_vars PROVE NetInv'
  OBVIOUS
<1>1. CASE UNCHANGED vars
  BY <1>1, StillNet DEF vars, kept, NetInv, Revisions
<1>2. ASSUME NEW r \in Revs, RejectApply(r) PROVE NetInv'
  BY <1>2, RejectNet
<1>3. ASSUME NEW r \in Revs, Confirm(r) PROVE NetInv'
  BY <1>3, ConfirmNet
<1>4. ASSUME NEW r \in Revs, WatchdogDecides(r) \/ OperatorDecides(r) \/ OperatorGivesUp(r) PROVE NetInv'
  BY <1>4, StillNet DEF WatchdogDecides, OperatorDecides, OperatorGivesUp, Ask, db, files, kept, NetInv, Revisions
<1>5. ASSUME NEW r \in Revs, NEW c \in Config, BeginApply(r, c) PROVE NetInv'
  BY <1>5, BeginApplyNet
<1>6. ASSUME NEW r \in Revs, NEW who \in Who, RollbackBegin(who, r) PROVE NetInv'
  BY <1>6, RollbackBeginNet
<1>7. CASE LayerStep
  BY <1>7, BridgesNet, NetplanNet, NftNet, DhcpNet, DnsNet DEF LayerStep
<1>8. CASE RecordStep
  BY <1>8, ApplyRecordNet, RollbackRecordNet, ReconcileRecordNet, ConfirmFilesNet DEF RecordStep
<1>9. CASE DeadlinePasses \/ NftTick \/ PortalRefresh
  BY <1>9, StillNet DEF DeadlinePasses, NftTick, PortalRefresh, db, files, memory, kept, NetInv, Revisions
<1>10. CASE Recover \/ Reassert \/ Reclaim
  BY <1>10, StillNet DEF Recover, Reassert, Reclaim, db, files, kept
<1>11. CASE ReconcileBegin
  BY <1>11, ReconcileBeginNet
<1>12. CASE Crash \/ Reboot
  BY <1>12, LostNet DEF Crash, Reboot, db, files
<1>13. CASE Boot
  BY <1>13, BootNet
<1> QED
  BY <1>1, <1>2, <1>3, <1>4, <1>5, <1>6, <1>7, <1>8, <1>9, <1>10, <1>11, <1>12, <1>13 DEF Next

\* For every operation: which revision it works for, where it goes and what it leaves in force, through failures,
\* crashes and restarts at any step, also where a rollback does not notice that it cannot read its target.
THEOREM NetworkInvariance == Spec => []NetInv
<1>1. Init => NetInv
  BY InitNet
<1>2. NetInv /\ [Next]_vars => NetInv'
  BY NextNet
<1> QED
  BY <1>1, <1>2, PTL DEF Spec

\* A rejected configuration is never left for the firewall loop to install: with nothing in flight, or with only an
\* interrupted apply and no block, what is in force is the confirmed configuration, the stand-in snapshot of one, or
\* nothing (abandonRejectedIntent, applyInflight).
THEOREM RejectedNotRendered == Spec => []RejectedIsNotRendered
<1>1. NetInv => RejectedIsNotRendered
  BY IdleFacts DEF NetInv, InForceIsSafe, FreeIsConfirmed, Safe, RejectedIsNotRendered
<1> QED
  BY <1>1, NetworkInvariance, PTL

-----------------------------------------------------------------------------
(* What the layers hold: kinds of steps, for WireInv *)

\* What is written or left in a layer.
LEMMA TornFacts ==
    ASSUME NetInv, WireTypes, NEW layer \in Layers, Torn(layer)
    PROVE  \E v \in Value : /\ wire' = [wire EXCEPT ![layer] = v]
                            /\ layer = "dhcp" /\ wire.dhcp = Clean => v = Clean
<1>1. PICK v \in Residue(layer) : wire' = [wire EXCEPT ![layer] = v]
  BY DEF Torn
<1>2. op.target \in Value /\ keaFile \in Value /\ wire[layer] \in Value /\ Mixed \in Value /\ Clean \in Value
  BY DEF NetInv, NetTypes, Ops, WireTypes, Value
<1>3. CASE layer \in {"bridges", "dns"}
  BY <1>1, <1>2, <1>3 DEF Residue
<1>4. CASE layer = "netplan"
  BY <1>1, <1>2, <1>4 DEF Residue
<1>5. CASE layer = "dhcp"
  BY <1>1, <1>2, <1>5 DEF Residue
<1>6. CASE layer = "nft"
  BY <1>1, <1>2, <1>6 DEF Residue
<1> QED
  BY <1>3, <1>4, <1>5, <1>6 DEF Layers

\* Which layers were passed over stays as it was; an overlooked revision is no layer.
SameMissed == \A layer \in Serving : layer \in missed' <=> layer \in missed

\* To overlook an interrupted apply says nothing of the layers, nor does having listed it.
LEMMA OverlookedSame ==
    ASSUME Overlooked \/ missed' = missed \/ missed' = missed \ {"reclaim"}
    PROVE  SameMissed
<1>1. "reclaim" \notin Serving
  BY DEF Serving, Layers
<1> QED
  BY <1>1 DEF SameMissed, Overlooked

\* One layer is written or passed over: the others that were passed over still are, and after a factory-clean taken
\* by mistake this one too.
MissedStep(layer) ==
    /\ \A other \in Serving \ {layer} : other \in missed => other \in missed'
    /\ op.job = "clean" /\ Active # {} => \A other \in Serving : other \in missed => other \in missed'

\* So for a layer brought to the target.
LEMMA DoneStep ==
    ASSUME NetInv, NEW layer, Done(layer)
    PROVE  MissedStep(layer)
<1>1. op.job = "clean" /\ Active # {} => op.target # Confirmed
  BY ConfirmedIs, Apart DEF NetInv, RollingBack, Revisions
<1> QED
  BY <1>1 DEF Done, MissedStep

\* And for one skipped, or failed as a problem.
LEMMA MoreMissed ==
    ASSUME NEW layer, missed \subseteq missed'
    PROVE  MissedStep(layer)
BY DEF MissedStep

\* An operation ends in a state in which changes are refused, or a process is gone: nothing more is claimed.
LEMMA RefusedWire ==
    ASSUME op' = Idle, blocked' # NotBlocked \/ ~serving'
    PROVE  Progress' /\ PendingRuns' /\ SettledIsConfirmed'
<1>1. op'.job = "idle"
  BY IdleFacts
<1>2. Progress'
  BY <1>1 DEF Progress
<1>3. PendingRuns'
  BY <1>1 DEF PendingRuns
<1>4. SettledIsConfirmed'
  BY DEF SettledIsConfirmed, Settled
<1> QED
  BY <1>2, <1>3, <1>4

\* An operation begins with nothing behind it; a factory-clean where something is confirmed passes over everything.
LEMMA BegunWire ==
    ASSUME op'.pc = 1, op'.job \in {"apply", "clean", "rollback", "reconcile"},
           op'.job = "clean" => Active' = {} \/ Serving \subseteq missed'
    PROVE  Progress' /\ PendingRuns' /\ SettledIsConfirmed'
<1>1. ~(op'.pc > 1) /\ ~(op'.pc > 2) /\ ~(op'.pc > 3) /\ ~(op'.pc > 4) /\ ~(op'.pc > 5)
  OBVIOUS
<1>2. Progress'
  BY <1>1 DEF Progress, Serving
<1>3. PendingRuns'
  BY DEF PendingRuns
<1>4. SettledIsConfirmed'
  BY IdleFacts DEF SettledIsConfirmed, Settled
<1> QED
  BY <1>2, <1>3, <1>4

\* A rollback begins.
LEMMA UndoWire ==
    ASSUME NEW r \in InFlight, op' = Undo(r), rev' = rev, intent' = intent
    PROVE  Progress' /\ PendingRuns' /\ SettledIsConfirmed'
<1>1. Active' = Active /\ r \notin Active
  BY SameRevs DEF InFlight, Active
<1>2. /\ op'.pc = 1 /\ op'.job \in {"clean", "rollback"}
      /\ op'.job = "clean" => Active = {}
  <2>1. CASE Active \ {r} = {}
    BY <1>1, <2>1 DEF Undo, Job, Idle
  <2>2. CASE Active \ {r} # {}
    BY <2>2 DEF Undo, Job, Idle
  <2> QED
    BY <2>1, <2>2
<1> QED
  BY <1>1, <1>2, BegunWire

\* A rollback begins or is refused.
LEMMA EnterWire ==
    ASSUME NetInv, NEW r \in InFlight, NEW faulty, EnterRollback(r, faulty), rev' = rev, intent' = intent
    PROVE  Progress' /\ PendingRuns' /\ SettledIsConfirmed'
<1>1. CASE op' = Undo(r)
  BY <1>1, UndoWire
<1>2. CASE op' = Job("clean", r, Clean) /\ missed' = missed \cup Serving
  <2>1. op'.pc = 1 /\ op'.job = "clean"
    BY <1>2 DEF Job, Idle
  <2>2. Serving \subseteq missed'
    BY <1>2
  <2> QED
    BY <2>1, <2>2, BegunWire
<1>3. CASE op' = Idle /\ Mark(r, TRUE)
  <2>1. blocked' # NotBlocked
    BY <1>3, Apart DEF Mark, InFlight
  <2> QED
    BY <1>3, <2>1, RefusedWire
<1> QED
  BY <1>1, <1>3, <1>2 DEF EnterRollback

\* An operation that goes on leaves only its progress to show.
LEMMA GoesOnWire ==
    ASSUME GoesOn, op.job # "idle"
    PROVE  PendingRuns' /\ SettledIsConfirmed'
<1>1. op'.job # "idle"
  BY DEF GoesOn
<1>2. PendingRuns'
  BY <1>1 DEF PendingRuns
<1>3. SettledIsConfirmed'
  BY <1>1, IdleFacts DEF SettledIsConfirmed, Settled
<1> QED
  BY <1>2, <1>3

\* A step that writes nothing and whose operation goes on as it was.
wireKept == <<rev, intent, op, inForce, blocked, serving, wire, keaFile, keaSnap, diskErr>>

\* A step of a loop or of a waiter that changes nothing of what the invariant speaks of.
LEMMA StillWire ==
    ASSUME WireInv, UNCHANGED wireKept, SameMissed
    PROVE  WireInv'
<1> USE DEF wireKept
<1>1. /\ \A layer \in Serving : layer \in missed' <=> layer \in missed
      /\ "bridges" \in Serving /\ "dhcp" \in Serving /\ "dns" \in Serving /\ "nft" \in Serving
  BY DEF SameMissed, Serving, Layers
<1>2. /\ InFlight' = InFlight /\ Pending' = Pending /\ Active' = Active /\ Confirmed' = Confirmed
  BY SameRevs
<1>3. WireTypes' /\ Bootstrapped'
  BY <1>2 DEF WireInv, WireTypes, Bootstrapped
<1>4. Progress'
  BY <1>1, <1>2 DEF WireInv, Progress, Runs, Has, HasDhcp
<1>5. PendingRuns'
  BY <1>1, <1>2 DEF WireInv, PendingRuns, Runs, Has
<1>6. SettledIsConfirmed'
  BY <1>1, <1>2 DEF WireInv, SettledIsConfirmed, Settled
<1> QED
  BY <1>3, <1>4, <1>5, <1>6 DEF WireInv

\* The first state.
LEMMA InitWire == Init => WireInv
<1> SUFFICES ASSUME Init PROVE WireInv
  OBVIOUS
<1>1. /\ wire = [layer \in Layers |-> Clean] /\ keaFile = Clean /\ keaSnap = FALSE /\ diskErr = FALSE /\ op = Idle
      /\ rev = [r \in Revs |-> "none"]
  BY DEF Init
<1>2. Active = {} /\ Pending = {} /\ Confirmed = Clean
  BY <1>1 DEF Active, Pending, Confirmed
<1>3. keaSnap \in BOOLEAN /\ diskErr \in BOOLEAN
  BY <1>1
<1>4. WireTypes /\ Bootstrapped
  BY <1>1, <1>2, <1>3 DEF WireTypes, Bootstrapped, Value, Layers
<1>5. Progress
  BY <1>1, IdleFacts DEF Progress
<1>6. PendingRuns
  BY <1>2 DEF PendingRuns
<1>7. SettledIsConfirmed
  BY <1>1, <1>2 DEF SettledIsConfirmed, Layers
<1> QED
  BY <1>4, <1>5, <1>6, <1>7 DEF WireInv

\* A layer other than the DHCP server is written or torn: the types and the bootstrap hold.
LEMMA OtherLayerTypes ==
    ASSUME WireInv, NEW layer \in Layers \ {"dhcp"}, NEW v \in Value, wire' = [wire EXCEPT ![layer] = v],
           UNCHANGED <<rev, intent, keaFile, keaSnap, diskErr>>
    PROVE  WireTypes' /\ Bootstrapped'
<1>1. Active' = Active
  BY SameRevs
<1>2. wire \in [Layers -> Value] /\ "dhcp" \in Layers
  BY DEF WireInv, WireTypes, Layers
<1>3. wire' \in [Layers -> Value] /\ wire'.dhcp = wire.dhcp
  BY <1>2
<1> QED
  BY <1>1, <1>3 DEF WireInv, WireTypes, Bootstrapped

-----------------------------------------------------------------------------
(* What the layers hold: the layers *)

\* What a plain layer holds when the operation goes on to the next: the target, unless it was skipped by a rollback or
\* a reconcile; factory-clean says nothing of the resolver, and no operation of the netplan file.
LayerHolds(layer, v) ==
    \/ v = op.target
    \/ op.job \in {"rollback", "reconcile"} /\ layer \in missed'
    \/ layer = "netplan"
    \/ op.job = "clean" /\ layer = "dns"

\* One layer is written, or torn as a problem, and the operation goes on: the other layers behind it are as they were.
LEMMA LayerProgress ==
    ASSUME NetInv, WireInv, NEW layer \in {"bridges", "netplan", "nft", "dns"}, At(layer), GoesOn, MissedStep(layer),
           NEW v, wire' = [wire EXCEPT ![layer] = v], UNCHANGED <<rev, intent, keaFile>>,
           op'.bad \/ op'.pc = op.pc + 1,
           op'.bad \/ LayerHolds(layer, v),
           op'.bad \/ (op.nft /\ op'.nft) \/ layer = "bridges" \/ (layer = "nft" /\ op'.nft) \/ op.job # "rollback"
    PROVE  Progress'
<1>1. op \in Ops /\ Where /\ op.pc \in Nat
  BY DEF NetInv, NetTypes, Ops
<1>2. Active' = Active
  BY SameRevs
<1>3. op'.job = op.job /\ op'.target = op.target /\ (~op'.bad => ~op.bad) /\ (op.job = "apply" => ~op'.bad)
  BY DEF GoesOn, NetInv, Applying
<1>4. \A other \in Layers : wire'[other] = IF other = layer THEN v ELSE wire[other]
  BY DEF WireInv, WireTypes
<1>5. /\ wire'.bridges = IF layer = "bridges" THEN v ELSE wire.bridges
      /\ wire'.nft = IF layer = "nft" THEN v ELSE wire.nft
      /\ wire'.dhcp = wire.dhcp
      /\ wire'.dns = IF layer = "dns" THEN v ELSE wire.dns
  BY <1>4 DEF Layers
<1>6. CASE op.job = "apply"
  <2>1. op'.pc = op.pc + 1 /\ (layer = "netplan" \/ v = op.target)
    BY <1>3, <1>6 DEF LayerHolds
  <2>2. /\ layer = "bridges" => op.pc = 1
        /\ layer = "netplan" => op.pc = 2
        /\ layer = "nft" => op.pc = 3
        /\ layer = "dns" => op.pc = 5
    BY <1>1, <1>6, AtWhere
  <2>3. /\ op'.pc > 1 => op.pc > 1 \/ layer = "bridges"
        /\ op'.pc > 3 => op.pc > 3 \/ layer = "nft"
        /\ op'.pc > 4 => op.pc > 4
        /\ op'.pc > 5 => op.pc > 5 \/ layer = "dns"
    BY <1>1, <2>1, <2>2
  <2> QED
    BY <1>3, <1>5, <1>6, <2>1, <2>3 DEF WireInv, Progress
<1>7. /\ "bridges" \in Serving /\ "dhcp" \in Serving /\ "dns" \in Serving /\ "nft" \in Serving
  BY DEF Serving, Layers
<1>8. ASSUME op.job \in {"rollback", "reconcile"}, ~op'.bad
       PROVE  /\ Has("bridges", op.target) \/ layer = "bridges" => Has("bridges", op.target)'
              /\ Has("nft", op.target) \/ layer = "nft" => Has("nft", op.target)'
              /\ Has("dns", op.target) \/ layer = "dns" => Has("dns", op.target)'
              /\ HasDhcp(op.target) => HasDhcp(op.target)'
  <2>1. \A other \in Serving \ {layer} : other \in missed => other \in missed'
    BY DEF MissedStep
  <2>2. v = op.target \/ layer \in missed' \/ layer = "netplan"
    BY <1>8 DEF LayerHolds
  <2>3. Has("bridges", op.target) \/ layer = "bridges" => Has("bridges", op.target)'
    BY <1>3, <1>5, <1>7, <2>1, <2>2 DEF Has
  <2>4. Has("nft", op.target) \/ layer = "nft" => Has("nft", op.target)'
    BY <1>3, <1>5, <1>7, <2>1, <2>2 DEF Has
  <2>5. Has("dns", op.target) \/ layer = "dns" => Has("dns", op.target)'
    BY <1>3, <1>5, <1>7, <2>1, <2>2 DEF Has
  <2>6. HasDhcp(op.target) => HasDhcp(op.target)'
    BY <1>3, <1>5, <1>7, <2>1 DEF HasDhcp
  <2> QED
    BY <2>3, <2>4, <2>5, <2>6
<1>9. CASE op.job = "rollback"
  <2> SUFFICES ASSUME ~op'.bad PROVE Progress'
    BY <1>3, <1>9 DEF Progress
  <2>1. op'.pc = op.pc + 1 /\ ~op.bad
    BY <1>3, <1>9
  <2>2. /\ layer = "bridges" => op.pc = 1
        /\ layer = "nft" => op.pc = 2
        /\ layer = "dns" => op.pc = 4
        /\ layer = "netplan" => op.pc = 5
    BY <1>1, <1>9, AtWhere
  <2>3. /\ op'.pc > 1 => op.pc > 1 \/ layer = "bridges"
        /\ op'.pc > 2 => (op.pc > 2 \/ layer = "nft") /\ layer # "bridges"
        /\ op'.pc > 3 => op.pc > 3
        /\ op'.pc > 4 => op.pc > 4 \/ layer = "dns"
    BY <1>1, <2>1, <2>2
  <2>4. op'.pc > 2 => op'.nft
    BY <1>9, <2>3
  <2>5. /\ op.pc > 1 => Has("bridges", op.target)
        /\ op.pc > 2 => Has("nft", op.target)
        /\ op.pc > 3 => HasDhcp(op.target)
        /\ op.pc > 4 => Has("dns", op.target)
    BY <1>9, <2>1 DEF WireInv, Progress
  <2> QED
    BY <1>3, <1>9, <1>8, <2>3, <2>4, <2>5 DEF Progress
<1>10. CASE op.job = "reconcile"
  <2> SUFFICES ASSUME ~op'.bad PROVE Progress'
    BY <1>3, <1>10 DEF Progress
  <2>1. op'.pc = op.pc + 1 /\ ~op.bad
    BY <1>3, <1>10
  <2>2. /\ layer = "bridges" => op.pc = 1
        /\ layer = "nft" => op.pc = 2
        /\ layer = "dns" => op.pc = 4
        /\ layer # "netplan"
    BY <1>1, <1>10, AtWhere
  <2>3. /\ op'.pc > 1 => op.pc > 1 \/ layer = "bridges"
        /\ op'.pc > 2 => op.pc > 2 \/ layer = "nft"
        /\ op'.pc > 3 => op.pc > 3
        /\ op'.pc > 4 => op.pc > 4 \/ layer = "dns"
    BY <1>1, <2>1, <2>2
  <2>4. /\ op.pc > 1 => Has("bridges", op.target)
        /\ op.pc > 2 => Has("nft", op.target)
        /\ op.pc > 3 => HasDhcp(op.target)
        /\ op.pc > 4 => Has("dns", op.target)
    BY <1>10, <2>1 DEF WireInv, Progress
  <2> QED
    BY <1>3, <1>10, <1>8, <2>3, <2>4 DEF Progress
<1>11. CASE op.job = "clean"
  <2>1. ~op'.bad => /\ layer = "bridges" => op.pc = 1
                    /\ layer = "netplan" => op.pc = 2
                    /\ layer = "dns" => op.pc = 3
                    /\ layer # "nft" /\ op'.pc = op.pc + 1
    BY <1>1, <1>11, AtWhere
  <2>2. ~op'.bad => /\ op'.pc > 1 => op.pc > 1 \/ layer = "bridges"
                    /\ ~(op'.pc > 4)
    BY <1>1, <2>1
  <2>3. op.target = Clean
    BY <1>11 DEF NetInv, RollingBack
  <2>4. ~op'.bad /\ layer = "bridges" => v = Clean
    BY <1>11, <2>3 DEF LayerHolds
  <2>5. Active # {} => Serving \subseteq missed'
    BY <1>11 DEF WireInv, Progress, MissedStep
  <2> QED
    BY <1>2, <1>3, <1>5, <1>11, <2>2, <2>4, <2>5 DEF WireInv, Progress, Serving
<1> QED
  BY <1>1, <1>6, <1>9, <1>10, <1>11, AtWhere

\* The invariant from its parts, for a plain layer.
LEMMA PlainLayerWire ==
    ASSUME NetInv, WireInv, NEW layer \in {"bridges", "netplan", "nft", "dns"}, At(layer), GoesOn, MissedStep(layer),
           NEW v \in Value, wire' = [wire EXCEPT ![layer] = v],
           UNCHANGED <<rev, intent, keaFile, keaSnap, diskErr>>,
           op'.bad \/ op'.pc = op.pc + 1,
           op'.bad \/ LayerHolds(layer, v),
           op'.bad \/ (op.nft /\ op'.nft) \/ layer = "bridges" \/ (layer = "nft" /\ op'.nft) \/ op.job # "rollback"
    PROVE  WireInv'
<1>1. WireTypes' /\ Bootstrapped'
  BY OtherLayerTypes DEF Layers
<1>2. Progress'
  BY LayerProgress
<1>3. op.job # "idle"
  BY AtWhere DEF NetInv, NetTypes
<1>4. PendingRuns' /\ SettledIsConfirmed'
  BY <1>3, GoesOnWire
<1> QED
  BY <1>1, <1>2, <1>4 DEF WireInv

\* A plain layer of an apply fails.
LEMMA ApplyFailsWire ==
    ASSUME NetInv, WireInv, op.job = "apply", EnterRollback(op.r, TRUE),
           UNCHANGED <<rev, intent>>, WireTypes', Bootstrapped'
    PROVE  WireInv'
<1>1. op.r \in InFlight
  BY DEF NetInv, Applying, InFlight
<1>2. Progress' /\ PendingRuns' /\ SettledIsConfirmed'
  BY <1>1, EnterWire
<1> QED
  BY <1>2 DEF WireInv

\* What an operation has behind it when the firewall is: a rollback without a problem has converged it.
LEMMA ConvergedBehind ==
    ASSUME NetInv, WireInv, NEW layer \in {"netplan", "dns", "dhcp"}, At(layer), op.job = "rollback", ~op.bad
    PROVE  op.nft
<1>1. op \in Ops /\ Where
  BY DEF NetInv, NetTypes
<1>2. op.pc > 2
  BY <1>1, AtWhere
<1> QED
  BY <1>2 DEF WireInv, Progress

\* A plain layer fails.
LEMMA FailsWire ==
    ASSUME NetInv, WireInv, NEW layer \in {"bridges", "netplan", "nft", "dns"}, At(layer),
           Torn(layer), Fails(layer), UNCHANGED <<rev, intent, keaFile, keaSnap, diskErr>>
    PROVE  WireInv'
<1>1. PICK v \in Value : wire' = [wire EXCEPT ![layer] = v]
  BY TornFacts DEF WireInv, Layers
<1>2. CASE op.job = "apply"
  <2>1. EnterRollback(op.r, TRUE)
    BY <1>2, FailsEnters
  <2>2. WireTypes' /\ Bootstrapped'
    BY <1>1, OtherLayerTypes DEF Layers
  <2> QED
    BY <1>2, <2>1, <2>2, ApplyFailsWire
<1>3. CASE op.job # "apply"
  <2>1. GoesOn /\ op'.bad
    BY <1>3, FailsGoesOn DEF NetInv, NetTypes
  <2>2. MissedStep(layer)
    BY <1>3, MoreMissed DEF Fails
  <2> QED
    BY <1>1, <2>1, <2>2, PlainLayerWire
<1> QED
  BY <1>2, <1>3

\* A plain layer is written.
LEMMA SucceedsWire ==
    ASSUME NetInv, WireInv, NEW layer \in {"bridges", "netplan", "nft", "dns"}, At(layer),
           NEW nft \in BOOLEAN, op' = Onward(FALSE, nft), blocked' = blocked, MissedStep(layer),
           NEW v \in Value, wire' = [wire EXCEPT ![layer] = v], LayerHolds(layer, v),
           nft <=> op.nft \/ layer = "nft",
           UNCHANGED <<rev, intent, keaFile, keaSnap, diskErr>>
    PROVE  WireInv'
<1>1. GoesOn /\ op'.pc = op.pc + 1 /\ (op'.bad <=> op.bad) /\ (op'.nft <=> nft)
  BY SucceedsGoesOn DEF NetInv, NetTypes
<1>2. op'.bad \/ (op.nft /\ op'.nft) \/ layer = "bridges" \/ (layer = "nft" /\ op'.nft) \/ op.job # "rollback"
  <2>1. CASE layer \in {"netplan", "dns"}
    BY <1>1, <2>1, ConvergedBehind
  <2>2. CASE layer = "nft"
    BY <1>1, <2>2
  <2> QED
    BY <2>1, <2>2
<1> QED
  BY <1>1, <1>2, PlainLayerWire

\* The bridges.
LEMMA BridgesWire ==
    ASSUME NetInv, WireInv, Bridges
    PROVE  WireInv'
<1>1. At("bridges") /\ UNCHANGED <<rev, intent, keaFile, keaSnap, diskErr>>
  BY DEF Bridges, Kept, NoDhcp, db
<1>2. op \in Ops /\ op.nft \in BOOLEAN /\ op.target \in Value
  BY DEF NetInv, NetTypes, Ops
<1>3. CASE Written("bridges") /\ Succeeds("bridges")
  BY <1>1, <1>2, <1>3, SucceedsWire, DoneStep DEF Written, Succeeds, LayerHolds
<1>4. CASE /\ Written("bridges") /\ op' = Onward(TRUE, FALSE) /\ op.job = "reconcile" /\ blocked' = blocked
           /\ Done("bridges")
  <2>1. GoesOn /\ op'.bad
    BY <1>2, <1>4, ProblemGoesOn
  <2>2. wire' = [wire EXCEPT !["bridges"] = op.target]
    BY <1>4 DEF Written
  <2>3. MissedStep("bridges")
    BY <1>4, DoneStep
  <2> QED
    BY <1>1, <1>2, <2>1, <2>2, <2>3, PlainLayerWire
<1>5. CASE Torn("bridges") /\ op.job = "rollback" /\ Skips("bridges")
  <2>1. PICK v \in Value : wire' = [wire EXCEPT !["bridges"] = v]
    BY <1>5, TornFacts DEF WireInv, Layers
  <2>2. MissedStep("bridges") /\ LayerHolds("bridges", v)
    BY <1>5, MoreMissed DEF Skips, LayerHolds
  <2> QED
    BY <1>1, <1>2, <1>5, <2>1, <2>2, SucceedsWire DEF Skips
<1>6. CASE CleanStops /\ UNCHANGED <<wire, missed>>
  <2>1. GoesOn /\ op'.bad
    BY <1>2, <1>6, CleanStopsGoesOn
  <2>2. wire \in [Layers -> Value] /\ wire.bridges \in Value
    BY DEF WireInv, WireTypes, Layers
  <2>3. wire' = [wire EXCEPT !["bridges"] = wire.bridges]
    BY <1>6, <2>2
  <2>4. MissedStep("bridges")
    BY <1>6, MoreMissed
  <2> QED
    BY <1>1, <2>1, <2>2, <2>3, <2>4, PlainLayerWire
<1>7. CASE Torn("bridges") /\ Fails("bridges")
  BY <1>1, <1>7, FailsWire
<1>8. CASE op.r # NoRev /\ op' = Idle /\ Mark(op.r, FALSE) /\ UNCHANGED wire
  <2>1. op.r \in Revs
    BY <1>2, <1>8 DEF Ops
  <2>2. blocked' # NotBlocked
    BY <1>8, <2>1, Apart DEF Mark
  <2>3. Progress' /\ PendingRuns' /\ SettledIsConfirmed'
    BY <1>8, <2>2, RefusedWire
  <2>4. Active' = Active
    BY <1>1, SameRevs
  <2>5. WireTypes' /\ Bootstrapped'
    BY <1>1, <1>8, <2>4 DEF WireInv, WireTypes, Bootstrapped
  <2> QED
    BY <2>3, <2>5 DEF WireInv
<1> QED
  BY <1>3, <1>4, <1>7, <1>8, <1>5, <1>6 DEF Bridges, CleanStops

\* The netplan file.
LEMMA NetplanWire ==
    ASSUME NetInv, WireInv, Netplan
    PROVE  WireInv'
<1>1. At("netplan") /\ UNCHANGED <<rev, intent, keaFile, keaSnap, diskErr>>
  BY DEF Netplan, Kept, NoDhcp, db
<1>2. op.nft \in BOOLEAN /\ op.target \in Value
  BY DEF NetInv, NetTypes, Ops
<1>3. CASE Written("netplan") /\ Succeeds("netplan")
  BY <1>1, <1>2, <1>3, SucceedsWire, DoneStep DEF Written, Succeeds, LayerHolds
<1>4. CASE Torn("netplan") /\ Fails("netplan")
  BY <1>1, <1>4, FailsWire
<1>5. CASE op' = Onward(FALSE, op.nft) /\ UNCHANGED <<wire, blocked, missed>>
  <2>1. wire \in [Layers -> Value] /\ wire.netplan \in Value
    BY DEF WireInv, WireTypes, Layers
  <2>2. wire' = [wire EXCEPT !["netplan"] = wire.netplan]
    BY <1>5, <2>1
  <2>3. MissedStep("netplan") /\ LayerHolds("netplan", wire.netplan)
    BY <1>5, MoreMissed DEF LayerHolds
  <2> QED
    BY <1>1, <1>2, <1>5, <2>1, <2>2, <2>3, SucceedsWire
<1> QED
  BY <1>3, <1>4, <1>5 DEF Netplan

\* The resolver.
LEMMA DnsWire ==
    ASSUME NetInv, WireInv, Dns
    PROVE  WireInv'
<1>1. At("dns") /\ UNCHANGED <<rev, intent, keaFile, keaSnap, diskErr>>
  BY DEF Dns, Kept, NoDhcp, db
<1>2. op.nft \in BOOLEAN /\ op.target \in Value /\ Clean \in Value /\ Mixed \in Value
  BY DEF NetInv, NetTypes, Ops, Value
<1>3. CASE Written("dns") /\ Succeeds("dns")
  BY <1>1, <1>2, <1>3, SucceedsWire, DoneStep DEF Written, Succeeds, LayerHolds
<1>4. CASE /\ op.job = "clean" /\ Succeeds("dns")
           /\ wire' = [wire EXCEPT !.dns = IF @ = Clean THEN Clean ELSE Mixed]
  <2>1. PICK v \in Value : wire' = [wire EXCEPT !["dns"] = v]
    BY <1>2, <1>4
  <2> QED
    BY <1>1, <1>2, <1>4, <2>1, SucceedsWire, DoneStep DEF Succeeds, LayerHolds
<1>5. CASE Torn("dns") /\ Fails("dns")
  BY <1>1, <1>5, FailsWire
<1>6. CASE op.job \in {"rollback", "reconcile"} /\ Skips("dns") /\ UNCHANGED wire
  <2>1. wire \in [Layers -> Value] /\ wire.dns \in Value
    BY DEF WireInv, WireTypes, Layers
  <2>2. wire' = [wire EXCEPT !["dns"] = wire.dns]
    BY <1>6, <2>1
  <2>3. MissedStep("dns") /\ LayerHolds("dns", wire.dns)
    BY <1>6, MoreMissed DEF Skips, LayerHolds
  <2> QED
    BY <1>1, <1>2, <1>6, <2>1, <2>2, <2>3, SucceedsWire DEF Skips
<1> QED
  BY <1>3, <1>4, <1>5, <1>6 DEF Dns

\* The firewall.
LEMMA NftWire ==
    ASSUME NetInv, WireInv, Nft
    PROVE  WireInv'
<1>1. At("nft") /\ UNCHANGED <<rev, intent, keaFile, keaSnap, diskErr>>
  BY DEF Nft, Kept, NoDhcp, db
<1>2. op.target \in Value /\ wire \in [Layers -> Value] /\ wire.nft \in Value
  BY DEF NetInv, NetTypes, Ops, WireInv, WireTypes, Layers
<1>3. CASE Written("nft") /\ op' = Onward(FALSE, TRUE) /\ Done("nft") /\ UNCHANGED blocked
  BY <1>1, <1>2, <1>3, SucceedsWire, DoneStep DEF Written, LayerHolds
<1>4. CASE Torn("nft") /\ Fails("nft")
  BY <1>1, <1>4, FailsWire
<1>5. CASE op.job = "rollback" /\ UNCHANGED wire /\ Fails("nft")
  <2>1. GoesOn /\ op'.bad
    BY <1>5, FailsGoesOn DEF NetInv, NetTypes
  <2>2. wire' = [wire EXCEPT !["nft"] = wire.nft]
    BY <1>2, <1>5
  <2>3. MissedStep("nft")
    BY <1>5, MoreMissed DEF Fails
  <2> QED
    BY <1>1, <1>2, <2>1, <2>2, <2>3, PlainLayerWire
<1> QED
  BY <1>3, <1>4, <1>5 DEF Nft

\* What the DHCP server and its file hold when the operation goes on to the next layer.
DhcpHolds(v) ==
    \/ v = op.target /\ (op.job = "apply" \/ keaFile' = op.target)
    \/ op.job \in {"rollback", "reconcile"} /\ "dhcp" \in missed'
    \/ op.job = "clean" /\ Active # {}

\* The DHCP server is written, or torn as a problem, and the operation goes on.
LEMMA DhcpProgress ==
    ASSUME NetInv, WireInv, At("dhcp"), GoesOn, MissedStep("dhcp"), NEW v, wire' = [wire EXCEPT !["dhcp"] = v],
           UNCHANGED <<rev, intent>>,
           op'.bad \/ (op'.pc = op.pc + 1 /\ DhcpHolds(v)),
           op'.bad \/ op'.nft \/ op.job # "rollback"
    PROVE  Progress'
<1>1. op \in Ops /\ Where /\ op.pc \in Nat
  BY DEF NetInv, NetTypes, Ops
<1>2. Active' = Active
  BY SameRevs
<1>3. op'.job = op.job /\ op'.target = op.target /\ (~op'.bad => ~op.bad) /\ (op.job = "apply" => ~op'.bad)
  BY DEF GoesOn, NetInv, Applying
<1>4. wire'.bridges = wire.bridges /\ wire'.nft = wire.nft /\ wire'.dhcp = v /\ wire'.dns = wire.dns
  BY DEF WireInv, WireTypes, Layers
<1>5. CASE op.job = "apply"
  <2>1. op'.pc = op.pc + 1 /\ v = op.target /\ op.pc = 4
    BY <1>1, <1>3, <1>5, AtWhere DEF DhcpHolds
  <2>2. op.pc > 1 /\ op.pc > 3 /\ ~(op'.pc > 5)
    BY <2>1
  <2> QED
    BY <1>3, <1>4, <1>5, <2>1, <2>2 DEF WireInv, Progress
<1>6. CASE op.job \in {"rollback", "reconcile"}
  <2> SUFFICES ASSUME ~op'.bad PROVE Progress'
    BY <1>3, <1>6 DEF Progress
  <2>1. op'.pc = op.pc + 1 /\ op.pc = 3 /\ DhcpHolds(v)
    BY <1>1, <1>6, AtWhere
  <2>2. op.pc > 1 /\ op.pc > 2 /\ ~(op'.pc > 4)
    BY <2>1
  <2>3. HasDhcp(op.target)'
    BY <1>3, <1>4, <1>6, <2>1 DEF DhcpHolds, HasDhcp
  <2>4. Has("bridges", op.target) /\ Has("nft", op.target)
    BY <1>3, <1>6, <2>2 DEF WireInv, Progress
  <2>5. Has("bridges", op.target)' /\ Has("nft", op.target)'
    BY <1>3, <1>4, <2>4 DEF Has, MissedStep, Serving, Layers
  <2> QED
    BY <1>3, <1>6, <2>2, <2>3, <2>5 DEF Progress
<1>7. CASE op.job = "clean"
  <2>1. op.pc = 4
    BY <1>1, <1>7, AtWhere
  <2>2. op.pc > 1
    BY <2>1
  <2>3. op.target = Clean
    BY <1>7 DEF NetInv, RollingBack
  <2>4. Active # {} => Serving \subseteq missed'
    BY <1>7 DEF WireInv, Progress, MissedStep
  <2>5. Active = {} /\ ~op'.bad => v = Clean /\ keaFile' = Clean /\ wire.bridges = Clean
    BY <1>3, <1>7, <2>2, <2>3 DEF DhcpHolds, WireInv, Progress
  <2> QED
    BY <1>2, <1>3, <1>4, <1>7, <2>4, <2>5 DEF Progress, Serving
<1> QED
  BY <1>1, <1>5, <1>6, <1>7, AtWhere

\* The invariant from its parts, for the DHCP server.
LEMMA DhcpLayerWire ==
    ASSUME NetInv, WireInv, At("dhcp"), GoesOn, MissedStep("dhcp"), NEW v, wire' = [wire EXCEPT !["dhcp"] = v],
           UNCHANGED <<rev, intent>>, WireTypes', Bootstrapped',
           op'.bad \/ (op'.pc = op.pc + 1 /\ DhcpHolds(v)),
           op'.bad \/ op'.nft \/ op.job # "rollback"
    PROVE  WireInv'
<1>1. Progress'
  BY DhcpProgress
<1>2. op.job # "idle"
  BY AtWhere DEF NetInv, NetTypes
<1>3. PendingRuns' /\ SettledIsConfirmed'
  BY <1>2, GoesOnWire
<1> QED
  BY <1>1, <1>3 DEF WireInv

\* The types after a step of the DHCP server.
LEMMA DhcpTypes ==
    ASSUME WireInv, NEW v \in Value, wire' = [wire EXCEPT !["dhcp"] = v], UNCHANGED <<rev, intent>>,
           keaFile' \in Value, keaSnap' \in BOOLEAN, diskErr' \in BOOLEAN,
           Active = {} => keaSnap' \/ (v = Clean /\ keaFile' = Clean),
           diskErr' => Active # {}
    PROVE  WireTypes' /\ Bootstrapped'
<1>1. Active' = Active
  BY SameRevs
<1>2. wire \in [Layers -> Value] /\ "dhcp" \in Layers
  BY DEF WireInv, WireTypes, Layers
<1>3. wire' \in [Layers -> Value] /\ wire'.dhcp = v
  BY <1>2
<1> QED
  BY <1>1, <1>3 DEF WireTypes, Bootstrapped

\* The DHCP server of an apply: a bootstrap leaves its snapshot.
LEMMA DhcpOfApplyWire ==
    ASSUME NetInv, WireInv, At("dhcp"), DhcpOfApply, UNCHANGED <<rev, intent>>
    PROVE  WireInv'
<1>1. /\ op \in Ops /\ op.nft \in BOOLEAN /\ op.target \in Value /\ op.job = "apply"
      /\ keaFile \in Value /\ keaSnap \in BOOLEAN /\ diskErr \in BOOLEAN
  BY DEF NetInv, NetTypes, Ops, WireInv, WireTypes, DhcpOfApply
<1>2. diskErr' = diskErr /\ (diskErr => Active # {})
  BY DEF DhcpOfApply, WireInv, Bootstrapped
<1>3. diskErr' \in BOOLEAN
  BY <1>1, <1>2
<1>4. Active = {} => keaSnap \/ (wire.dhcp = Clean /\ keaFile = Clean)
  BY DEF WireInv, Bootstrapped
<1>5. PICK begun \in BOOLEAN :
         /\ keaFile' = IF begun THEN op.target ELSE keaFile
         /\ keaSnap' = (keaSnap \/ begun)
         /\ \/ Written("dhcp") /\ Succeeds("dhcp") /\ (wire.dhcp = Clean => begun)
            \/ Torn("dhcp") /\ Fails("dhcp")
            \/ (Written("dhcp") \/ Deaf) /\ Fails("dhcp") /\ (wire.dhcp = Clean => begun)
  BY DEF DhcpOfApply
<1>6. keaFile' \in Value /\ keaSnap' \in BOOLEAN
  BY <1>1, <1>5
<1>7. (keaSnap \/ begun) => keaSnap'
  BY <1>5
<1>8. CASE Written("dhcp") /\ Succeeds("dhcp") /\ (wire.dhcp = Clean => begun)
  <2>1. wire' = [wire EXCEPT !["dhcp"] = op.target]
    BY <1>8 DEF Written
  <2>2. WireTypes' /\ Bootstrapped'
    BY <1>1, <1>2, <1>3, <1>4, <1>6, <1>7, <1>8, <2>1, DhcpTypes
  <2>3. GoesOn /\ op'.pc = op.pc + 1
    BY <1>1, <1>8, SucceedsGoesOn DEF Succeeds
  <2>4. MissedStep("dhcp") /\ DhcpHolds(op.target)
    BY <1>1, <1>8, DoneStep DEF Succeeds, DhcpHolds
  <2> QED
    BY <1>1, <2>1, <2>2, <2>3, <2>4, DhcpLayerWire
<1>9. CASE Torn("dhcp") /\ Fails("dhcp")
  <2>1. PICK v \in Value : wire' = [wire EXCEPT !["dhcp"] = v] /\ (wire.dhcp = Clean => v = Clean)
    BY <1>9, TornFacts DEF WireInv, Layers
  <2>2. Active = {} => keaSnap' \/ (v = Clean /\ keaFile' = Clean)
    BY <1>4, <1>5, <1>7, <2>1
  <2>3. WireTypes' /\ Bootstrapped'
    BY <1>2, <1>3, <1>6, <2>1, <2>2, DhcpTypes
  <2>4. EnterRollback(op.r, TRUE)
    BY <1>1, <1>9, FailsEnters
  <2> QED
    BY <1>1, <2>3, <2>4, ApplyFailsWire
<1>10. CASE (Written("dhcp") \/ Deaf) /\ Fails("dhcp") /\ (wire.dhcp = Clean => begun)
  <2>1. PICK v \in Value : wire' = [wire EXCEPT !["dhcp"] = v]
    BY <1>1, <1>10 DEF Written, Deaf, Value
  <2>2. WireTypes' /\ Bootstrapped'
    BY <1>1, <1>2, <1>3, <1>4, <1>6, <1>7, <1>10, <2>1, DhcpTypes
  <2>3. EnterRollback(op.r, TRUE)
    BY <1>1, <1>10, FailsEnters
  <2> QED
    BY <1>1, <2>2, <2>3, ApplyFailsWire
<1> QED
  BY <1>5, <1>8, <1>9, <1>10

\* The DHCP server of a rollback or a reconcile, and the file saved with it.
LEMMA DhcpOfRestoreWire ==
    ASSUME NetInv, WireInv, At("dhcp"), DhcpOfRestore, UNCHANGED <<rev, intent>>
    PROVE  WireInv'
<1>1. /\ op \in Ops /\ Where /\ op.nft \in BOOLEAN /\ op.target \in Value /\ op.job \in {"rollback", "reconcile"}
      /\ keaFile \in Value /\ keaSnap \in BOOLEAN /\ diskErr \in BOOLEAN
  BY DEF NetInv, NetTypes, Ops, WireInv, WireTypes, DhcpOfRestore
<1>2. op.job = "reconcile" => op.pc < 5
  BY <1>1, AtWhere
<1>3. Active # {} /\ (~op.bad => op.target = Confirmed)
  BY <1>1, <1>2 DEF NetInv, RollingBack, Reconciling
<1>4. Confirmed \in Value
  BY <1>3, ConfirmedIs DEF NetInv, Revisions, Value
<1>5. /\ keaSnap' = keaSnap
      /\ \/ keaFile' = Confirmed /\ diskErr' = FALSE
         \/ keaFile' = keaFile /\ diskErr' = TRUE
         \/ keaFile' = keaFile /\ diskErr' = diskErr
  BY DEF DhcpOfRestore, Persisted, NotPersisted
<1>6. keaSnap' \in BOOLEAN /\ diskErr' \in BOOLEAN
  BY <1>1, <1>5
<1>7. keaFile' \in Value
  BY <1>1, <1>4, <1>5
<1>8. ASSUME NEW v \in Value, wire' = [wire EXCEPT !["dhcp"] = v]
      PROVE  WireTypes' /\ Bootstrapped'
  BY <1>3, <1>6, <1>7, <1>8, DhcpTypes
<1>9. wire.dhcp \in Value /\ (UNCHANGED wire => wire' = [wire EXCEPT !["dhcp"] = wire.dhcp])
  <2>1. wire \in [Layers -> Value] /\ "dhcp" \in Layers
    BY DEF WireInv, WireTypes, Layers
  <2> QED
    BY <2>1
<1>10. CASE Written("dhcp") /\ Succeeds("dhcp") /\ (op.job = "reconcile" \/ op.nft => Persisted)
  <2>1. wire' = [wire EXCEPT !["dhcp"] = op.target]
    BY <1>10 DEF Written
  <2>2. GoesOn /\ op'.pc = op.pc + 1 /\ (op'.bad <=> op.bad) /\ (op'.nft <=> op.nft)
    BY <1>1, <1>10, SucceedsGoesOn DEF Succeeds
  <2>3. op.job = "rollback" /\ ~op.bad => op.nft
    BY ConvergedBehind
  <2>4. ~op.bad => keaFile' = op.target
    BY <1>1, <1>3, <1>10, <2>3 DEF Persisted
  <2>5. WireTypes' /\ Bootstrapped'
    BY <1>1, <1>8, <2>1
  <2>6. MissedStep("dhcp") /\ (~op.bad => DhcpHolds(op.target))
    BY <1>10, <2>4, DoneStep DEF Succeeds, DhcpHolds
  <2> QED
    BY <1>1, <2>1, <2>2, <2>3, <2>5, <2>6, DhcpLayerWire
<1>11. CASE (Written("dhcp") \/ Deaf \/ Torn("dhcp") \/ UNCHANGED wire) /\ Fails("dhcp")
  <2>1. PICK v \in Value : wire' = [wire EXCEPT !["dhcp"] = v]
    BY <1>1, <1>11, <1>9, TornFacts DEF WireInv, Layers, Written, Deaf, Value
  <2>2. GoesOn /\ op'.bad
    BY <1>1, <1>11, FailsGoesOn
  <2>3. WireTypes' /\ Bootstrapped'
    BY <1>8, <2>1
  <2>4. MissedStep("dhcp")
    BY <1>1, <1>11, MoreMissed DEF Fails
  <2> QED
    BY <2>1, <2>2, <2>3, <2>4, DhcpLayerWire
<1>12. CASE (Deaf \/ UNCHANGED wire) /\ Skips("dhcp")
  <2>1. PICK v \in Value : wire' = [wire EXCEPT !["dhcp"] = v]
    BY <1>9, <1>12 DEF Deaf, Value
  <2>2. GoesOn /\ op'.pc = op.pc + 1 /\ (op'.bad <=> op.bad) /\ (op'.nft <=> op.nft)
    BY <1>1, <1>12, SucceedsGoesOn DEF Skips
  <2>3. op.job = "rollback" /\ ~op.bad => op.nft
    BY ConvergedBehind
  <2>4. WireTypes' /\ Bootstrapped'
    BY <1>8, <2>1
  <2>5. MissedStep("dhcp") /\ DhcpHolds(v)
    BY <1>1, <1>12, MoreMissed DEF Skips, DhcpHolds
  <2> QED
    BY <2>1, <2>2, <2>3, <2>4, <2>5, DhcpLayerWire
<1> QED
  BY <1>10, <1>11, <1>12 DEF DhcpOfRestore

\* The DHCP server of a factory-clean: its bootstrap is undone if there was one, and else it is as installed.
LEMMA DhcpOfCleanWire ==
    ASSUME NetInv, WireInv, At("dhcp"), DhcpOfClean, UNCHANGED <<rev, intent>>
    PROVE  WireInv'
<1>1. /\ op \in Ops /\ op.nft \in BOOLEAN /\ op.target = Clean /\ Clean \in Value /\ op.job = "clean"
      /\ keaFile \in Value /\ keaSnap \in BOOLEAN /\ diskErr \in BOOLEAN /\ wire \in [Layers -> Value]
  BY DEF NetInv, NetTypes, Ops, WireInv, WireTypes, DhcpOfClean, RollingBack, Value
<1>2. /\ diskErr => Active # {}
      /\ Active = {} => keaSnap \/ (wire.dhcp = Clean /\ keaFile = Clean)
  BY <1>1 DEF WireInv, Bootstrapped
<1>3. diskErr' = diskErr
  BY DEF DhcpOfClean
<1>4. diskErr' \in BOOLEAN /\ (diskErr' => Active # {})
  BY <1>1, <1>2, <1>3
<1>5. CASE /\ Succeeds("dhcp")
           /\ \/ Written("dhcp") /\ keaFile' = Clean
              \/ ~keaSnap /\ UNCHANGED <<wire, keaFile>>
  <2>1. PICK v \in Value : /\ wire' = [wire EXCEPT !["dhcp"] = v] /\ keaFile' \in Value
                           /\ Active = {} => v = Clean /\ keaFile' = Clean
    <3>1. CASE Written("dhcp") /\ keaFile' = Clean
      BY <1>1, <3>1 DEF Written
    <3>2. CASE ~keaSnap /\ UNCHANGED <<wire, keaFile>>
      <4>1. wire' = [wire EXCEPT !["dhcp"] = wire.dhcp] /\ wire.dhcp \in Value
        BY <1>1, <3>2 DEF Layers
      <4> QED
        BY <1>1, <1>2, <3>2, <4>1
    <3> QED
      BY <1>5, <3>1, <3>2
  <2>2. GoesOn /\ op'.pc = op.pc + 1
    BY <1>1, <1>5, SucceedsGoesOn DEF Succeeds
  <2>3. keaSnap' \in BOOLEAN
    BY <1>1 DEF DhcpOfClean
  <2>4. WireTypes' /\ Bootstrapped'
    BY <1>1, <1>4, <2>1, <2>3, DhcpTypes
  <2>5. MissedStep("dhcp") /\ DhcpHolds(v)
    BY <1>1, <1>5, <2>1, DoneStep DEF Succeeds, DhcpHolds
  <2> QED
    BY <1>1, <2>1, <2>2, <2>4, <2>5, DhcpLayerWire
<1>6. CASE keaSnap /\ Torn("dhcp") /\ Fails("dhcp") /\ keaFile' \in {keaFile, Clean} /\ UNCHANGED keaSnap
  <2>1. PICK v \in Value : wire' = [wire EXCEPT !["dhcp"] = v]
    BY <1>6, TornFacts DEF WireInv, Layers
  <2>2. GoesOn /\ op'.bad
    BY <1>1, <1>6, FailsGoesOn
  <2>3. keaSnap' /\ keaSnap' \in BOOLEAN /\ keaFile' \in Value
    BY <1>1, <1>6
  <2>4. WireTypes' /\ Bootstrapped'
    BY <1>4, <2>1, <2>3, DhcpTypes
  <2>5. MissedStep("dhcp")
    BY <1>1, <1>6, MoreMissed DEF Fails
  <2> QED
    BY <1>1, <2>1, <2>2, <2>4, <2>5, DhcpLayerWire
<1> QED
  BY <1>5, <1>6 DEF DhcpOfClean

\* The DHCP server.
LEMMA DhcpWire ==
    ASSUME NetInv, WireInv, Dhcp
    PROVE  WireInv'
<1>1. At("dhcp") /\ UNCHANGED <<rev, intent>> /\ (DhcpOfApply \/ DhcpOfRestore \/ DhcpOfClean)
  BY DEF Dhcp, Kept, db
<1> QED
  BY <1>1, DhcpOfApplyWire, DhcpOfRestoreWire, DhcpOfCleanWire

-----------------------------------------------------------------------------
(* What the layers hold: beginnings and ends *)

\* The files and what is confirmed are as they were, and so are the types and the bootstrap.
LEMMA SameWireTypes ==
    ASSUME WireInv, UNCHANGED <<wire, keaFile, keaSnap, diskErr>>, Active' = Active
    PROVE  WireTypes' /\ Bootstrapped'
BY DEF WireInv, WireTypes, Bootstrapped

\* Every layer is on the confirmed configuration or was passed over; factory-clean speaks of bridges and DHCP alone.
Reached ==
    /\ Has("bridges", Confirmed) /\ HasDhcp(Confirmed)
    /\ Confirmed # Clean => Has("dns", Confirmed) /\ Has("nft", Confirmed)

\* An operation without a problem that is at its end has brought the appliance to the confirmed configuration.
LEMMA AtEnd ==
    ASSUME NetInv, WireInv, At("record"), op.job \in {"rollback", "clean", "reconcile"}, ~op.bad
    PROVE  /\ Reached
           /\ inForce \in {Confirmed, Unknown}
           /\ inForce = Confirmed => Confirmed # Clean
<1>1. op \in Ops /\ Where
  BY DEF NetInv, NetTypes
<1>2. CASE op.job = "rollback"
  <2>1. op.pc = 6
    BY <1>1, <1>2, AtWhere
  <2>2. op.pc > 1 /\ op.pc > 2 /\ op.pc > 3 /\ op.pc > 4
    BY <2>1
  <2>3. op.target = Confirmed /\ inForce = Confirmed /\ Active # {}
    BY <1>2, <2>2 DEF NetInv, RollingBack
  <2>4. Confirmed # Clean
    BY <2>3, ConfirmedIs, Apart DEF NetInv, Revisions
  <2> QED
    BY <1>2, <2>2, <2>3, <2>4 DEF WireInv, Progress, Reached
<1>3. CASE op.job = "reconcile"
  <2>1. op.pc = 5
    BY <1>1, <1>3, AtWhere
  <2>2. op.pc > 1 /\ op.pc > 2 /\ op.pc > 3 /\ op.pc > 4
    BY <2>1
  <2>3. op.target = Confirmed /\ inForce = Confirmed /\ Active # {}
    BY <1>3 DEF NetInv, Reconciling
  <2>4. Confirmed # Clean
    BY <2>3, ConfirmedIs, Apart DEF NetInv, Revisions
  <2> QED
    BY <1>3, <2>2, <2>3, <2>4 DEF WireInv, Progress, Reached
<1>4. CASE op.job = "clean"
  <2>1. op.pc = 5
    BY <1>1, <1>4, AtWhere
  <2>2. op.pc > 1 /\ op.pc > 4
    BY <2>1
  <2>3. inForce = Unknown
    BY <1>4, <2>2 DEF NetInv, RollingBack
  <2>4. CASE Active = {}
    <3>1. wire.bridges = Clean /\ wire.dhcp = Clean /\ keaFile = Clean
      BY <1>4, <2>2, <2>4 DEF WireInv, Progress
    <3>2. Confirmed = Clean
      BY <2>4, ConfirmedIs
    <3> QED
      BY <2>3, <3>1, <3>2, Apart DEF Reached, Has, HasDhcp
  <2>5. CASE Active # {}
    <3>1. Serving \subseteq missed
      BY <1>4, <2>5 DEF WireInv, Progress
    <3>2. Reached
      BY <3>1 DEF Reached, Has, HasDhcp, Serving, Layers
    <3>3. Confirmed # Unknown
      BY <2>5, ConfirmedIs, Apart DEF NetInv, Revisions
    <3> QED
      BY <2>3, <3>2, <3>3
  <2> QED
    BY <2>4, <2>5
<1> QED
  BY <1>2, <1>3, <1>4

\* An operation ends with the appliance on the confirmed configuration.
LEMMA EndedWire ==
    ASSUME NetInv, WireInv, op' = Idle, UNCHANGED <<wire, keaFile, keaSnap, diskErr, inForce, intent>>,
           Active' = Active, Confirmed' = Confirmed, Pending' \subseteq Pending, SameMissed, Reached,
           inForce \in {Confirmed, Unknown}, inForce = Confirmed => Confirmed # Clean
    PROVE  WireInv'
<1>1. WireTypes' /\ Bootstrapped'
  BY SameWireTypes
<1>2. op'.job = "idle"
  BY IdleFacts
<1>3. Progress'
  BY <1>2 DEF Progress
<1>4. SettledIsConfirmed'
  BY DEF SettledIsConfirmed, Reached, Has, HasDhcp, SameMissed, Serving, Layers
<1>5. PendingRuns'
  <2> SUFFICES ASSUME NEW r \in Pending', inForce' = intent'[r], NEW layer \in Serving
               PROVE  layer \in missed' \/ wire'[layer] = intent'[r]
    BY DEF PendingRuns, Runs, Has, Serving
  <2>1. intent[r] \in Config
    BY DEF NetInv, Revisions, Pending, InFlight
  <2>2. inForce = Confirmed /\ intent[r] = Confirmed /\ Confirmed # Clean
    BY <2>1, Apart
  <2> QED
    BY <2>2 DEF Reached, Has, HasDhcp, SameMissed, Serving, Layers
<1> QED
  BY <1>1, <1>3, <1>4, <1>5 DEF WireInv

\* An operation ends refused.
LEMMA StoppedWire ==
    ASSUME WireInv, op' = Idle, blocked' # NotBlocked \/ ~serving', UNCHANGED <<wire, keaFile, keaSnap, diskErr>>,
           Active' = Active
    PROVE  WireInv'
BY SameWireTypes, RefusedWire DEF WireInv

\* The record of a rollback.
LEMMA RollbackRecordWire ==
    ASSUME NetInv, WireInv, RollbackRecord
    PROVE  WireInv'
<1>1. /\ op' = Idle /\ UNCHANGED <<wire, keaFile, keaSnap, diskErr, inForce, intent>>
      /\ At("record") /\ op.job \in {"rollback", "clean"} /\ op.r # NoRev
      /\ rev' = rev \/ rev' = [rev EXCEPT ![op.r] = "rolled_back"]
  BY DEF RollbackRecord
<1>2. SameMissed
  BY OverlookedSame DEF RollbackRecord
<1>3. op.r \in InFlight
  BY <1>1, RollbackEnd
<1>4. op.bad => blocked' # NotBlocked
  BY <1>3, Apart DEF RollbackRecord, Mark, InFlight
<1>5. /\ rev \in [Revs -> RevStates] /\ op.r \in Revs
  BY <1>3 DEF NetInv, NetTypes, InFlight
<1>6. Pending' \subseteq Pending /\ Active' = Active
  BY <1>1, <1>3, <1>5 DEF InFlight, Active, Pending
<1>7. Confirmed' = Confirmed
  BY <1>1, <1>6, ConfirmedStays
<1>8. CASE op.bad
  BY <1>1, <1>4, <1>6, <1>8, StoppedWire
<1>9. CASE ~op.bad
  <2>1. /\ Reached
        /\ inForce \in {Confirmed, Unknown} /\ (inForce = Confirmed => Confirmed # Clean)
    BY <1>1, <1>9, AtEnd
  <2> QED
    BY <1>1, <1>6, <1>7, <1>2, <2>1, EndedWire
<1> QED
  BY <1>8, <1>9

\* The record of a reconcile.
LEMMA ReconcileRecordWire ==
    ASSUME NetInv, WireInv, ReconcileRecord
    PROVE  WireInv'
<1>1. /\ op' = Idle /\ UNCHANGED <<wire, keaFile, keaSnap, diskErr, inForce, intent, rev>>
      /\ At("record") /\ op.job \in {"reconcile", "clean"}
  BY DEF ReconcileRecord
<1>2. ActiveRev # NotBlocked
  BY ConfirmedIs, Apart DEF ActiveRev, Active
<1>3. op.bad => blocked' # NotBlocked
  BY <1>2 DEF ReconcileRecord, Mark
<1>4. Pending' = Pending /\ Active' = Active /\ Confirmed' = Confirmed
  BY <1>1, SameRevs
<1>5. CASE op.bad
  BY <1>1, <1>3, <1>4, <1>5, StoppedWire
<1>6. CASE ~op.bad
  <2>1. /\ Reached
        /\ inForce \in {Confirmed, Unknown} /\ (inForce = Confirmed => Confirmed # Clean)
    BY <1>1, <1>6, AtEnd
  <2>2. SameMissed
    BY OverlookedSame DEF ReconcileRecord
  <2> QED
    BY <1>1, <1>4, <2>1, <2>2, EndedWire
<1> QED
  BY <1>5, <1>6

\* The end of an apply: every layer runs the revision that is now pending.
LEMMA ApplyRecordWire ==
    ASSUME NetInv, WireInv, ApplyRecord
    PROVE  WireInv'
<1>1. /\ op.job = "apply" /\ At("record") /\ UNCHANGED <<intent, wire, keaFile, keaSnap, diskErr, inForce>>
  BY DEF ApplyRecord
<1>2. /\ op.r \in Revs /\ rev[op.r] = "applying" /\ rev \in [Revs -> RevStates] /\ op.target = intent[op.r]
      /\ op \in Ops /\ Where
  BY <1>1 DEF NetInv, Applying, NetTypes
<1>3. CASE op' = Idle /\ rev' = [rev EXCEPT ![op.r] = "pending"]
  <2>1. Active' = Active /\ InFlight' = InFlight /\ op.r \in InFlight' /\ Pending' \subseteq InFlight'
    BY <1>2, <1>3 DEF InFlight, Active, Pending
  <2>2. \A r \in Pending' : r = op.r
    BY <2>1 DEF NetInv, Revisions
  <2>3. op.pc = 6
    BY <1>1, <1>2, AtWhere
  <2>4. op.pc > 1 /\ op.pc > 3 /\ op.pc > 4 /\ op.pc > 5
    BY <2>3
  <2>5. \A layer \in Serving : wire[layer] = op.target
    BY <1>1, <2>4 DEF WireInv, Progress, Serving, Layers
  <2>6. WireTypes' /\ Bootstrapped'
    BY <1>1, <2>1, SameWireTypes
  <2>7. op'.job = "idle"
    BY <1>3, IdleFacts
  <2>8. Progress'
    BY <2>7 DEF Progress
  <2>9. PendingRuns'
    BY <1>1, <1>2, <2>2, <2>5 DEF PendingRuns, Runs, Has, Serving
  <2>10. Pending' # {}
    BY <1>2, <1>3 DEF Pending
  <2>11. SettledIsConfirmed'
    BY <2>10 DEF SettledIsConfirmed, Settled
  <2> QED
    BY <2>6, <2>8, <2>9, <2>11 DEF WireInv
<1>4. CASE EnterRollback(op.r, TRUE) /\ rev' = rev
  <2>1. Active' = Active
    BY <1>1, <1>4, SameRevs
  <2>2. WireTypes' /\ Bootstrapped'
    BY <1>1, <2>1, SameWireTypes
  <2> QED
    BY <1>1, <1>4, <2>2, ApplyFailsWire
<1> QED
  BY <1>3, <1>4 DEF ApplyRecord

\* A confirmation begins while every layer runs the revision.
LEMMA ConfirmWire ==
    ASSUME NetInv, WireInv, NEW r \in Revs, Confirm(r)
    PROVE  WireInv' /\ Runs(intent[r])
<1>1. /\ Active' = {r} /\ Confirmed' = intent[r] /\ inForce = intent[r]
      /\ op = Idle /\ serving /\ blocked = NotBlocked /\ r \in Pending
  BY ConfirmRevs
<1>2. Runs(intent[r])
  BY <1>1, IdleFacts DEF WireInv, PendingRuns
<1>3. op'.job = "confirm"
  BY DEF Confirm, Job, Idle
<1>4. UNCHANGED <<wire, keaFile, keaSnap, diskErr, missed>>
  BY DEF Confirm, files
<1>5. WireTypes' /\ Bootstrapped'
  BY <1>1, <1>4 DEF WireInv, WireTypes, Bootstrapped
<1>6. Progress'
  BY <1>1, <1>2, <1>3, <1>4 DEF Progress, Runs, Has, Serving
<1>7. PendingRuns' /\ SettledIsConfirmed'
  BY <1>3, IdleFacts DEF PendingRuns, SettledIsConfirmed, Settled
<1> QED
  BY <1>2, <1>5, <1>6, <1>7 DEF WireInv

\* A confirmation ends: the DHCP server's file is saved, or the failure to save it is known.
LEMMA ConfirmFilesWire ==
    ASSUME NetInv, WireInv, ConfirmFiles
    PROVE  WireInv'
<1>1. /\ op' = Idle /\ UNCHANGED <<rev, intent, wire, missed>> /\ op.job = "confirm" /\ keaSnap' = FALSE
      /\ \/ keaFile' = Confirmed /\ diskErr' = FALSE
         \/ keaFile' = keaFile /\ diskErr' = TRUE
  BY DEF ConfirmFiles, db, Persisted, NotPersisted
<1>2. Active' = Active /\ Confirmed' = Confirmed /\ Pending' = Pending
  BY <1>1, SameRevs
<1>3. Active # {} /\ InFlight = {}
  BY <1>1 DEF NetInv, Confirming
<1>4. Confirmed \in Value
  BY <1>3, ConfirmedIs DEF NetInv, Revisions, Value
<1>5. keaSnap' \in BOOLEAN /\ diskErr' \in BOOLEAN
  BY <1>1
<1>6. keaFile' \in Value /\ (keaFile' = Confirmed \/ diskErr')
  BY <1>1, <1>4 DEF WireInv, WireTypes
<1>7. WireTypes' /\ Bootstrapped'
  BY <1>1, <1>2, <1>3, <1>5, <1>6 DEF WireInv, WireTypes, Bootstrapped
<1>8. op'.job = "idle"
  BY <1>1, IdleFacts
<1>9. Progress'
  BY <1>8 DEF Progress
<1>10. Pending' = {}
  BY <1>2, <1>3 DEF Pending, InFlight
<1>11. PendingRuns'
  BY <1>10 DEF PendingRuns
<1>12. Runs(Confirmed)
  BY <1>1 DEF WireInv, Progress
<1>13. /\ Has("bridges", Confirmed) /\ Has("dhcp", Confirmed) /\ Has("dns", Confirmed) /\ Has("nft", Confirmed)
  BY <1>12 DEF Runs, Serving, Layers
<1>14. SettledIsConfirmed'
  BY <1>1, <1>2, <1>6, <1>13 DEF SettledIsConfirmed, Has
<1> QED
  BY <1>7, <1>9, <1>11, <1>14 DEF WireInv

\* A refused apply.
LEMMA RejectWire ==
    ASSUME NetInv, WireInv, NEW r \in Revs, RejectApply(r)
    PROVE  WireInv'
<1>1. /\ rev \in [Revs -> RevStates] /\ rev[r] = "none" /\ rev' = [rev EXCEPT ![r] = "failed"]
      /\ UNCHANGED <<intent, op, inForce, blocked, serving, wire, keaFile, keaSnap, diskErr, missed>>
      /\ op = Idle /\ InFlight = {}
  BY DEF RejectApply, MayApply, LockFree, Free, NetInv, NetTypes, files, memory
<1>2. Active' = Active /\ Pending = {} /\ Pending' = {}
  BY <1>1 DEF Active, InFlight, Pending
<1>3. Confirmed' = Confirmed
  BY <1>1, <1>2, ConfirmedStays
<1>4. WireTypes' /\ Bootstrapped'
  BY <1>1, <1>2, SameWireTypes
<1>5. Progress'
  BY <1>1, IdleFacts DEF Progress
<1>6. PendingRuns'
  BY <1>2 DEF PendingRuns
<1>7. SettledIsConfirmed'
  BY <1>1, <1>2, <1>3 DEF WireInv, SettledIsConfirmed, Settled
<1> QED
  BY <1>4, <1>5, <1>6, <1>7 DEF WireInv

\* An apply begins with nothing behind it.
LEMMA BeginApplyWire ==
    ASSUME NetInv, WireInv, NEW r \in Revs, NEW c \in Config, BeginApply(r, c)
    PROVE  WireInv'
<1>1. /\ rev \in [Revs -> RevStates] /\ rev[r] = "none" /\ rev' = [rev EXCEPT ![r] = "applying"]
      /\ op' = Job("apply", r, c) /\ UNCHANGED <<wire, keaFile, keaSnap, diskErr>>
  BY DEF BeginApply, Free, NetInv, NetTypes, files
<1>2. Active' = Active
  BY <1>1 DEF Active
<1>3. WireTypes' /\ Bootstrapped'
  BY <1>1, <1>2, SameWireTypes
<1>4. op'.pc = 1 /\ op'.job = "apply"
  BY <1>1 DEF Job, Idle
<1>5. Progress' /\ PendingRuns' /\ SettledIsConfirmed'
  BY <1>4, BegunWire
<1> QED
  BY <1>3, <1>5 DEF WireInv

\* A decided rollback takes the lock.
LEMMA RollbackBeginWire ==
    ASSUME NetInv, WireInv, NEW who, NEW r \in Revs, RollbackBegin(who, r)
    PROVE  WireInv'
<1>1. /\ UNCHANGED <<rev, intent, serving, inForce, wire, keaFile, keaSnap, diskErr>> /\ op = Idle
  BY DEF RollbackBegin, db, LockFree
<1>2. Active' = Active
  BY <1>1, SameRevs
<1>3. WireTypes' /\ Bootstrapped'
  BY <1>1, <1>2, SameWireTypes
<1>4. CASE StillInFlight(r)
  <2>1. PICK faulty \in BOOLEAN : EnterRollback(r, faulty)
    BY <1>4 DEF RollbackBegin
  <2>2. Progress' /\ PendingRuns' /\ SettledIsConfirmed'
    BY <1>1, <1>4, <2>1, EnterWire DEF StillInFlight
  <2> QED
    BY <1>3, <2>2 DEF WireInv
<1>5. CASE ~StillInFlight(r)
  <2>1. op' = Idle /\ (blocked' = blocked \/ blocked' = r) /\ SameMissed
    BY <1>5, OverlookedSame DEF RollbackBegin, Mark
  <2>2. CASE blocked' = r
    BY <1>1, <1>2, <2>1, <2>2, StoppedWire, Apart
  <2>3. CASE blocked' = blocked
    BY <1>1, <2>1, <2>3, StillWire DEF wireKept
  <2> QED
    BY <2>1, <2>2, <2>3
<1> QED
  BY <1>4, <1>5

\* A reconcile begins with nothing behind it; the one that changes nothing is a problem.
LEMMA ReconcileBeginWire ==
    ASSUME NetInv, WireInv, ReconcileBegin
    PROVE  WireInv'
<1>1. UNCHANGED <<rev, intent, wire, keaFile, keaSnap, diskErr>>
  BY DEF ReconcileBegin, db
<1>2. Active' = Active
  BY <1>1, SameRevs
<1>3. WireTypes' /\ Bootstrapped'
  BY <1>1, <1>2, SameWireTypes
<1>4. ASSUME op'.pc = 1, op'.job \in {"clean", "reconcile"}, op'.job = "clean" => Active = {}
      PROVE  WireInv'
  <2>1. Progress' /\ PendingRuns' /\ SettledIsConfirmed'
    BY <1>2, <1>4, BegunWire
  <2> QED
    BY <1>3, <2>1 DEF WireInv
<1>5. CASE Active = {} /\ op' = Job("clean", NoRev, Clean)
  <2>1. op'.pc = 1 /\ op'.job = "clean"
    BY <1>5 DEF Job, Idle
  <2> QED
    BY <1>4, <1>5, <2>1
<1>6. CASE op' = Job("reconcile", NoRev, Confirmed)
  <2>1. op'.pc = 1 /\ op'.job = "reconcile"
    BY <1>6 DEF Job, Idle
  <2> QED
    BY <1>4, <2>1
<1>7. PICK k \in Jobs : k = "reconcile"
  BY DEF Jobs
<1>8. snapshot \in Value /\ Clean \in Value
  BY DEF NetInv, NetTypes, Value
<1>9. CASE op' = [Job("reconcile", NoRev, snapshot) EXCEPT !.bad = TRUE]
  <2>1. PICK f \in Ops : f = Job("reconcile", NoRev, snapshot) /\ f.job = "reconcile" /\ f.pc = 1
    BY <1>7, <1>8, JobFacts
  <2>2. op'.pc = 1 /\ op'.job = "reconcile"
    BY <1>9, <2>1 DEF Ops
  <2> QED
    BY <1>4, <2>2
<1>10. CASE op' = [Job("reconcile", NoRev, Clean) EXCEPT !.bad = TRUE, !.pc = Len(Order["reconcile"])]
  <2>1. PICK f \in Ops : f = Job("reconcile", NoRev, Clean) /\ f.job = "reconcile"
    BY <1>7, <1>8, JobFacts
  <2> DEFINE g == [f EXCEPT !.bad = TRUE]
  <2>2. g \in Ops /\ g.job = "reconcile" /\ g.bad
    BY <2>1 DEF Ops
  <2>3. Len(Order["reconcile"]) = 5
    BY DEF Order
  <2>4. op' = [g EXCEPT !.pc = 5]
    BY <1>10, <2>1, <2>3
  <2> HIDE DEF g
  <2>5. op'.job = "reconcile" /\ op'.bad
    BY <2>2, <2>4 DEF Ops
  <2>6. Progress'
    BY <2>5 DEF Progress
  <2>7. PendingRuns' /\ SettledIsConfirmed'
    BY <2>5, IdleFacts DEF PendingRuns, SettledIsConfirmed, Settled
  <2> QED
    BY <1>3, <2>6, <2>7 DEF WireInv
<1> QED
  BY <1>5, <1>6, <1>9, <1>10 DEF ReconcileBegin

\* The firewall loop installs what is in force, which is what runs already.
LEMMA NftTickWire ==
    ASSUME NetInv, WireInv, NftTick
    PROVE  WireInv'
<1>1. /\ op = Idle /\ serving /\ inForce # Unknown /\ wire' = [wire EXCEPT !["nft"] = inForce]
      /\ UNCHANGED <<rev, intent, op, inForce, blocked, serving, keaFile, keaSnap, diskErr, missed>>
  BY DEF NftTick, LockFree, db, files, memory
<1>2. InFlight' = InFlight /\ Pending' = Pending /\ Active' = Active /\ Confirmed' = Confirmed
  BY <1>1, SameRevs
<1>3. inForce \in Value /\ wire \in [Layers -> Value]
  BY DEF NetInv, NetTypes, WireInv, WireTypes
<1>4. WireTypes' /\ Bootstrapped'
  BY <1>1, <1>3, OtherLayerTypes DEF Layers
<1>5. Progress'
  BY <1>1, IdleFacts DEF Progress
<1>6. \A layer \in Layers : wire'[layer] = IF layer = "nft" THEN inForce ELSE wire[layer]
  BY <1>1, <1>3
<1>7. PendingRuns'
  BY <1>1, <1>2, <1>6, IdleFacts DEF WireInv, PendingRuns, Runs, Has, Serving
<1>8. wire'.bridges = wire.bridges /\ wire'.dhcp = wire.dhcp /\ wire'.dns = wire.dns /\ wire'.nft = inForce
  BY <1>6 DEF Layers
<1>9. Pending = {} /\ blocked = NotBlocked => inForce = Confirmed
  BY <1>1, IdleFacts DEF NetInv, FreeIsConfirmed
<1>10. SettledIsConfirmed'
  BY <1>1, <1>2, <1>8, <1>9 DEF WireInv, SettledIsConfirmed, Settled
<1> QED
  BY <1>4, <1>5, <1>7, <1>10 DEF WireInv

\* The DHCP server's file is saved after all, or what is in force is pushed to it again.
LEMMA PortalRefreshWire ==
    ASSUME NetInv, WireInv, PortalRefresh
    PROVE  WireInv'
<1>1. op = Idle /\ serving /\ UNCHANGED <<rev, intent, op, inForce, blocked, serving, keaSnap, missed>>
  BY DEF PortalRefresh, LockFree, db
<1>2. InFlight' = InFlight /\ Pending' = Pending /\ Active' = Active /\ Confirmed' = Confirmed
  BY <1>1, SameRevs
<1>3. Progress'
  BY <1>1, IdleFacts DEF Progress
<1>4. CASE Active # {} /\ keaFile' = Confirmed /\ diskErr' = FALSE /\ UNCHANGED wire
  <2>1. Confirmed \in Value
    BY <1>4, ConfirmedIs DEF NetInv, Revisions, Value
  <2>2. diskErr' \in BOOLEAN
    BY <1>4
  <2>3. WireTypes' /\ Bootstrapped'
    BY <1>1, <1>2, <1>4, <2>1, <2>2 DEF WireInv, WireTypes, Bootstrapped
  <2>4. PendingRuns'
    BY <1>1, <1>2, <1>4 DEF WireInv, PendingRuns, Runs, Has
  <2>5. SettledIsConfirmed'
    BY <1>1, <1>2, <1>4 DEF WireInv, SettledIsConfirmed, Settled
  <2> QED
    BY <1>3, <2>3, <2>4, <2>5 DEF WireInv
<1>5. CASE /\ inForce # Unknown /\ wire.dhcp \notin {Clean, inForce}
           /\ wire' = [wire EXCEPT !["dhcp"] = inForce] /\ UNCHANGED <<keaFile, diskErr>>
  <2>1. inForce \in Value /\ wire \in [Layers -> Value] /\ keaFile \in Value
    BY DEF NetInv, NetTypes, WireInv, WireTypes
  <2>2. keaSnap' \in BOOLEAN /\ diskErr' \in BOOLEAN
    BY <1>1, <1>5 DEF WireInv, WireTypes
  <2>3. Active = {} => keaSnap'
    BY <1>1, <1>5 DEF WireInv, Bootstrapped
  <2>4. WireTypes' /\ Bootstrapped'
    BY <1>1, <1>5, <2>1, <2>2, <2>3, DhcpTypes DEF WireInv, Bootstrapped
  <2>5. \A layer \in Layers : wire'[layer] = IF layer = "dhcp" THEN inForce ELSE wire[layer]
    BY <1>5, <2>1
  <2>6. PendingRuns'
    BY <1>1, <1>2, <2>5, IdleFacts DEF WireInv, PendingRuns, Runs, Has, Serving
  <2>7. wire'.bridges = wire.bridges /\ wire'.nft = wire.nft /\ wire'.dns = wire.dns
    BY <2>5 DEF Layers
  <2>8. Pending = {} /\ blocked = NotBlocked => inForce = Confirmed
    BY <1>1, <1>5, IdleFacts DEF NetInv, FreeIsConfirmed
  <2>9. SettledIsConfirmed'
    BY <1>1, <1>2, <1>5, <2>7, <2>8 DEF WireInv, SettledIsConfirmed, Settled
  <2> QED
    BY <1>3, <2>4, <2>6, <2>9 DEF WireInv
<1> QED
  BY <1>4, <1>5 DEF PortalRefresh, Persisted

\* The process is gone.
LEMMA LostWire ==
    ASSUME WireInv, MemoryLost, UNCHANGED <<rev, intent, keaFile, keaSnap>>, wire' \in [Layers -> Value],
           wire.dhcp = Clean /\ keaFile = Clean => wire'.dhcp = Clean
    PROVE  WireInv'
<1>1. op' = Idle /\ ~serving' /\ diskErr' = FALSE
  BY DEF MemoryLost
<1>2. Active' = Active
  BY SameRevs
<1>3. diskErr' \in BOOLEAN
  BY <1>1
<1>4. WireTypes' /\ Bootstrapped'
  BY <1>1, <1>2, <1>3 DEF WireInv, WireTypes, Bootstrapped
<1>5. Progress' /\ PendingRuns' /\ SettledIsConfirmed'
  BY <1>1, RefusedWire
<1> QED
  BY <1>4, <1>5 DEF WireInv

\* A crash, possibly in the middle of a layer.
LEMMA CrashWire ==
    ASSUME NetInv, WireInv, Crash
    PROVE  WireInv'
<1>1. MemoryLost /\ UNCHANGED <<rev, intent, keaFile, keaSnap>>
  BY DEF Crash, db, files
<1>2. wire \in [Layers -> Value] /\ "dhcp" \in Layers
  BY DEF WireInv, WireTypes, Layers
<1>3. CASE UNCHANGED wire
  BY <1>1, <1>2, <1>3, LostWire
<1>4. CASE \E layer \in Layers : Torn(layer)
  <2>1. PICK layer \in Layers : Torn(layer)
    BY <1>4
  <2>2. PICK v \in Value : /\ wire' = [wire EXCEPT ![layer] = v]
                           /\ layer = "dhcp" /\ wire.dhcp = Clean => v = Clean
    BY <2>1, TornFacts DEF WireInv
  <2>3. wire' \in [Layers -> Value] /\ (wire.dhcp = Clean => wire'.dhcp = Clean)
    BY <1>2, <2>2
  <2> QED
    BY <1>1, <2>3, LostWire
<1> QED
  BY <1>3, <1>4 DEF Crash

\* A restart of the appliance: the DHCP server starts from its file.
LEMMA RebootWire ==
    ASSUME NetInv, WireInv, Reboot
    PROVE  WireInv'
<1>1. MemoryLost /\ UNCHANGED <<rev, intent, keaFile, keaSnap>>
  BY DEF Reboot, db, files
<1>2. wire \in [Layers -> Value] /\ keaFile \in Value /\ Clean \in Value /\ wire.netplan \in Value
  BY DEF WireInv, WireTypes, Layers, Value
<1>3. wire' = [[[wire EXCEPT !["bridges"] = wire.netplan] EXCEPT !["nft"] = Clean] EXCEPT !["dhcp"] = keaFile]
  BY DEF Reboot
<1>4. wire' \in [Layers -> Value] /\ wire'.dhcp = keaFile
  BY <1>2, <1>3 DEF Layers
<1> QED
  BY <1>1, <1>4, LostWire

\* The service starts: nothing is claimed before it serves.
LEMMA BootWire ==
    ASSUME NetInv, WireInv, Boot
    PROVE  WireInv'
<1>1. /\ UNCHANGED <<rev, intent, op, inForce, serving, wire, keaFile, keaSnap, diskErr, missed>> /\ ~serving
  BY DEF Boot, db, files, NetInv, Revisions
<1>2. Active' = Active /\ Confirmed' = Confirmed
  BY <1>1, SameRevs
<1>3. WireTypes' /\ Bootstrapped'
  BY <1>1, <1>2, SameWireTypes
<1>4. Progress'
  BY <1>1, <1>2 DEF WireInv, Progress, Runs, Has, HasDhcp
<1>5. PendingRuns' /\ SettledIsConfirmed'
  BY <1>1 DEF PendingRuns, SettledIsConfirmed, Settled
<1> QED
  BY <1>3, <1>4, <1>5 DEF WireInv

\* Every step keeps the invariant.
LEMMA NextWire ==
    NetInv /\ WireInv /\ [Next]_vars => WireInv'
<1> SUFFICES ASSUME NetInv, WireInv, [Next]_vars PROVE WireInv'
  OBVIOUS
<1>1. CASE UNCHANGED vars
  BY <1>1, StillWire, OverlookedSame DEF vars, wireKept
<1>2. ASSUME NEW r \in Revs, RejectApply(r) PROVE WireInv'
  BY <1>2, RejectWire
<1>3. ASSUME NEW r \in Revs, Confirm(r) PROVE WireInv'
  BY <1>3, ConfirmWire
<1>4. ASSUME NEW r \in Revs, WatchdogDecides(r) \/ OperatorDecides(r) \/ OperatorGivesUp(r) PROVE WireInv'
  BY <1>4, StillWire, OverlookedSame DEF WatchdogDecides, OperatorDecides, OperatorGivesUp, Ask, db, files, wireKept
<1>5. ASSUME NEW r \in Revs, NEW c \in Config, BeginApply(r, c) PROVE WireInv'
  BY <1>5, BeginApplyWire
<1>6. ASSUME NEW r \in Revs, NEW who \in Who, RollbackBegin(who, r) PROVE WireInv'
  BY <1>6, RollbackBeginWire
<1>7. CASE LayerStep
  BY <1>7, BridgesWire, NetplanWire, NftWire, DhcpWire, DnsWire DEF LayerStep
<1>8. CASE RecordStep
  BY <1>8, ApplyRecordWire, RollbackRecordWire, ReconcileRecordWire, ConfirmFilesWire DEF RecordStep
<1>9. CASE DeadlinePasses
  BY <1>9, StillWire, OverlookedSame DEF DeadlinePasses, db, files, memory, wireKept
<1>10. CASE NftTick \/ PortalRefresh
  BY <1>10, NftTickWire, PortalRefreshWire
<1>11. CASE Recover \/ Reassert \/ Reclaim
  BY <1>11, StillWire, OverlookedSame DEF Recover, Reassert, Reclaim, db, files, wireKept
<1>12. CASE ReconcileBegin
  BY <1>12, ReconcileBeginWire
<1>13. CASE Crash \/ Reboot \/ Boot
  BY <1>13, CrashWire, RebootWire, BootWire
<1> QED
  BY <1>1, <1>2, <1>3, <1>4, <1>5, <1>6, <1>7, <1>8, <1>9, <1>10, <1>11, <1>12, <1>13 DEF Next

-----------------------------------------------------------------------------
(* What a settled appliance runs *)

\* For every operation: which of the layers behind it hold its target, and which it passed over without a word, through
\* failures, crashes and restarts at any step.
THEOREM WireInvariance == Spec => [](NetInv /\ WireInv)
<1>1. Init => WireInv
  BY InitWire
<1>2. NetInv /\ WireInv /\ [Next]_vars => WireInv'
  BY NextWire
<1> QED
  BY <1>1, <1>2, NetworkInvariance, PTL DEF Spec

\* Once no change awaits a decision and none is refused, every layer that the last operation on it did not pass over
\* runs the confirmed configuration (acquireOp, rollback, markRollbackIncomplete and the boot reconcile together), also
\* where a revision was left 'applying'.
THEOREM SettledRunsConfirmed == Spec => []SettledIsConfirmed
<1>1. NetInv /\ WireInv => SettledIsConfirmed
  BY DEF WireInv
<1> QED
  BY <1>1, WireInvariance, PTL

\* Only a confirmation makes a pending revision the active one.
LEMMA OnlyConfirmActivates ==
    ASSUME NetInv, [Next]_vars, NEW r \in Revs, rev[r] = "pending", rev'[r] = "active"
    PROVE  Confirm(r)
<1>1. rev \in [Revs -> RevStates]
  BY DEF NetInv, NetTypes
<1>2. rev' # rev
  OBVIOUS
<1>3. ASSUME NEW s \in Revs, NEW x \in {"failed", "applying", "pending", "rolled_back"},
             rev' = rev \/ rev' = [rev EXCEPT ![s] = x]
      PROVE  FALSE
  BY <1>1, <1>3
<1>4. ASSUME NEW s \in Revs, RejectApply(s) PROVE FALSE
  BY <1>3, <1>4 DEF RejectApply
<1>5. ASSUME NEW s \in Revs, NEW c \in Config, BeginApply(s, c) PROVE FALSE
  BY <1>3, <1>5 DEF BeginApply
<1>6. ASSUME NEW s \in Revs, Confirm(s) PROVE Confirm(r)
  <2>1. rev' = [q \in Revs |-> IF q = s THEN "active" ELSE IF q \in Active THEN "superseded" ELSE rev[q]]
    BY <1>6 DEF Confirm
  <2>2. r = s
    BY <2>1
  <2> QED
    BY <1>6, <2>2
<1>7. ASSUME NEW s \in Revs, WatchdogDecides(s) \/ OperatorDecides(s) \/ OperatorGivesUp(s) PROVE FALSE
  BY <1>2, <1>7 DEF WatchdogDecides, OperatorDecides, OperatorGivesUp, Ask, db
<1>8. ASSUME NEW s \in Revs, NEW who \in Who, RollbackBegin(who, s) PROVE FALSE
  BY <1>2, <1>8 DEF RollbackBegin, db
<1>9. CASE LayerStep
  BY <1>2, <1>9 DEF LayerStep, Bridges, Netplan, Nft, Dhcp, Dns, Kept, db
<1>10. CASE ApplyRecord
  <2>1. op.r \in Revs
    BY <1>10 DEF ApplyRecord, NetInv, Applying
  <2> QED
    BY <1>3, <1>10, <2>1 DEF ApplyRecord
<1>11. CASE RollbackRecord
  <2>1. op.r \in Revs
    BY <1>11, RollbackEnd DEF RollbackRecord, InFlight
  <2>2. rev' = rev \/ rev' = [rev EXCEPT ![op.r] = "rolled_back"]
    BY <1>11 DEF RollbackRecord
  <2> QED
    BY <1>3, <2>1, <2>2
<1>12. CASE ReconcileRecord \/ ConfirmFiles
  BY <1>2, <1>12 DEF ReconcileRecord, ConfirmFiles, db
<1>13. CASE DeadlinePasses \/ NftTick \/ PortalRefresh \/ Recover \/ Reassert \/ Reclaim \/ ReconcileBegin
  BY <1>2, <1>13 DEF DeadlinePasses, NftTick, PortalRefresh, Recover, Reassert, Reclaim, ReconcileBegin, db
<1>14. CASE Crash \/ Reboot \/ Boot
  BY <1>2, <1>14 DEF Crash, Reboot, Boot, db
<1>15. CASE UNCHANGED vars
  BY <1>2, <1>15 DEF vars
<1> QED
  BY <1>4, <1>5, <1>6, <1>7, <1>8, <1>9, <1>10, <1>11, <1>12, <1>13, <1>14, <1>15 DEF Next, RecordStep

\* A revision is recorded as confirmed only while every layer that was not passed over on the way to an equal
\* configuration runs it (Confirm's runningIs and the lock).
THEOREM ConfirmsWhatRuns == Spec => ConfirmRecordsRunning
<1>1. NetInv /\ WireInv /\ [Next]_vars =>
         [\A r \in Revs : rev[r] = "pending" /\ rev'[r] = "active" =>
             \A layer \in Serving : layer \in missed \/ wire[layer] = intent[r]]_vars
  BY OnlyConfirmActivates, ConfirmWire DEF Runs, Has, Serving
<1> QED
  BY <1>1, WireInvariance, PTL DEF Spec, ConfirmRecordsRunning

\* Only the record of its rollback makes a revision in flight a rolled back one.
LEMMA OnlyRollbackRecords ==
    ASSUME NetInv, [Next]_vars, NEW r \in InFlight, rev'[r] = "rolled_back"
    PROVE  RollbackRecord /\ r = op.r
<1>1. rev \in [Revs -> RevStates] /\ r \in Revs /\ rev[r] # "rolled_back"
  BY DEF NetInv, NetTypes, InFlight
<1>2. rev' # rev
  BY <1>1
<1>3. ASSUME NEW s \in Revs, NEW x \in {"failed", "applying", "pending"}, rev' = rev \/ rev' = [rev EXCEPT ![s] = x]
      PROVE  FALSE
  BY <1>1, <1>3
<1>4. ASSUME NEW s \in Revs, RejectApply(s) PROVE FALSE
  BY <1>3, <1>4 DEF RejectApply
<1>5. ASSUME NEW s \in Revs, NEW c \in Config, BeginApply(s, c) PROVE FALSE
  BY <1>3, <1>5 DEF BeginApply
<1>6. ASSUME NEW s \in Revs, Confirm(s) PROVE FALSE
  <2>1. rev' = [q \in Revs |-> IF q = s THEN "active" ELSE IF q \in Active THEN "superseded" ELSE rev[q]]
    BY <1>6 DEF Confirm
  <2> QED
    BY <1>1, <2>1
<1>7. ASSUME NEW s \in Revs, WatchdogDecides(s) \/ OperatorDecides(s) \/ OperatorGivesUp(s) PROVE FALSE
  BY <1>2, <1>7 DEF WatchdogDecides, OperatorDecides, OperatorGivesUp, Ask, db
<1>8. ASSUME NEW s \in Revs, NEW who \in Who, RollbackBegin(who, s) PROVE FALSE
  BY <1>2, <1>8 DEF RollbackBegin, db
<1>9. CASE LayerStep
  BY <1>2, <1>9 DEF LayerStep, Bridges, Netplan, Nft, Dhcp, Dns, Kept, db
<1>10. CASE ApplyRecord
  <2>1. op.r \in Revs
    BY <1>10 DEF ApplyRecord, NetInv, Applying
  <2> QED
    BY <1>3, <1>10, <2>1 DEF ApplyRecord
<1>11. CASE RollbackRecord
  <2>1. rev' = rev \/ rev' = [rev EXCEPT ![op.r] = "rolled_back"]
    BY <1>11 DEF RollbackRecord
  <2>2. r = op.r
    BY <1>1, <2>1
  <2> QED
    BY <1>11, <2>2
<1>12. CASE ReconcileRecord \/ ConfirmFiles
  BY <1>2, <1>12 DEF ReconcileRecord, ConfirmFiles, db
<1>13. CASE DeadlinePasses \/ NftTick \/ PortalRefresh \/ Recover \/ Reassert \/ Reclaim \/ ReconcileBegin
  BY <1>2, <1>13 DEF DeadlinePasses, NftTick, PortalRefresh, Recover, Reassert, Reclaim, ReconcileBegin, db
<1>14. CASE Crash \/ Reboot \/ Boot
  BY <1>2, <1>14 DEF Crash, Reboot, Boot, db
<1>15. CASE UNCHANGED vars
  BY <1>2, <1>15 DEF vars
<1> QED
  BY <1>4, <1>5, <1>6, <1>7, <1>8, <1>9, <1>10, <1>11, <1>12, <1>13, <1>14, <1>15 DEF Next, RecordStep

\* What holds of "an empty result means the appliance is back on the previous configuration" (rollback): a rollback
\* recorded without unfinished steps has brought every layer back to the confirmed configuration, but for the layers it
\* passed over without a word (missed): all of them when the target's path could not be read, the ones whose file could
\* not be read, and a DHCP server left without a socket.  That these exceptions occur is what the run
\* clean_rollback_restores shows.
CleanRollbackReaches ==
    [][\A r \in Revs : r \in InFlight /\ rev'[r] = "rolled_back" /\ r \notin unresolved' => Reached]_vars

\* A rollback recorded clean has restored all that it did not pass over.
THEOREM RollbackRestores == Spec => CleanRollbackReaches
<1>1. ASSUME NetInv, WireInv, [Next]_vars, NEW r \in InFlight, rev'[r] = "rolled_back", r \notin unresolved'
      PROVE  Reached
  <2>1. RollbackRecord /\ r = op.r
    BY <1>1, OnlyRollbackRecords
  <2>2. rev' # rev
    BY <1>1 DEF InFlight
  <2>3. At("record") /\ op.job \in {"rollback", "clean"}
    BY <2>1 DEF RollbackRecord
  <2>4. ~op.bad
    BY <1>1, <2>1, <2>2 DEF RollbackRecord
  <2> QED
    BY <1>1, <2>3, <2>4, AtEnd
<1>2. NetInv /\ WireInv /\ [Next]_vars =>
         [\A r \in Revs : r \in InFlight /\ rev'[r] = "rolled_back" /\ r \notin unresolved' => Reached]_vars
  BY <1>1
<1> QED
  BY <1>2, WireInvariance, PTL DEF Spec, CleanRollbackReaches

=============================================================================
