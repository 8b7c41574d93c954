----------------------- MODULE FinancialRestoreProofs -----------------------
(***************************************************************************)
(* Theorems about FinancialRestore, for every set of charges and any       *)
(* number of attempts, backups, restores, faults and reboots.              *)
(*                                                                         *)
(* The argument: only a database that was set aside or loaded from a       *)
(* backup may still queue a charge that was sent, and every such database  *)
(* is older than the marker, because the marker is advanced between the    *)
(* loading and the first rename.  A live database reaches the marker's     *)
(* generation only by entering recovery, which leaves nothing sendable.    *)
(***************************************************************************)
EXTENDS FinancialRestore, TLAPS

-----------------------------------------------------------------------------
(* The inductive invariant *)

\* A row belongs to a charge that was made, and what is queued was not handed over or is
\* known not to have been sent.
KnownRow(r, i, charges) ==
    /\ IF r.st = "NONE" THEN r.out = "NONE" ELSE i \in charges
    /\ r.st = "QUEUED" => r.out \in {"NONE", "NOT_SENT"}

Known(d, charges) == d # NoDb => \A i \in Items : KnownRow(d.rows[i], i, charges)

RowsKnown ==
    /\ Known(live, made) /\ Known(aside, made) /\ Known(staging, made)
    /\ \A b \in backups : Known(b, made)
    /\ \A i \in Items : sent[i] > 0 => i \in made

\* No database is ahead of the marker; from the advance of the marker to the record of the
\* restore both the original and the backup are behind it.
Generations ==
    /\ live # NoDb => live.gen <= marker
    /\ aside # NoDb => aside.gen < marker
    /\ staging # NoDb => staging.gen <= marker
    /\ \A b \in backups : b.gen <= marker
    /\ step \in {"staged", "quiesced"} => marker < MaxRestores
    /\ step = "quiesced" => next = marker + 1
    /\ step \in {"marked", "aside", "swapped", "verified"} => next = marker
    /\ step \in {"marked", "swapped", "verified"} => live.gen < marker
    /\ step \in {"marked", "aside"} => staging.gen < marker

\* Where runRestore is tells which databases exist and that nobody else is running; edged
\* serves only on a database of the marker's generation; before the first restore the
\* live database has every charge.
Stages ==
    /\ step \in {"staged", "quiesced", "marked", "swapped", "verified", "recorded"} => live # NoDb
    /\ step \in {"staged", "quiesced", "marked", "aside"} => staging # NoDb
    /\ step \in {"aside", "swapped", "verified"} => aside # NoDb
    /\ step = "aside" => live = NoDb
    /\ live = NoDb => aside # NoDb
    /\ step \notin {"idle", "staged"} => edged = "down"
    /\ edged = "up" => live # NoDb /\ live.gen = marker
    /\ marker = 0 => live # NoDb /\ \A i \in made \cap Items : live.rows[i].st # "NONE"

\* The lane's attempt i, not yet handed over, as row r of charge i has it.
InHand(r, i) ==
    /\ lane.i = i /\ lane.res \in {"begun", "handed", "NOT_SENT"}
    /\ r.st = "IN_FLIGHT" /\ r.out = "SENDING" /\ r.n = lane.n

SafeRow(r, i) == r.st = "QUEUED" \/ InHand(r, i) => sent[i] = 0

\* What a database of the marker's generation queues or has in the lane's hand was not sent.
NothingSentWaits == live # NoDb /\ live.gen = marker => \A i \in Items : SafeRow(live.rows[i], i)

RestoreInv == TypeOK /\ RowsKnown /\ Generations /\ Stages /\ NothingSentWaits

\* The row of a command pmsd still has: its attempt, and never one that may go out again.
CommandRow(r, c) == r.n = c.n /\ r.st # "QUEUED" /\ r.out \notin {"NONE", "NOT_SENT"}

\* A purchase is committed once; pmsd has commands only while it runs on the live database,
\* at most one for a charge, none for the attempt the lane begins or knows not to be sent;
\* what it found authorised after edged had reconciled was not sent before.
Handed ==
    /\ opening \cap made = {}
    /\ step \notin {"idle", "staged"} => pmsd = "down"
    /\ cmds # {} => pmsd = "up" /\ live # NoDb
    /\ \A c \in cmds : CommandRow(live.rows[c.i], c)
    /\ \A c, d \in cmds : c.i = d.i => c = d
    /\ lane.res \in {"begun", "NOT_SENT"} => \A c \in cmds : c.i # lane.i
    /\ \A c \in cmds : ~c.early => sent[c.i] = 0

FullInv == RestoreInv /\ Handed

-----------------------------------------------------------------------------
(* Databases *)

\* A missing database is not a database.
LEMMA NoDbIsNone == \A d \in Database : d # NoDb
BY DEF Database, NoDb

\* An update of one row.
LEMMA SetRowFacts ==
    ASSUME live \in Database, NEW i \in Items, NEW r \in Row, SetRow(i, r)
    PROVE  /\ live' \in Database /\ live' # NoDb
           /\ live'.gen = live.gen
           /\ live'.rows = [live.rows EXCEPT ![i] = r]
BY NoDbIsNone DEF SetRow, Database

Stat == {"NONE", "QUEUED", "IN_FLIGHT", "HELD_RECOVERY", "DONE"}
Outcome == {"NONE", "SENDING", "NOT_SENT", "ACKED", "UNKNOWN"}

\* The row of a charge that was just made.
LEMMA NewRowFacts ==
    /\ NoRow \in Row /\ NewRow \in Row
    /\ NewRow.st = "QUEUED" /\ NewRow.out = "NONE"
<1>1. NoRow \in Row /\ NoRow.out = "NONE"
  BY RestoreBounds DEF Row, NoRow, Work
<1> QED
  BY <1>1 DEF Row, Work, NewRow

\* The row of a charge that is claimed.
LEMMA ClaimedRowFacts ==
    ASSUME NEW q \in Row, q.n < MaxTries
    PROVE  LET r == [q EXCEPT !.st = "IN_FLIGHT", !.out = "SENDING", !.n = @ + 1, !.auth = FALSE]
           IN  r \in Row /\ r.st = "IN_FLIGHT"
<1> DEFINE e == [q EXCEPT !.st = "IN_FLIGHT", !.out = "SENDING"]
           f == [e EXCEPT !.n = q.n + 1, !.auth = FALSE]
<1>1. e \in Row /\ e.st = "IN_FLIGHT" /\ e.n = q.n
  BY DEF Row
<1>2. [q EXCEPT !.st = "IN_FLIGHT", !.out = "SENDING", !.n = q.n + 1, !.auth = FALSE] = f
  BY DEF Row
<1>3. q.n + 1 \in 0 .. MaxTries
  BY RestoreBounds DEF Row
<1> HIDE DEF e
<1>4. f \in Row /\ f.st = "IN_FLIGHT"
  BY <1>1, <1>3 DEF Row
<1> QED
  BY <1>2, <1>4

\* The row of a held charge: only the state, the hold and the settlement change.
LEMMA HoldRowFacts ==
    ASSUME NEW r \in Row, NEW h \in {"open", r.hold}
    PROVE  LET q == [r EXCEPT !.st = "HELD_RECOVERY", !.hold = h]
           IN  q \in Row /\ q.st = "HELD_RECOVERY" /\ q.n = r.n /\ q.out = r.out
BY DEF Row

\* The settlement of a row is held, or loses the hold of an earlier epoch.
LEMMA SettleRowFacts ==
    ASSUME NEW r \in Row, NEW w \in Work
    PROVE  LET q == [r EXCEPT !.settle = w]
           IN  q \in Row /\ q.st = r.st /\ q.n = r.n /\ q.out = r.out /\ q.hold = r.hold
BY DEF Row

\* A new epoch keeps every row but for the hold on its settlement.
LEMMA NewEpochFacts ==
    ASSUME NEW d \in Database
    PROVE  /\ NewEpoch(d) \in Database
           /\ \A i \in Items : /\ NewEpoch(d).rows[i].st = d.rows[i].st
                               /\ NewEpoch(d).rows[i].n = d.rows[i].n
                               /\ NewEpoch(d).rows[i].out = d.rows[i].out
<1> DEFINE rows2 == [i \in Items |-> [d.rows[i] EXCEPT !.settle = Unhold(@)]]
           card2 == Unhold(d.card)
<1>1. \A i \in Items : d.rows[i] \in Row /\ Unhold(d.rows[i].settle) \in Work
  BY DEF Database, Row, Unhold, Work
<1>2. rows2 \in [Items -> Row] /\ \A i \in Items :
        rows2[i].st = d.rows[i].st /\ rows2[i].n = d.rows[i].n /\ rows2[i].out = d.rows[i].out
  BY <1>1, SettleRowFacts
<1>3. card2 \in Work
  BY DEF Database, Unhold, Work
<1>4. NewEpoch(d) = [d EXCEPT !.recovery = TRUE, !.held = {}, !.card = card2, !.rows = rows2]
  BY DEF NewEpoch
<1> HIDE DEF rows2, card2
<1> QED
  BY <1>2, <1>3, <1>4 DEF Database

\* Holding the rails leaves nothing sendable and loses no charge.
LEMMA HoldRailsFacts ==
    ASSUME NEW d \in Database
    PROVE  /\ HoldRails(d) \in Database
           /\ HoldRails(d).gen = d.gen
           /\ \A i \in Items :
                /\ HoldRails(d).rows[i].st \notin {"QUEUED", "IN_FLIGHT"}
                /\ HoldRails(d).rows[i].st = "NONE" <=> d.rows[i].st = "NONE"
                /\ HoldRails(d).rows[i].n = d.rows[i].n
                /\ HoldRails(d).rows[i].out = d.rows[i].out
<1> DEFINE caught == {i \in Items : d.rows[i].st \in {"QUEUED", "IN_FLIGHT"}}
           held2 == d.held \cup caught
           caughtRow(i) == [d.rows[i] EXCEPT !.st = "HELD_RECOVERY", !.hold = IF i \in d.held THEN @ ELSE "open"]
           posting(i) == IF i \in caught THEN caughtRow(i) ELSE d.rows[i]
           rows2 == [i \in Items |-> [posting(i) EXCEPT !.settle = Hold(@)]]
           card2 == Hold(d.card)
<1>1. \A i \in Items : d.rows[i] \in Row
  BY DEF Database
<1>2. \A i \in Items : caughtRow(i) \in Row /\ caughtRow(i).st = "HELD_RECOVERY"
                       /\ caughtRow(i).n = d.rows[i].n /\ caughtRow(i).out = d.rows[i].out
  <2> SUFFICES ASSUME NEW i \in Items
               PROVE  caughtRow(i) \in Row /\ caughtRow(i).st = "HELD_RECOVERY"
                      /\ caughtRow(i).n = d.rows[i].n /\ caughtRow(i).out = d.rows[i].out
    OBVIOUS
  <2> DEFINE r == d.rows[i]
             h == IF i \in d.held THEN r.hold ELSE "open"
  <2>1. r \in Row /\ h \in {"open", r.hold} /\ caughtRow(i) = [r EXCEPT !.st = "HELD_RECOVERY", !.hold = h]
    BY <1>1
  <2> HIDE DEF h
  <2> QED
    BY <2>1, HoldRowFacts
<1> HIDE DEF caughtRow
<1>3. \A i \in Items : /\ posting(i) \in Row /\ posting(i).st \notin {"QUEUED", "IN_FLIGHT"}
                       /\ posting(i).st = "NONE" <=> d.rows[i].st = "NONE"
                       /\ posting(i).n = d.rows[i].n /\ posting(i).out = d.rows[i].out
  BY <1>1, <1>2
<1> HIDE DEF posting
<1>4. rows2 \in [Items -> Row] /\ \A i \in Items :
        rows2[i].st = posting(i).st /\ rows2[i].n = posting(i).n /\ rows2[i].out = posting(i).out
  <2>1. \A i \in Items : Hold(posting(i).settle) \in Work
    BY <1>3 DEF Row, Hold, Work
  <2> QED
    BY <1>3, <2>1, SettleRowFacts
<1>5. card2 \in Work /\ held2 \in SUBSET Items
  BY DEF Database, Hold, Work
<1>6. HoldRails(d) = [d EXCEPT !.rows = rows2, !.held = held2, !.card = card2]
  BY DEF HoldRails, posting, caughtRow
<1> HIDE DEF rows2, held2, card2
<1>7. HoldRails(d) \in Database /\ HoldRails(d).gen = d.gen /\ HoldRails(d).rows = rows2
  BY <1>4, <1>5, <1>6 DEF Database
<1> QED
  BY <1>3, <1>4, <1>7

\* Entering recovery leaves nothing sendable and loses no charge.
LEMMA EnterRecoveryFacts ==
    ASSUME NEW d \in Database, NEW gen \in 0 .. MaxRestores
    PROVE  /\ EnterRecovery(d, gen) \in Database
           /\ EnterRecovery(d, gen) # NoDb
           /\ EnterRecovery(d, gen).gen = gen
           /\ \A i \in Items :
                /\ EnterRecovery(d, gen).rows[i].st \notin {"QUEUED", "IN_FLIGHT"}
                /\ EnterRecovery(d, gen).rows[i].st = "NONE" <=> d.rows[i].st = "NONE"
                /\ EnterRecovery(d, gen).rows[i].n = d.rows[i].n
                /\ EnterRecovery(d, gen).rows[i].out = d.rows[i].out
<1> DEFINE e == IF d.recovery THEN d ELSE NewEpoch(d)
           f == [e EXCEPT !.gen = gen]
<1>1. e \in Database /\ \A i \in Items :
        e.rows[i].st = d.rows[i].st /\ e.rows[i].n = d.rows[i].n /\ e.rows[i].out = d.rows[i].out
  BY NewEpochFacts
<1> HIDE DEF e
<1>2. f \in Database /\ f.gen = gen /\ f.rows = e.rows
  BY <1>1 DEF Database
<1>3. EnterRecovery(d, gen) = HoldRails(f)
  BY Zenon DEF EnterRecovery, e
<1> HIDE DEF f
<1> QED
  BY <1>1, <1>2, <1>3, HoldRailsFacts, NoDbIsNone

-----------------------------------------------------------------------------
(* Steps that leave the databases where they are *)

\* The live database is updated in place, within its generation: it loses no row, and the
\* other databases and the restore are not touched.
LEMMA UpdateInPlace ==
    ASSUME RestoreInv, live # NoDb, live' \in Database, live'.gen = live.gen,
           UNCHANGED <<aside, staging, backups, marker, step, next, edged>>,
           made \subseteq made', Known(live', made'),
           \A i \in Items : sent'[i] > 0 => i \in made',
           \A i \in made' \cap Items : live'.rows[i].st = "NONE" => i \in made /\ live.rows[i].st = "NONE"
    PROVE  RowsKnown' /\ Generations' /\ Stages'
<1>0. live' # NoDb
  BY NoDbIsNone
<1>1. RowsKnown'
  <2>1. \A d : Known(d, made) => Known(d, made')
    BY DEF Known, KnownRow
  <2> QED
    BY <2>1 DEF RestoreInv, RowsKnown
<1>2. Generations'
  BY <1>0 DEF RestoreInv, Generations
<1>3. Stages'
  BY <1>0 DEF RestoreInv, Stages
<1> QED
  BY <1>1, <1>2, <1>3

\* The lane or the PMS moves and no database changes.
LEMMA NoUpdate ==
    ASSUME RestoreInv, UNCHANGED <<live, aside, staging, backups, marker, step, next, edged, made>>,
           \A i \in Items : sent'[i] > 0 => i \in made
    PROVE  RowsKnown' /\ Generations' /\ Stages'
BY DEF RestoreInv, RowsKnown, Generations, Stages

\* The commit of a purchase by room charge.
LEMMA CreateKeeps ==
    ASSUME FullInv, NEW i \in Items, CommitCharge(i)
    PROVE  RestoreInv'
<1> USE DEF FullInv
<1>1. NewRow \in Row /\ NewRow.st = "QUEUED" /\ NewRow.out = "NONE"
  BY NewRowFacts
<1>2. live \in Database /\ live # NoDb /\ SetRow(i, NewRow)
  BY DEF CommitCharge, Present, RestoreInv, TypeOK
<1>3. live' \in Database /\ live'.gen = live.gen /\ live'.rows = [live.rows EXCEPT ![i] = NewRow]
  BY <1>1, <1>2, SetRowFacts
<1>4. live.rows \in [Items -> Row]
  BY <1>2 DEF Database
<1>5. UNCHANGED <<aside, staging, backups, marker, step, next, maint, edged, pmsd, lane, cmds, sent, faults, reboots>>
      /\ made' = made \cup {i} /\ i \notin made /\ opening' \subseteq opening
  BY DEF CommitCharge, restoreVars, boundVars, Handed
<1>6. sent[i] = 0 /\ \A j \in Items : sent[j] > 0 => j \in made
  BY <1>5 DEF RestoreInv, RowsKnown, TypeOK
<1>7. Known(live', made')
  BY <1>1, <1>2, <1>3, <1>4, <1>5 DEF RestoreInv, RowsKnown, Known, KnownRow
<1>8. RowsKnown' /\ Generations' /\ Stages'
  <2>1. \A j \in made' \cap Items : live'.rows[j].st = "NONE" => j \in made /\ live.rows[j].st = "NONE"
    BY <1>1, <1>3, <1>4, <1>5 DEF RestoreInv, TypeOK
  <2> QED
    BY <1>2, <1>3, <1>5, <1>6, <1>7, <2>1, UpdateInPlace
<1>9. TypeOK'
  BY <1>3, <1>5 DEF RestoreInv, TypeOK
<1>10. NothingSentWaits'
  BY <1>1, <1>2, <1>3, <1>4, <1>5, <1>6 DEF RestoreInv, NothingSentWaits, SafeRow, InHand
<1> QED
  BY <1>8, <1>9, <1>10 DEF RestoreInv

\* A purchase is begun, or one by card is committed or concluded: no row changes.
LEMMA CardKeeps ==
    ASSUME RestoreInv, CommitCard \/ CardOutcome \/ ResolveCardHold \/ \E w \in Items \cup {Card} : BeginCreate(w)
    PROVE  RestoreInv'
<1>1. live \in Database /\ live # NoDb
  BY DEF CommitCard, CardOutcome, ResolveCardHold, BeginCreate, Present, RestoreInv, TypeOK
<1>2. live' \in Database /\ live'.gen = live.gen /\ live'.rows = live.rows
  BY <1>1 DEF CommitCard, CardOutcome, ResolveCardHold, BeginCreate, dbVars, Database, Work
<1>3. UNCHANGED <<aside, staging, backups, marker, step, next, maint, edged, pmsd, lane, cmds, sent, faults, reboots>>
      /\ made' \in {made, made \cup {Card}} /\ opening' \subseteq Items \cup {Card}
  BY DEF CommitCard, CardOutcome, ResolveCardHold, BeginCreate, dbVars, restoreVars, boundVars, RestoreInv, TypeOK
<1>c. Card \notin Items
  BY RestoreBounds DEF Card
<1>4. RowsKnown' /\ Generations' /\ Stages'
  <2>1. Known(live', made')
    BY <1>1, <1>2, <1>3 DEF RestoreInv, RowsKnown, Known, KnownRow
  <2> QED
    BY <1>1, <1>2, <1>3, <1>c, <2>1, UpdateInPlace DEF RestoreInv, RowsKnown
<1>5. TypeOK'
  BY <1>2, <1>3 DEF RestoreInv, TypeOK
<1>6. NothingSentWaits'
  BY <1>1, <1>2, <1>3 DEF RestoreInv, NothingSentWaits, SafeRow, InHand
<1> QED
  BY <1>4, <1>5, <1>6 DEF RestoreInv

\* The claim of a queued row: it was not sent, and now it is in the lane's hand.
LEMMA ClaimKeeps ==
    ASSUME RestoreInv, NEW i \in Items, Claim(i)
    PROVE  RestoreInv'
<1> DEFINE q == live.rows[i]
           r == [q EXCEPT !.st = "IN_FLIGHT", !.out = "SENDING", !.n = @ + 1, !.auth = FALSE]
<1>1. live \in Database /\ live # NoDb /\ live.rows \in [Items -> Row] /\ q \in Row
  BY DEF Claim, Present, RestoreInv, TypeOK, Database
<1>2. q.st = "QUEUED" /\ q.n < MaxTries /\ SetRow(i, r) /\ lane' = [i |-> i, n |-> q.n + 1, res |-> "begun"]
  BY DEF Claim
<1> HIDE DEF q
<1>3. r \in Row /\ r.st = "IN_FLIGHT"
  BY <1>1, <1>2, ClaimedRowFacts
<1>4. lane' \in Lane
  BY <1>1, <1>2, RestoreBounds DEF Row, Lane
<1> HIDE DEF r
<1>5. live' \in Database /\ live'.gen = live.gen /\ live'.rows = [live.rows EXCEPT ![i] = r]
  BY <1>1, <1>2, <1>3, SetRowFacts
<1>6. UNCHANGED <<aside, staging, backups, marker, step, next, maint, edged, pmsd, opening, cmds, made, sent, faults, reboots>>
  BY DEF Claim, restoreVars, boundVars
<1>7. q.st # "NONE"
  BY <1>2
<1>8. Known(live', made')
  BY <1>1, <1>3, <1>5, <1>6, <1>7 DEF RestoreInv, RowsKnown, Known, KnownRow, q
<1>9. RowsKnown' /\ Generations' /\ Stages'
  <2>1. \A j \in made' \cap Items : live'.rows[j].st = "NONE" => j \in made /\ live.rows[j].st = "NONE"
    BY <1>1, <1>3, <1>5, <1>6 DEF RestoreInv, TypeOK
  <2>2. \A j \in Items : sent'[j] > 0 => j \in made'
    BY <1>6 DEF RestoreInv, RowsKnown
  <2> QED
    BY <1>1, <1>5, <1>6, <1>8, <2>1, <2>2, UpdateInPlace
<1>10. TypeOK'
  BY <1>4, <1>5, <1>6 DEF RestoreInv, TypeOK
<1>11. NothingSentWaits'
  <2> SUFFICES ASSUME live.gen = marker, NEW j \in Items
               PROVE  SafeRow(live.rows[j], j)'
    BY <1>5, <1>6 DEF NothingSentWaits
  <2>1. SafeRow(live.rows[j], j) /\ SafeRow(live.rows[i], i)
    BY <1>1 DEF RestoreInv, NothingSentWaits
  <2>2. CASE j = i
    BY <1>2, <1>6, <2>1, <2>2 DEF SafeRow, q
  <2>3. CASE j # i
    BY <1>1, <1>2, <1>5, <1>6, <2>1, <2>3 DEF SafeRow, InHand
  <2> QED
    BY <2>2, <2>3
<1> QED
  BY <1>9, <1>10, <1>11 DEF RestoreInv

\* A command of pmsd belongs to a charge that was made and that is neither queued nor in
\* the lane's hand, unless the lane waits for it.
LEMMA CommandFacts ==
    ASSUME FullInv, NEW c \in cmds
    PROVE  /\ c \in Command /\ c.i \in Items /\ live # NoDb /\ c.i \in made
           /\ live.rows[c.i].st # "QUEUED"
           /\ InHand(live.rows[c.i], c.i) => Awaits(c)
<1>1. c \in Command /\ c.i \in Items /\ live # NoDb /\ live \in Database
  BY DEF FullInv, RestoreInv, TypeOK, Handed, Command
<1>2. CommandRow(live.rows[c.i], c)
  BY DEF FullInv, Handed
<1>3. c.i \in made
  BY <1>1, <1>2 DEF FullInv, RestoreInv, RowsKnown, Known, KnownRow, CommandRow
<1>4. InHand(live.rows[c.i], c.i) => Awaits(c)
  BY <1>2 DEF FullInv, Handed, InHand, Awaits, CommandRow
<1> QED
  BY <1>1, <1>2, <1>3, <1>4 DEF CommandRow

\* The lane after an answer.
LEMMA AnswerFacts ==
    ASSUME lane \in Lane, NEW c \in Command, NEW res \in {"ACKED", "UNKNOWN", "NOT_SENT"}, Answer(c, res)
    PROVE  /\ lane' \in Lane /\ lane'.i = lane.i /\ lane'.n = lane.n
           /\ lane'.res = IF Awaits(c) THEN res ELSE lane.res
<1>1. CASE Awaits(c)
  <2>1. lane \in [i: Items, n: 1 .. MaxTries, res: {"begun", "handed", "ACKED", "UNKNOWN", "NOT_SENT"}]
    BY <1>1 DEF Awaits, Lane, NoLane
  <2> QED
    BY <1>1, <2>1 DEF Answer, Lane
<1>2. CASE ~Awaits(c)
  BY <1>2 DEF Answer
<1> QED
  BY <1>1, <1>2

\* The posting reaches the PMS, or breaks off: the row is no longer in hand.
LEMMA WriteKeeps ==
    ASSUME FullInv, NEW c \in cmds, Write(c)
    PROVE  RestoreInv'
<1>1. c \in Command /\ c.i \in Items /\ live # NoDb /\ c.i \in made /\ live.rows[c.i].st # "QUEUED"
      /\ (InHand(live.rows[c.i], c.i) => Awaits(c))
  BY CommandFacts
<1>4. UNCHANGED <<live, aside, staging, backups, marker, step, next, maint, edged, pmsd, opening, made, reboots>>
      /\ sent' \in {sent, [sent EXCEPT ![c.i] = @ + 1]} /\ cmds' \subseteq cmds
  BY DEF Write, dbVars, restoreVars
<1>5. sent \in [Items -> Nat] /\ sent' \in [Items -> Nat]
  BY <1>1, <1>4 DEF FullInv, RestoreInv, TypeOK
<1>6. lane \in Lane /\ \E res \in {"ACKED", "UNKNOWN"} : Answer(c, res)
  BY DEF Write, FullInv, RestoreInv, TypeOK
<1>6a. lane' \in Lane /\ lane'.i = lane.i /\ lane'.n = lane.n /\ (IF Awaits(c) THEN lane'.res \in {"ACKED", "UNKNOWN"} ELSE lane'.res = lane.res)
  BY <1>1, <1>6, AnswerFacts
<1>7. faults' \in 0 .. MaxFaults
  BY RestoreBounds DEF Write, Fault, FullInv, RestoreInv, TypeOK
<1>8. TypeOK'
  BY <1>4, <1>5, <1>6a, <1>7 DEF FullInv, RestoreInv, TypeOK
<1>9. RowsKnown' /\ Generations' /\ Stages'
  <2>1. \A i \in Items : sent'[i] > 0 => i \in made
    BY <1>1, <1>4, <1>5 DEF FullInv, RestoreInv, RowsKnown
  <2> QED
    BY <1>4, <2>1, NoUpdate DEF FullInv
<1>10. NothingSentWaits'
  <2> SUFFICES ASSUME live.gen = marker, NEW j \in Items
               PROVE  SafeRow(live.rows[j], j)'
    BY <1>4 DEF NothingSentWaits
  <2>1. SafeRow(live.rows[j], j)
    BY <1>1 DEF FullInv, RestoreInv, NothingSentWaits
  <2>2. CASE j = c.i
    BY <1>1, <1>4, <1>6a, <2>2 DEF SafeRow, InHand
  <2>3. CASE j # c.i
    <3>1. sent'[j] = sent[j]
      BY <1>1, <1>4, <1>5, <2>3
    <3> QED
      BY <1>4, <1>6a, <2>1, <3>1 DEF SafeRow, InHand
  <2> QED
    BY <2>2, <2>3
<1> QED
  BY <1>8, <1>9, <1>10 DEF RestoreInv

\* The lane hands its command over, gives it up, or hears that it was not written: no
\* database changes and nothing is sent.
LEMMA LaneMoveKeeps ==
    ASSUME RestoreInv, NotTransmitted \/ Authorise \/ LostAnswer \/ \E c \in cmds : WriteRefused(c)
    PROVE  RestoreInv'
<1>1. lane \in Lane /\ cmds \subseteq Command
  BY DEF RestoreInv, TypeOK
<1>2. lane' \in Lane /\ lane'.i = lane.i /\ lane'.n = lane.n
      /\ (lane'.res \in {"begun", "handed", "NOT_SENT"} => lane.res \in {"begun", "handed", "NOT_SENT"})
  <2>1. CASE NotTransmitted \/ Authorise \/ LostAnswer
    <3>1. lane \in [i: Items, n: 1 .. MaxTries, res: {"begun", "handed", "ACKED", "UNKNOWN", "NOT_SENT"}]
          /\ lane.res \in {"begun", "handed"}
      BY <1>1, <2>1 DEF NotTransmitted, Authorise, LostAnswer, Lane
    <3> QED
      BY <2>1, <3>1 DEF NotTransmitted, Authorise, LostAnswer, Lane
  <2>2. ASSUME NEW c \in cmds, WriteRefused(c)
        PROVE  lane' \in Lane /\ lane'.i = lane.i /\ lane'.n = lane.n
               /\ (lane'.res \in {"begun", "handed", "NOT_SENT"} => lane.res \in {"begun", "handed", "NOT_SENT"})
    BY <1>1, <2>2, AnswerFacts DEF WriteRefused, Awaits
  <2> QED
    BY <2>1, <2>2
<1>3. UNCHANGED <<live, aside, staging, backups, marker, step, next, maint, edged, pmsd, opening, made, sent, reboots>>
  BY DEF NotTransmitted, Authorise, LostAnswer, WriteRefused, dbVars, restoreVars, boundVars
<1>4. cmds' \subseteq Command
  <2>1. CASE Authorise
    <3>1. lane.i \in Items /\ lane.n \in 1 .. MaxTries /\ (edged # "up") \in BOOLEAN
      BY <1>1, <2>1 DEF Authorise, Lane
    <3>2. [i |-> lane.i, n |-> lane.n, early |-> edged # "up"] \in Command
      BY <3>1 DEF Command
    <3> QED
      BY <1>1, <2>1, <3>2 DEF Authorise
  <2> QED
    BY <1>1, <2>1 DEF NotTransmitted, LostAnswer, WriteRefused
<1>5. faults' \in 0 .. MaxFaults
  BY RestoreBounds DEF NotTransmitted, Authorise, LostAnswer, WriteRefused, Fault, boundVars, RestoreInv, TypeOK
<1>6. TypeOK'
  BY <1>2, <1>3, <1>4, <1>5 DEF RestoreInv, TypeOK
<1>7. RowsKnown' /\ Generations' /\ Stages'
  BY <1>3, NoUpdate DEF RestoreInv, RowsKnown
<1>8. NothingSentWaits'
  BY <1>2, <1>3 DEF RestoreInv, NothingSentWaits, SafeRow, InHand
<1> QED
  BY <1>6, <1>7, <1>8 DEF RestoreInv

\* A row of the live database changes its state: nothing becomes queued or in hand, or it
\* was not sent.
LEMMA RowUpdateKeeps ==
    ASSUME RestoreInv, live # NoDb, NEW i \in Items, NEW r \in Row, SetRow(i, r),
           UNCHANGED <<aside, staging, backups, marker, step, next, maint, edged, pmsd, opening, cmds, made, sent, faults, reboots>>,
           lane' \in {lane, NoLane},
           KnownRow(r, i, made), r.st = "NONE" => live.rows[i].st = "NONE",
           r.st = "QUEUED" => live.gen < marker \/ sent[i] = 0,
           lane' = NoLane \/ ~InHand(r, i) \/ InHand(live.rows[i], i)
    PROVE  RestoreInv'
<1>1. live \in Database /\ live.rows \in [Items -> Row]
  BY DEF RestoreInv, TypeOK, Database
<1>2. live' \in Database /\ live'.gen = live.gen /\ live'.rows = [live.rows EXCEPT ![i] = r]
  BY <1>1, SetRowFacts
<1>3. NoLane \in Lane /\ NoLane.res = "none"
  BY DEF Lane, NoLane
<1>4. TypeOK'
  BY <1>2, <1>3 DEF RestoreInv, TypeOK
<1>5. RowsKnown' /\ Generations' /\ Stages'
  <2>1. Known(live', made')
    BY <1>1, <1>2 DEF RestoreInv, RowsKnown, Known
  <2>2. \A j \in made' \cap Items : live'.rows[j].st = "NONE" => j \in made /\ live.rows[j].st = "NONE"
    BY <1>1, <1>2 DEF RestoreInv, TypeOK
  <2>3. \A j \in Items : sent'[j] > 0 => j \in made'
    BY DEF RestoreInv, RowsKnown
  <2> QED
    BY <1>2, <2>1, <2>2, <2>3, UpdateInPlace
<1>6. NothingSentWaits'
  <2> SUFFICES ASSUME live.gen = marker, NEW j \in Items
               PROVE  SafeRow(live.rows[j], j)'
    BY <1>2 DEF NothingSentWaits
  <2>1. SafeRow(live.rows[j], j)
    BY DEF RestoreInv, NothingSentWaits
  <2>2. ~(live.gen < marker)
    BY RestoreBounds DEF RestoreInv, TypeOK
  <2>3. CASE j = i
    BY <1>1, <1>2, <1>3, <2>1, <2>2, <2>3 DEF SafeRow, InHand
  <2>4. CASE j # i
    BY <1>1, <1>2, <1>3, <2>1, <2>4 DEF SafeRow, InHand
  <2> QED
    BY <2>3, <2>4
<1> QED
  BY <1>4, <1>5, <1>6 DEF RestoreInv

\* A row of the live database belongs to a charge and is not ahead of what was sent.
LEMMA LiveRowFacts ==
    ASSUME RestoreInv, live # NoDb, NEW i \in Items
    PROVE  /\ live.rows[i] \in Row
           /\ KnownRow(live.rows[i], i, made)
           /\ live.gen < marker \/ SafeRow(live.rows[i], i)
<1>1. live \in Database /\ live.gen \in Int /\ marker \in Int /\ live.gen <= marker
  BY RestoreBounds DEF RestoreInv, TypeOK, Database, Generations
<1>2. live.gen < marker \/ live.gen = marker
  BY <1>1
<1> QED
  BY <1>1, <1>2 DEF RestoreInv, RowsKnown, Known, NothingSentWaits, Database

\* settle concludes the lane's attempt where the database still has it.
LEMMA SettleKeeps ==
    ASSUME RestoreInv, Settle
    PROVE  RestoreInv'
<1>0. lane \in [i: Items, n: 1 .. MaxTries, res: {"begun", "handed", "ACKED", "UNKNOWN", "NOT_SENT"}]
      /\ lane.res \notin {"begun", "handed"} /\ lane' = NoLane
  BY DEF Settle, RestoreInv, TypeOK, Lane
<1>1. UNCHANGED <<aside, staging, backups, marker, step, next, maint, edged, pmsd, opening, cmds, made, sent, faults, reboots>>
  BY DEF Settle, restoreVars, boundVars
<1>2. CASE SettleAdmitted
  <2> DEFINE r == live.rows[lane.i]
             s == SettledState(r.st, lane.res)
             o == lane.res
             q == [r EXCEPT !.st = s, !.out = o]
  <2>1. live # NoDb /\ lane.i \in Items /\ r.out = "SENDING" /\ r.n = lane.n
    BY <1>0, <1>2 DEF SettleAdmitted, AttemptIsLive, Present
  <2>2. r \in Row /\ KnownRow(r, lane.i, made) /\ (live.gen < marker \/ SafeRow(r, lane.i))
    BY <2>1, LiveRowFacts
  <2>3. r.st \in Stat /\ r.st # "QUEUED"
    BY <2>1, <2>2 DEF Row, Stat, KnownRow
  <2>4. r.st # "NONE"
    BY <2>1, <2>2 DEF KnownRow
  <2>5. /\ s \in Stat /\ s # "NONE" /\ o \in Outcome
        /\ s = "QUEUED" => o = "NOT_SENT" /\ r.st = "IN_FLIGHT"
    BY <1>0, <2>3, <2>4 DEF SettledState, Stat, Outcome
  <2>6. SetRow(lane.i, q)
    BY <1>2 DEF Settle
  <2>7. s = "QUEUED" => live.gen < marker \/ sent[lane.i] = 0
    BY <2>1, <2>2, <2>5 DEF SafeRow, InHand
  <2>8. lane.i \in made
    BY <2>2, <2>4 DEF KnownRow
  <2> HIDE DEF s, o, r
  <2>9. q \in Row /\ q.st = s /\ q.out = o
    BY <2>2, <2>5 DEF Row, Stat, Outcome
  <2> HIDE DEF q
  <2> QED
    BY <1>0, <1>1, <2>1, <2>5, <2>6, <2>7, <2>8, <2>9, RowUpdateKeeps DEF KnownRow
<1>3. CASE ~SettleAdmitted
  <2>1. UNCHANGED live
    BY <1>3 DEF Settle
  <2>2. NoLane \in Lane /\ NoLane.res = "none"
    BY DEF Lane, NoLane
  <2>3. TypeOK' /\ NothingSentWaits'
    BY <1>0, <1>1, <2>1, <2>2 DEF RestoreInv, TypeOK, NothingSentWaits, SafeRow, InHand
  <2>4. RowsKnown' /\ Generations' /\ Stages'
    BY <1>1, <2>1, NoUpdate DEF RestoreInv, RowsKnown
  <2> QED
    BY <2>3, <2>4 DEF RestoreInv
<1> QED
  BY <1>2, <1>3

\* RecoverOrphanedAttempts: what was in flight under a lane that is gone is held.
LEMMA RecoverOrphanKeeps ==
    ASSUME RestoreInv, NEW i \in Items, RecoverOrphan(i)
    PROVE  RestoreInv'
<1> DEFINE r == live.rows[i]
           q == [r EXCEPT !.st = "HELD_RECOVERY", !.out = "UNKNOWN"]
<1>1. live # NoDb /\ r \in Row /\ KnownRow(r, i, made) /\ r.st = "IN_FLIGHT" /\ SetRow(i, q)
  BY LiveRowFacts DEF RecoverOrphan, Present
<1>2. UNCHANGED <<aside, staging, backups, marker, step, next, maint, edged, pmsd, opening, cmds, made, sent, faults, reboots>>
      /\ lane' = lane
  BY DEF RecoverOrphan, restoreVars, boundVars
<1> HIDE DEF r
<1>3. q \in Row /\ q.st = "HELD_RECOVERY" /\ i \in made
  BY <1>1 DEF Row, KnownRow
<1> HIDE DEF q
<1> QED
  BY <1>1, <1>2, <1>3, RowUpdateKeeps DEF KnownRow, InHand

\* An operator concludes a hold.
LEMMA ResolveHoldKeeps ==
    ASSUME RestoreInv, NEW i \in Items, NEW h \in {"CONFIRMED_COMPLETED", "CONFIRMED_NOT_COMPLETED", "ABANDONED"},
           ResolveHold(i, h)
    PROVE  RestoreInv'
<1> DEFINE r == live.rows[i]
           ends == r.st = "HELD_RECOVERY" /\ h # "CONFIRMED_NOT_COMPLETED"
           s == IF ends THEN "DONE" ELSE r.st
           q == [r EXCEPT !.hold = h, !.st = s]
<1>1. live # NoDb /\ r \in Row /\ KnownRow(r, i, made) /\ SetRow(i, q)
      /\ (live.gen < marker \/ SafeRow(r, i))
  BY LiveRowFacts DEF ResolveHold, Present
<1>2. UNCHANGED <<aside, staging, backups, marker, step, next, maint, edged, pmsd, opening, cmds, made, sent, faults, reboots>>
      /\ lane' = lane
  BY DEF ResolveHold, restoreVars, boundVars
<1>3. s \in Stat /\ (s # r.st => s = "DONE" /\ r.st # "NONE")
  BY <1>1 DEF Row, Stat
<1> HIDE DEF r, s
<1>4. q \in Row /\ q.st = s /\ q.out = r.out /\ q.n = r.n
  BY <1>1, <1>3 DEF Row, Stat
<1> HIDE DEF q
<1>5. KnownRow(q, i, made) /\ (q.st = "NONE" => r.st = "NONE")
  BY <1>1, <1>3, <1>4 DEF KnownRow
<1>6. (q.st = "QUEUED" => live.gen < marker \/ sent[i] = 0) /\ (~InHand(q, i) \/ InHand(r, i))
  BY <1>1, <1>3, <1>4 DEF SafeRow, InHand
<1> QED
  BY <1>1, <1>2, <1>4, <1>5, <1>6, RowUpdateKeeps DEF r

\* An operator authorises the retry of a charge that was never handed over.
LEMMA AuthoriseRetryKeeps ==
    ASSUME RestoreInv, NEW i \in Items, AuthoriseRetry(i)
    PROVE  RestoreInv'
<1> DEFINE r == live.rows[i]
           q == [r EXCEPT !.st = "QUEUED", !.auth = TRUE]
<1>1. live # NoDb /\ r \in Row /\ KnownRow(r, i, made) /\ SetRow(i, q) /\ r.st = "HELD_RECOVERY"
      /\ r.out = "NONE" /\ sent[i] = 0
  BY LiveRowFacts DEF AuthoriseRetry, Present
<1>2. UNCHANGED <<aside, staging, backups, marker, step, next, maint, edged, pmsd, opening, cmds, made, sent, faults, reboots>>
      /\ lane' = lane
  BY DEF AuthoriseRetry, restoreVars, boundVars
<1> HIDE DEF r
<1>3. q \in Row /\ q.st = "QUEUED" /\ q.out = "NONE" /\ i \in made
  BY <1>1 DEF Row, KnownRow
<1> HIDE DEF q
<1> QED
  BY <1>1, <1>2, <1>3, RowUpdateKeeps DEF KnownRow, InHand

\* A settlement follows its posting's outcome, or the hold on it is concluded.
LEMMA SettlementKeeps ==
    ASSUME RestoreInv, NEW i \in Items, ApplyOutcome(i) \/ ResolveSettlementHold(i)
    PROVE  RestoreInv'
<1> DEFINE r == live.rows[i]
<1>1. live # NoDb /\ r \in Row /\ KnownRow(r, i, made) /\ (live.gen < marker \/ SafeRow(r, i))
  BY LiveRowFacts DEF ApplyOutcome, ResolveSettlementHold, Present
<1>2. UNCHANGED <<aside, staging, backups, marker, step, next, maint, edged, pmsd, opening, cmds, made, sent, faults, reboots>>
      /\ lane' = lane
  BY DEF ApplyOutcome, ResolveSettlementHold, restoreVars, boundVars
<1>3. PICK w \in Work : SetRow(i, [r EXCEPT !.settle = w])
  BY DEF ApplyOutcome, ResolveSettlementHold, Work
<1> HIDE DEF r
<1> DEFINE q == [r EXCEPT !.settle = w]
<1>4. q \in Row /\ q.st = r.st /\ q.n = r.n /\ q.out = r.out
  BY <1>1, SettleRowFacts
<1>5. SetRow(i, q)
  BY <1>3
<1> HIDE DEF q
<1>6. KnownRow(q, i, made) /\ (InHand(q, i) => InHand(r, i)) /\ (q.st = "QUEUED" => live.gen < marker \/ sent[i] = 0)
  BY <1>1, <1>4 DEF KnownRow, InHand, SafeRow
<1> QED
  BY <1>1, <1>2, <1>4, <1>5, <1>6, RowUpdateKeeps DEF r

-----------------------------------------------------------------------------
(* Recovery *)

\* A database that entered recovery knows its rows and queues nothing.
LEMMA RecoveredIsKnown ==
    ASSUME NEW d \in Database, Known(d, made), NEW gen \in 0 .. MaxRestores
    PROVE  Known(EnterRecovery(d, gen), made)
BY EnterRecoveryFacts, NoDbIsNone DEF Known, KnownRow

\* The live database enters recovery at the marker's generation.
LEMMA EnterRecoveryKeeps ==
    ASSUME RestoreInv, live # NoDb, live' = EnterRecovery(live, marker),
           \/ step \in {"idle", "staged"} /\ step' = step /\ edged' \in {"down", "starting", "up"}
           \/ step' = "recorded" /\ edged' = "down",
           faults' \in 0 .. MaxFaults,
           UNCHANGED <<aside, staging, backups, marker, next, maint, pmsd, lane, opening, cmds, made, sent, reboots>>
    PROVE  RestoreInv'
<1>1. live \in Database /\ marker \in 0 .. MaxRestores
  BY DEF RestoreInv, TypeOK
<1>2. live' \in Database /\ live' # NoDb /\ live'.gen = marker /\ Known(live', made)
  BY <1>1, EnterRecoveryFacts, RecoveredIsKnown DEF RestoreInv, RowsKnown
<1>3. \A i \in Items : /\ live'.rows[i].st \notin {"QUEUED", "IN_FLIGHT"}
                       /\ live'.rows[i].st = "NONE" => live.rows[i].st = "NONE"
  BY <1>1, EnterRecoveryFacts
<1>4. TypeOK'
  BY <1>2 DEF RestoreInv, TypeOK, Step
<1>5. RowsKnown'
  BY <1>2 DEF RestoreInv, RowsKnown
<1>6. Generations'
  BY <1>1, <1>2 DEF RestoreInv, Generations
<1>7. Stages'
  BY <1>2, <1>3 DEF RestoreInv, Stages, TypeOK
<1>8. NothingSentWaits'
  BY <1>3 DEF NothingSentWaits, SafeRow, InHand
<1> QED
  BY <1>4, <1>5, <1>6, <1>7, <1>8 DEF RestoreInv

\* edged's start-up check, an operator's declaration, and the release.
LEMMA RecoveryKeeps ==
    ASSUME RestoreInv, EdgedReconcile \/ Declare \/ Release
    PROVE  RestoreInv'
<1>1. live \in Database /\ live # NoDb
  BY DEF EdgedReconcile, Declare, Release, Present, RestoreInv, TypeOK
<1>2. live.gen \in Int /\ marker \in 0 .. MaxRestores /\ live.gen <= marker
  BY <1>1, RestoreBounds DEF RestoreInv, TypeOK, Database, Generations
<1>3. CASE EdgedReconcile
  <2>1. step \in {"idle", "staged"} /\ edged' = "up"
    BY <1>3 DEF EdgedReconcile, RestoreInv, Stages
  <2>2. UNCHANGED <<aside, staging, backups, marker, step, next, maint, pmsd, lane, opening, cmds, made, sent, faults, reboots>>
    BY <1>3 DEF EdgedReconcile, restoreVars, boundVars
  <2>3. CASE marker = live.gen
    <3>1. UNCHANGED live
      BY <1>3, <2>3 DEF EdgedReconcile, Reconciled
    <3> QED
      BY <1>1, <2>1, <2>2, <2>3, <3>1
         DEF RestoreInv, TypeOK, RowsKnown, Generations, Stages, NothingSentWaits, SafeRow, InHand
  <2>4. CASE marker # live.gen
    <3>1. live' = EnterRecovery(live, marker)
      BY <1>2, <1>3, <2>4, RestoreBounds DEF EdgedReconcile, Reconciled
    <3>2. faults' \in 0 .. MaxFaults
      BY <2>2 DEF RestoreInv, TypeOK
    <3> QED
      BY <1>1, <2>1, <2>2, <3>1, <3>2, EnterRecoveryKeeps
  <2> QED
    BY <2>3, <2>4
<1>4. CASE Declare
  <2>1. step \in {"idle", "staged"} /\ edged' = edged /\ edged = "up" /\ live.gen = marker
    BY <1>4 DEF Declare, RestoreInv, Stages
  <2>2. UNCHANGED <<aside, staging, backups, marker, step, next, maint, pmsd, lane, opening, cmds, made, sent, reboots>>
    BY <1>4 DEF Declare, restoreVars
  <2>3. faults' \in 0 .. MaxFaults /\ live' = EnterRecovery(live, marker)
    BY <1>4, <2>1, RestoreBounds DEF Declare, Fault, RestoreInv, TypeOK
  <2> QED
    BY <1>1, <2>1, <2>2, <2>3, EnterRecoveryKeeps
<1>5. CASE Release
  <2>1. live' \in Database /\ live'.gen = live.gen /\ live'.rows = live.rows
    BY <1>1, <1>5 DEF Release, Database
  <2>2. UNCHANGED <<aside, staging, backups, marker, step, next, maint, edged, pmsd, lane, opening, cmds, made, sent, faults, reboots>>
    BY <1>5 DEF Release, restoreVars, boundVars
  <2>3. RowsKnown' /\ Generations' /\ Stages'
    <3>1. Known(live', made')
      BY <1>1, <2>1, <2>2 DEF RestoreInv, RowsKnown, Known
    <3> QED
      BY <1>1, <2>1, <2>2, <3>1, UpdateInPlace DEF RestoreInv, RowsKnown
  <2> QED
    BY <1>1, <2>1, <2>2, <2>3 DEF RestoreInv, TypeOK, NothingSentWaits, SafeRow, InHand
<1> QED
  BY <1>3, <1>4, <1>5

-----------------------------------------------------------------------------
(* The restore *)

\* A lane that is gone has nothing in hand.
LEMMA NoLaneFacts == NoLane \in Lane /\ NoLane.res = "none"
BY DEF Lane, NoLane

\* A backup is a copy of the live database; staging it touches nothing else.
LEMMA BackupKeeps ==
    ASSUME RestoreInv, TakeBackup \/ \E b \in backups : Stage(b)
    PROVE  RestoreInv'
<1>1. CASE TakeBackup
  <2>1. live \in Database /\ live # NoDb /\ live.gen <= marker /\ Known(live, made)
    BY <1>1 DEF TakeBackup, Present, RestoreInv, TypeOK, Generations, RowsKnown
  <2>2. UNCHANGED <<live, aside, staging, marker, step, next, maint, edged, pmsd, lane, opening, cmds, made, sent, faults, reboots>>
        /\ backups' = backups \cup {live}
    BY <1>1 DEF TakeBackup, dbVars, restoreVars, boundVars
  <2>3. TypeOK' /\ RowsKnown' /\ Generations'
    BY <2>1, <2>2 DEF RestoreInv, TypeOK, RowsKnown, Generations
  <2>4. Stages' /\ NothingSentWaits'
    BY <2>2 DEF RestoreInv, Stages, NothingSentWaits, SafeRow, InHand
  <2> QED
    BY <2>3, <2>4 DEF RestoreInv
<1>2. ASSUME NEW b \in backups, Stage(b) PROVE RestoreInv'
  <2>1. b \in Database /\ b # NoDb /\ b.gen <= marker /\ Known(b, made)
    BY <1>2, NoDbIsNone DEF RestoreInv, TypeOK, Generations, RowsKnown
  <2>2. UNCHANGED <<live, aside, backups, marker, next, edged, pmsd, lane, opening, cmds, made, sent, faults, reboots>>
        /\ staging' = b /\ step' = "staged" /\ step = "idle" /\ maint' = TRUE /\ live # NoDb /\ marker < MaxRestores
    BY <1>2 DEF Stage, boundVars, Present
  <2>3. TypeOK' /\ RowsKnown' /\ Generations'
    BY <2>1, <2>2 DEF RestoreInv, TypeOK, RowsKnown, Generations, Step
  <2>4. Stages' /\ NothingSentWaits'
    BY <2>1, <2>2 DEF RestoreInv, Stages, NothingSentWaits, SafeRow, InHand
  <2> QED
    BY <2>3, <2>4 DEF RestoreInv
<1> QED
  BY <1>1, <1>2

\* The services are stopped and the marker is advanced, or the restore is given up.
LEMMA MarkKeeps ==
    ASSUME RestoreInv, Quiesce \/ AdvanceMarker
    PROVE  RestoreInv'
<1>0. TypeOK
  BY DEF RestoreInv
<1>1. live \in Database /\ live # NoDb /\ live.gen \in Int /\ live.gen <= marker /\ live.gen >= 0
      /\ staging \in Database /\ staging # NoDb /\ staging.gen \in Int /\ staging.gen <= marker
      /\ marker < MaxRestores /\ marker \in 0 .. MaxRestores
  BY <1>0, RestoreBounds DEF Quiesce, AdvanceMarker, RestoreInv, TypeOK, Generations, Stages, Database
<1>2. (aside # NoDb => aside.gen \in Int) /\ \A b \in backups : b.gen \in Int
  BY <1>0 DEF TypeOK, Database
<1>3. faults' \in 0 .. MaxFaults
  BY <1>0, RestoreBounds DEF Quiesce, AdvanceMarker, Fault, TypeOK
<1>b. maint' \in BOOLEAN
  <2>1. maint \in BOOLEAN
    BY <1>0 DEF TypeOK
  <2>2. maint' = maint \/ maint' = FALSE
    BY DEF Quiesce, AdvanceMarker, GiveUp
  <2> QED
    BY <2>1, <2>2
<1>4. UNCHANGED <<live, aside, backups, lane, opening, made, sent, reboots>> /\ staging' \in {staging, NoDb}
      /\ cmds' \in {cmds, {}}
  BY DEF Quiesce, AdvanceMarker, GiveUp
<1>5. CASE Quiesce
  <2>1. /\ marker' = marker
        /\ \/ step' = "quiesced" /\ next' = marker + 1 /\ edged' = "down" /\ pmsd' = "down" /\ staging' = staging
           \/ step' = "idle" /\ next' = next /\ edged' \in {"starting", edged} /\ pmsd' = "up"
    BY <1>5 DEF Quiesce
  <2>2. TypeOK'
    BY <1>0, <1>b, <1>1, <1>3, <1>4, <2>1, RestoreBounds DEF TypeOK, Step
  <2>3. Generations' /\ Stages'
    BY <1>1, <1>4, <2>1 DEF RestoreInv, Generations, Stages
  <2>4. RowsKnown' /\ NothingSentWaits'
    BY <1>4, <2>1 DEF RestoreInv, RowsKnown, Known, NothingSentWaits, SafeRow, InHand
  <2> QED
    BY <2>2, <2>3, <2>4 DEF RestoreInv
<1>6. CASE AdvanceMarker
  <2>0. next = marker + 1 /\ step = "quiesced" /\ edged = "down"
    BY <1>6 DEF AdvanceMarker, RestoreInv, Generations, Stages
  <2>1. /\ next' = next
        /\ \/ step' = "marked" /\ marker' = next /\ edged' = edged /\ pmsd' = pmsd /\ staging' = staging
           \/ step' = "idle" /\ marker' \in {marker, next} /\ edged' = "starting" /\ pmsd' = "up"
    BY <1>6 DEF AdvanceMarker, GiveUp, StartDependents
  <2>2. TypeOK'
    BY <1>0, <1>b, <1>1, <1>3, <1>4, <2>0, <2>1, RestoreBounds DEF TypeOK, Step
  <2>3. Generations'
    BY <1>1, <1>2, <1>4, <2>0, <2>1 DEF RestoreInv, Generations
  <2>4. Stages'
    BY <1>1, <1>4, <2>0, <2>1 DEF RestoreInv, Stages
  <2>5. RowsKnown'
    BY <1>4, <2>1 DEF RestoreInv, RowsKnown, Known
  <2>6. NothingSentWaits'
    BY <1>1, <1>4, <2>0, <2>1 DEF RestoreInv, NothingSentWaits, SafeRow, InHand
  <2> QED
    BY <2>2, <2>3, <2>4, <2>5, <2>6 DEF RestoreInv
<1> QED
  BY <1>5, <1>6

\* Any step of runRestore that ends in a fault, and any that starts services, keeps the flag
\* and the count of faults in their types.
LEMMA FaultTyped ==
    ASSUME TypeOK, RestoreStep
    PROVE  faults' \in 0 .. MaxFaults /\ maint' \in BOOLEAN
<1>1. maint \in BOOLEAN
  BY DEF TypeOK
<1>2. maint' = maint \/ maint' = FALSE
  BY DEF RestoreStep, Quiesce, AdvanceMarker, RenameAside, RenameIn, Verify, Record, BackInService,
     GiveUp, Critical, Rollback, restoreVars
<1>3. maint' \in BOOLEAN
  BY <1>1, <1>2
<1>4. faults' = faults \/ Fault
  BY DEF RestoreStep, Quiesce, AdvanceMarker, RenameAside, RenameIn, Verify, Record, BackInService, boundVars
<1>5. faults' \in 0 .. MaxFaults
  BY <1>4, RestoreBounds DEF Fault, TypeOK
<1> QED
  BY <1>3, <1>5

\* The databases trade places: what becomes live is behind the marker, so no claim is made
\* about its queue; without a live database there is one set aside.
LEMMA SwapKeeps ==
    ASSUME RestoreInv, RestoreStep,
           UNCHANGED <<backups, marker, next, lane, cmds, made, sent, reboots>>, opening' \subseteq opening,
           live' \in {live, aside, staging, NoDb}, aside' \in {live, aside, NoDb}, staging' \in {live, staging, NoDb},
           live' # NoDb => live'.gen < marker,
           aside' # NoDb => aside'.gen < marker,
           staging' # NoDb => staging'.gen <= marker,
           live' = NoDb => aside' # NoDb,
           marker # 0,
           \/ /\ step' = "aside" /\ next = marker /\ aside' # NoDb /\ staging' # NoDb /\ staging'.gen < marker
              /\ live' = NoDb /\ edged' = "down" /\ pmsd' = pmsd
           \/ /\ step' \in {"swapped", "verified"} /\ next = marker /\ live' # NoDb /\ aside' # NoDb
              /\ edged' = "down" /\ pmsd' = pmsd
           \/ /\ step' = "idle" /\ edged' = "starting" /\ pmsd' = "up"
           \/ /\ step' = "idle" /\ edged' = "down" /\ pmsd' = pmsd
    PROVE  RestoreInv'
<1>0. TypeOK /\ faults' \in 0 .. MaxFaults /\ maint' \in BOOLEAN
  BY FaultTyped DEF RestoreInv
<1>1. marker \in Int /\ (live' # NoDb => live' \in Database /\ live'.gen \in Int)
  BY <1>0 DEF TypeOK, Database
<1>2. TypeOK'
  BY <1>0 DEF TypeOK, Step
<1>3. RowsKnown'
  BY DEF RestoreInv, RowsKnown, Known
<1>4. Generations'
  BY <1>1 DEF RestoreInv, Generations
<1>5. Stages'
  BY <1>1 DEF RestoreInv, Stages
<1>6. NothingSentWaits'
  BY <1>1 DEF NothingSentWaits
<1> QED
  BY <1>2, <1>3, <1>4, <1>5, <1>6 DEF RestoreInv

\* What the steps between the marker and the record start from.
LEMMA BehindMarker ==
    ASSUME RestoreInv, step \in {"marked", "aside", "swapped", "verified"}
    PROVE  /\ edged = "down" /\ next = marker /\ marker # 0
           /\ live # NoDb => live.gen <= marker
           /\ aside # NoDb => aside.gen < marker
           /\ staging # NoDb => staging.gen <= marker
           /\ step \in {"marked", "swapped", "verified"} => live # NoDb /\ live.gen < marker
           /\ step \in {"marked", "aside"} => staging # NoDb /\ staging.gen < marker
           /\ step \in {"aside", "swapped", "verified"} => aside # NoDb
           /\ step = "aside" => live = NoDb
<1>1. \A d \in Database : d.gen >= 0 /\ d.gen \in Int
  BY RestoreBounds DEF Database
<1>2. marker # 0
  BY <1>1 DEF RestoreInv, TypeOK, Generations, Stages
<1> QED
  BY <1>2 DEF RestoreInv, Generations, Stages

\* The two renames, the undoing of the first, and a restore left half way.
LEMMA RenameKeeps ==
    ASSUME RestoreInv, RenameAside \/ RenameIn
    PROVE  RestoreInv'
<1>0. step \in {"marked", "aside"} /\ RestoreStep
  BY DEF RenameAside, RenameIn, RestoreStep
<1>1. UNCHANGED <<backups, marker, next, lane, cmds, made, sent, reboots>> /\ opening' \subseteq opening
  BY DEF RenameAside, RenameIn
<1>2. CASE RenameAside
  <2>1. step = "marked" /\ edged = "down" /\ next = marker /\ marker # 0 /\ live # NoDb /\ live.gen < marker
        /\ staging # NoDb /\ staging.gen < marker /\ (aside # NoDb => aside.gen < marker)
    BY <1>0, <1>2, BehindMarker DEF RenameAside
  <2>2. CASE aside' = live /\ live' = NoDb /\ step' = "aside" /\ UNCHANGED <<staging, edged, pmsd>>
    BY <1>0, <1>1, <2>1, <2>2, SwapKeeps DEF RestoreInv, Generations
  <2>3. CASE GiveUp /\ UNCHANGED <<live, aside>>
    BY <1>0, <1>1, <2>1, <2>3, SwapKeeps DEF GiveUp, StartDependents
  <2> QED
    BY <1>2, <2>2, <2>3 DEF RenameAside
<1>3. CASE RenameIn
  <2>1. step = "aside" /\ edged = "down" /\ next = marker /\ marker # 0 /\ aside # NoDb /\ aside.gen < marker
        /\ live = NoDb /\ staging # NoDb /\ staging.gen < marker /\ staging.gen <= marker
    BY <1>0, <1>3, BehindMarker DEF RenameIn
  <2>2. CASE live' = staging /\ staging' = NoDb /\ step' = "swapped" /\ UNCHANGED <<aside, edged, pmsd>>
    BY <1>0, <1>1, <2>1, <2>2, SwapKeeps
  <2>3. CASE live' = aside /\ aside' = NoDb /\ GiveUp
    BY <1>0, <1>1, <2>1, <2>3, SwapKeeps DEF GiveUp, StartDependents
  <2>4. CASE Critical /\ UNCHANGED dbVars
    BY <1>0, <1>1, <2>1, <2>4, SwapKeeps DEF Critical, dbVars
  <2> QED
    BY <1>3, <2>2, <2>3, <2>4 DEF RenameIn
<1> QED
  BY <1>2, <1>3

\* rollback() puts the original back or leaves it aside.
LEMMA RollbackKeeps ==
    ASSUME RestoreInv, RestoreStep, step \in {"swapped", "verified"}, Rollback,
           UNCHANGED <<backups, marker, next, lane, opening, cmds, made, sent, reboots>>
    PROVE  RestoreInv'
<1>1. edged = "down" /\ next = marker /\ marker # 0 /\ live # NoDb /\ live.gen < marker /\ live.gen <= marker
      /\ aside # NoDb /\ aside.gen < marker /\ (staging # NoDb => staging.gen <= marker)
  BY BehindMarker
<1>2. CASE live' = aside /\ aside' = NoDb /\ GiveUp
  BY <1>1, <1>2, SwapKeeps DEF GiveUp, StartDependents
<1>3. CASE Critical /\ UNCHANGED dbVars
  BY <1>1, <1>3, SwapKeeps DEF Critical, dbVars
<1>4. CASE Critical /\ staging' = live /\ live' = NoDb /\ UNCHANGED aside
  BY <1>1, <1>4, SwapKeeps DEF Critical
<1> QED
  BY <1>2, <1>3, <1>4 DEF Rollback

\* Verification and record of the restored database, and the return to service.
LEMMA RecordKeeps ==
    ASSUME RestoreInv, Verify \/ Record \/ BackInService
    PROVE  RestoreInv'
<1>0. RestoreStep
  BY DEF RestoreStep
<1>1. CASE Verify
  <2>0. step = "swapped" /\ UNCHANGED <<backups, marker, next, lane, opening, cmds, made, sent, reboots>>
    BY <1>1 DEF Verify
  <2>1. CASE Rollback
    BY <1>0, <2>0, <2>1, RollbackKeeps
  <2>2. CASE step' = "verified" /\ UNCHANGED <<dbVars, maint, edged, pmsd, faults>>
    <3>1. edged = "down" /\ next = marker /\ marker # 0 /\ live # NoDb /\ live.gen < marker
          /\ aside # NoDb /\ aside.gen < marker /\ (staging # NoDb => staging.gen <= marker)
      BY <2>0, BehindMarker
    <3> QED
      BY <1>0, <2>0, <2>2, <3>1, SwapKeeps DEF dbVars
  <2> QED
    BY <1>1, <2>1, <2>2 DEF Verify
<1>2. CASE Record
  <2>0. step = "verified" /\ UNCHANGED <<backups, marker, next, lane, opening, cmds, made, sent, reboots>>
    BY <1>2 DEF Record
  <2>1. CASE Rollback
    BY <1>0, <2>0, <2>1, RollbackKeeps
  <2>2. CASE live' = EnterRecovery(live, next) /\ step' = "recorded" /\ UNCHANGED <<aside, staging, maint, edged, pmsd, faults>>
    <3>1. edged = "down" /\ next = marker /\ live # NoDb
      BY <2>0, BehindMarker
    <3>2. faults' \in 0 .. MaxFaults
      BY <2>2 DEF RestoreInv, TypeOK
    <3> QED
      BY <2>0, <2>2, <3>1, <3>2, EnterRecoveryKeeps
  <2> QED
    BY <1>2, <2>1, <2>2 DEF Record
<1>3. CASE BackInService
  <2>1. UNCHANGED <<live, aside, staging, backups, marker, next, lane, opening, cmds, made, sent, faults, reboots>>
        /\ step' = "idle" /\ edged' = "starting" /\ pmsd' = "up"
    BY <1>3 DEF BackInService, StartDependents, dbVars, boundVars
  <2>2. maint' \in BOOLEAN
    BY <1>0, FaultTyped DEF RestoreInv
  <2>3. TypeOK'
    BY <2>1, <2>2 DEF RestoreInv, TypeOK, Step
  <2> QED
    BY <2>1, <2>3 DEF RestoreInv, RowsKnown, Generations, Stages, NothingSentWaits, SafeRow, InHand
<1> QED
  BY <1>1, <1>2, <1>3

\* A crash of scd and a reboot forget the lane and the restore, never a database.
LEMMA CrashKeeps ==
    ASSUME RestoreInv, ScdCrash \/ Reboot
    PROVE  RestoreInv'
<1>1. UNCHANGED <<live, aside, staging, backups, marker, next, made, sent>> /\ opening' = {} /\ cmds' \in {cmds, {}}
      /\ step' = "idle" /\ lane' = NoLane /\ edged' \in {edged, "starting"} /\ pmsd' \in {pmsd, "up"}
  BY DEF ScdCrash, Reboot, StartDependents, dbVars
<1>2. maint' \in BOOLEAN
  <2>1. maint' = maint \/ maint' = FALSE
    BY DEF ScdCrash, Reboot
  <2>2. maint \in BOOLEAN
    BY DEF RestoreInv, TypeOK
  <2> QED
    BY <2>1, <2>2
<1>3. faults' \in 0 .. MaxFaults /\ reboots' \in 0 .. MaxReboots
  BY RestoreBounds DEF ScdCrash, Reboot, Fault, RestoreInv, TypeOK
<1>4. TypeOK'
  BY <1>1, <1>2, <1>3, NoLaneFacts DEF RestoreInv, TypeOK, Step
<1>5. RowsKnown' /\ Generations' /\ Stages'
  BY <1>1 DEF RestoreInv, RowsKnown, Generations, Stages
<1>6. NothingSentWaits'
  BY <1>1, NoLaneFacts DEF RestoreInv, NothingSentWaits, SafeRow, InHand
<1> QED
  BY <1>4, <1>5, <1>6 DEF RestoreInv

-----------------------------------------------------------------------------
(* The commands pmsd has *)

\* No command is added, and the rows of those that remain are still theirs.
LEMMA HandedKept ==
    ASSUME Handed, cmds' \subseteq cmds, opening' \cap made' = {},
           cmds' # {} => pmsd' = "up" /\ live' # NoDb,
           step' \notin {"idle", "staged"} => pmsd' = "down",
           \A c \in cmds' : /\ CommandRow(live'.rows[c.i], c)
                            /\ lane'.res \in {"begun", "NOT_SENT"} => c.i # lane'.i
                            /\ sent'[c.i] = sent[c.i]
    PROVE  Handed'
BY DEF Handed

\* A row of the live database changes.
LEMMA HandedRow ==
    ASSUME FullInv, live # NoDb, NEW i \in Items, NEW r \in Row, SetRow(i, r),
           UNCHANGED <<cmds, step, pmsd, sent>>, opening' \cap made' = {},
           \A c \in cmds : c.i = i => CommandRow(r, c),
           \A c \in cmds : lane'.res \in {"begun", "NOT_SENT"} => c.i # lane'.i
    PROVE  Handed'
<1>1. live \in Database /\ live.rows \in [Items -> Row]
  BY DEF FullInv, RestoreInv, TypeOK, Database
<1>2. live' # NoDb /\ live'.rows = [live.rows EXCEPT ![i] = r]
  BY <1>1, SetRowFacts
<1>3. \A c \in cmds : c.i \in Items
  BY CommandFacts
<1>4. \A c \in cmds' : CommandRow(live'.rows[c.i], c)
  BY <1>1, <1>2, <1>3 DEF FullInv, Handed
<1> QED
  BY <1>2, <1>4, HandedKept DEF FullInv, Handed

\* The live database is where it was, row by row as far as a command can tell.
LEMMA HandedSame ==
    ASSUME FullInv, cmds' \subseteq cmds, live' # NoDb,
           \A i \in Items : /\ live'.rows[i].n = live.rows[i].n
                            /\ live'.rows[i].out = live.rows[i].out
                            /\ live'.rows[i].st = "QUEUED" => live.rows[i].st = "QUEUED",
           UNCHANGED <<sent>>, lane' \in {lane, NoLane}, pmsd' = pmsd, opening' \cap made' = {},
           step' \in {step, "idle", "staged"}
    PROVE  Handed'
<1>1. \A c \in cmds' : CommandRow(live'.rows[c.i], c)
  BY CommandFacts DEF FullInv, Handed, CommandRow
<1>2. \A c \in cmds' : lane'.res \in {"begun", "NOT_SENT"} => c.i # lane'.i
  BY NoLaneFacts DEF FullInv, Handed
<1> QED
  BY <1>1, <1>2, HandedKept DEF FullInv, Handed

\* runRestore stops pmsd before it touches anything.
LEMMA RestoreHanded ==
    ASSUME FullInv, RestoreStep
    PROVE  Handed'
<1>0. UNCHANGED <<lane, made, sent>> /\ opening' \subseteq opening
  BY DEF RestoreStep, Quiesce, AdvanceMarker, RenameAside, RenameIn, Verify, Record, BackInService
<1>1. opening' \cap made' = {}
  BY <1>0 DEF FullInv, Handed
<1>2. CASE Quiesce
  <2>1. live' = live /\ cmds' \subseteq cmds
    BY <1>2 DEF Quiesce
  <2>2. \/ step' = "quiesced" /\ pmsd' = "down" /\ cmds' = {}
        \/ step' = "idle" /\ pmsd' = "up"
    BY <1>2 DEF Quiesce
  <2> QED
    BY <1>0, <1>1, <2>1, <2>2, HandedKept DEF FullInv, Handed
<1>3. CASE ~Quiesce
  <2>1. step \notin {"idle", "staged"} /\ cmds' = cmds
    BY <1>3 DEF RestoreStep, AdvanceMarker, RenameAside, RenameIn, Verify, Record, BackInService
  <2>2. pmsd = "down" /\ cmds = {}
    BY <2>1 DEF FullInv, Handed
  <2>3. pmsd' = pmsd \/ step' = "idle"
    BY <1>3 DEF RestoreStep, AdvanceMarker, RenameAside, RenameIn, Verify, Record, BackInService, Rollback,
       GiveUp, Critical
  <2> QED
    BY <1>1, <2>1, <2>2, <2>3, HandedKept DEF FullInv
<1> QED
  BY <1>2, <1>3

\* A claim, a settle and an orphan's conclusion touch no row of a command, or conclude it.
LEMMA LaneRowHanded ==
    ASSUME FullInv, NEW i \in Items, Claim(i) \/ RecoverOrphan(i) \/ ApplyOutcome(i)
    PROVE  Handed'
<1> DEFINE r == live.rows[i]
<1>0. live # NoDb /\ r \in Row
  BY LiveRowFacts DEF FullInv, Claim, RecoverOrphan, ApplyOutcome, Present
<1>1. UNCHANGED <<cmds, step, pmsd, sent, opening, made>>
  BY DEF Claim, RecoverOrphan, ApplyOutcome, restoreVars
<1>2. opening' \cap made' = {}
  BY <1>1 DEF FullInv, Handed
<1>3. CASE Claim(i)
  <2> DEFINE q == [r EXCEPT !.st = "IN_FLIGHT", !.out = "SENDING", !.n = @ + 1, !.auth = FALSE]
  <2>1. q \in Row /\ SetRow(i, q) /\ r.st = "QUEUED"
    BY <1>0, <1>3, ClaimedRowFacts DEF Claim
  <2>2. \A c \in cmds : c.i # i
    BY <2>1, CommandFacts
  <2>3. lane'.i = i
    BY <1>3 DEF Claim
  <2> HIDE DEF q, r
  <2> QED
    BY <1>0, <1>1, <1>2, <2>1, <2>2, <2>3, HandedRow
<1>4. CASE RecoverOrphan(i)
  <2> DEFINE q == [r EXCEPT !.st = "HELD_RECOVERY", !.out = "UNKNOWN"]
  <2>1. SetRow(i, q) /\ lane' = lane
    BY <1>4 DEF RecoverOrphan
  <2>2. q \in Row /\ q.n = r.n /\ q.st = "HELD_RECOVERY" /\ q.out = "UNKNOWN"
    BY <1>0 DEF Row
  <2>3. \A c \in cmds : c.i = i => CommandRow(q, c)
    BY <2>2 DEF FullInv, Handed, CommandRow
  <2>4. \A c \in cmds : lane'.res \in {"begun", "NOT_SENT"} => c.i # lane'.i
    BY <2>1 DEF FullInv, Handed
  <2> HIDE DEF q, r
  <2> QED
    BY <1>0, <1>1, <1>2, <2>1, <2>2, <2>3, <2>4, HandedRow
<1>5. CASE ApplyOutcome(i)
  <2>1. PICK w \in Work : SetRow(i, [r EXCEPT !.settle = w])
    BY <1>5 DEF ApplyOutcome, Work
  <2> DEFINE q == [r EXCEPT !.settle = w]
  <2>2. q \in Row /\ q.n = r.n /\ q.st = r.st /\ q.out = r.out
    BY <1>0, SettleRowFacts
  <2>3. \A c \in cmds : c.i = i => CommandRow(q, c)
    BY <2>2 DEF FullInv, Handed, CommandRow
  <2>4. \A c \in cmds : lane'.res \in {"begun", "NOT_SENT"} => c.i # lane'.i
    BY <1>5 DEF FullInv, Handed, ApplyOutcome
  <2>5. SetRow(i, q)
    BY <2>1
  <2> HIDE DEF q, r
  <2> QED
    BY <1>0, <1>1, <1>2, <2>2, <2>3, <2>4, <2>5, HandedRow
<1> QED
  BY <1>3, <1>4, <1>5

\* settle: a row goes back to the queue only when pmsd has no command for it.
LEMMA SettleHanded ==
    ASSUME FullInv, Settle
    PROVE  Handed'
<1>0. lane \in [i: Items, n: 1 .. MaxTries, res: {"begun", "handed", "ACKED", "UNKNOWN", "NOT_SENT"}]
      /\ lane.res \notin {"begun", "handed"} /\ lane' = NoLane
  BY DEF Settle, FullInv, RestoreInv, TypeOK, Lane
<1>1. UNCHANGED <<cmds, step, pmsd, sent, opening, made>> /\ opening' \cap made' = {}
  BY DEF Settle, restoreVars, FullInv, Handed
<1>2. CASE SettleAdmitted
  <2> DEFINE r == live.rows[lane.i]
             s == SettledState(r.st, lane.res)
             o == lane.res
             q == [r EXCEPT !.st = s, !.out = o]
  <2>1. live # NoDb /\ lane.i \in Items
    BY <1>0, <1>2 DEF SettleAdmitted, AttemptIsLive, Present
  <2>2. r \in Row
    BY <2>1, LiveRowFacts DEF FullInv
  <2>3. s \in Stat /\ o \in Outcome /\ (o # "NOT_SENT" => s # "QUEUED" /\ o \notin {"NONE", "NOT_SENT"})
    BY <1>0, <2>2 DEF SettledState, Stat, Outcome, Row
  <2>4. SetRow(lane.i, q)
    BY <1>2 DEF Settle
  <2>5. o = "NOT_SENT" => \A c \in cmds : c.i # lane.i
    BY DEF FullInv, Handed
  <2>6. \A c \in cmds : c.i = lane.i => c.n = r.n
    BY DEF FullInv, Handed, CommandRow
  <2> HIDE DEF s, o, r
  <2>7. q \in Row /\ q.st = s /\ q.out = o /\ q.n = r.n
    BY <2>2, <2>3 DEF Row, Stat, Outcome
  <2>8. \A c \in cmds : c.i = lane.i => CommandRow(q, c)
    BY <2>3, <2>5, <2>6, <2>7 DEF CommandRow
  <2> HIDE DEF q
  <2> QED
    BY <1>0, <1>1, <2>1, <2>4, <2>7, <2>8, HandedRow, NoLaneFacts
<1>3. CASE ~SettleAdmitted
  <2>1. UNCHANGED live
    BY <1>3 DEF Settle
  <2> QED
    BY <1>0, <1>1, <2>1, HandedKept, NoLaneFacts DEF FullInv, Handed
<1> QED
  BY <1>2, <1>3

\* pmsd finds a command authorised: it is the lane's, it has no other for the charge, and
\* after edged has reconciled it was not sent.
LEMMA AuthoriseHanded ==
    ASSUME FullInv, Authorise
    PROVE  Handed'
<1> DEFINE c == [i |-> lane.i, n |-> lane.n, early |-> edged # "up"]
<1>1. UNCHANGED <<live, step, pmsd, sent, opening, made>> /\ cmds' = cmds \cup {c} /\ pmsd = "up"
      /\ lane' = [lane EXCEPT !.res = "handed"] /\ lane.res = "begun" /\ Authorised
  BY DEF Authorise, dbVars, restoreVars
<1>2. lane \in [i: Items, n: 1 .. MaxTries, res: {"begun", "handed", "ACKED", "UNKNOWN", "NOT_SENT"}]
  BY DEF Authorise, FullInv, RestoreInv, TypeOK, Lane
<1>3. live # NoDb /\ lane.i \in Items /\ CommandRow(live.rows[lane.i], c) /\ InHand(live.rows[lane.i], lane.i)
  BY <1>1, <1>2 DEF Authorised, AttemptIsLive, Present, CommandRow, InHand
<1>4. \A d \in cmds : d.i # c.i
  BY <1>1 DEF FullInv, Handed
<1>5. edged = "up" => sent[lane.i] = 0
  BY <1>3 DEF FullInv, RestoreInv, Stages, NothingSentWaits, SafeRow
<1>6. lane'.res = "handed"
  BY <1>1, <1>2
<1>7. c.i = lane.i /\ (~c.early => edged = "up")
  OBVIOUS
<1> HIDE DEF c
<1> QED
  BY <1>1, <1>3, <1>4, <1>5, <1>6, <1>7 DEF FullInv, Handed

\* The lane gives up, or pmsd is done with a command.
LEMMA AnswerHanded ==
    ASSUME FullInv, NotTransmitted \/ LostAnswer \/ \E c \in cmds : Write(c) \/ WriteRefused(c)
    PROVE  Handed'
<1>0. lane \in Lane /\ sent \in [Items -> Nat]
  BY DEF FullInv, RestoreInv, TypeOK
<1>1. UNCHANGED <<live, step, pmsd, opening, made>>
  BY DEF NotTransmitted, LostAnswer, Write, WriteRefused, dbVars, restoreVars
<1>2. CASE NotTransmitted \/ LostAnswer
  <2>1. UNCHANGED <<cmds, sent>>
    BY <1>2 DEF NotTransmitted, LostAnswer, boundVars
  <2>2. lane \in [i: Items, n: 1 .. MaxTries, res: {"begun", "handed", "ACKED", "UNKNOWN", "NOT_SENT"}]
    BY <1>0, <1>2 DEF NotTransmitted, LostAnswer, Lane
  <2>3. lane'.res = "UNKNOWN" \/ (lane.res = "begun" /\ lane'.i = lane.i)
    BY <1>2, <2>2 DEF NotTransmitted, LostAnswer
  <2> QED
    BY <1>1, <2>1, <2>3, HandedKept DEF FullInv, Handed
<1>3. ASSUME NEW c \in cmds, Write(c) \/ WriteRefused(c) PROVE Handed'
  <2>1. cmds' = cmds \ {c}
    BY <1>3 DEF Write, WriteRefused
  <2>2. c \in Command /\ c.i \in Items /\ \A d \in cmds' : d.i \in Items /\ d.i # c.i
    BY <2>1, CommandFacts DEF FullInv, Handed
  <2>3. \A d \in cmds' : sent'[d.i] = sent[d.i]
    <3>1. sent' \in {sent, [sent EXCEPT ![c.i] = @ + 1]}
      BY <1>3 DEF Write, WriteRefused
    <3> QED
      BY <1>0, <2>2, <3>1
  <2>4. \E res \in {"ACKED", "UNKNOWN", "NOT_SENT"} : Answer(c, res)
    BY <1>3 DEF Write, WriteRefused
  <2>5. lane'.i = lane.i /\ (~Awaits(c) => lane'.res = lane.res)
    BY <1>0, <2>2, <2>4, AnswerFacts
  <2>6. \A d \in cmds' : lane'.res \in {"begun", "NOT_SENT"} => d.i # lane'.i
    BY <2>1, <2>2, <2>5 DEF FullInv, Handed, Awaits
  <2> QED
    BY <1>1, <2>1, <2>3, <2>6, HandedKept DEF FullInv, Handed
<1> QED
  BY <1>2, <1>3

\* What operators, edged and purchases do to a row leaves a command's row its own: a retry
\* is only authorised for a charge that was never handed over.
LEMMA OperatorHanded ==
    ASSUME FullInv, OperatorStep \/ EdgedReconcile
    PROVE  Handed'
<1>0. UNCHANGED <<cmds, step, pmsd, sent, opening, made, lane>> /\ opening' \cap made' = {}
  BY DEF OperatorStep, EdgedReconcile, Declare, Release, ResolveCardHold, ResolveHold, ResolveSettlementHold,
     AuthoriseRetry, restoreVars, FullInv, Handed
<1>1. live \in Database /\ live # NoDb /\ marker \in 0 .. MaxRestores /\ live.gen \in 0 .. MaxRestores
  BY DEF OperatorStep, EdgedReconcile, Declare, Release, ResolveCardHold, ResolveHold, ResolveSettlementHold,
     AuthoriseRetry, Present, FullInv, RestoreInv, TypeOK, Database
<1>l. \A c \in cmds : lane'.res \in {"begun", "NOT_SENT"} => c.i # lane'.i
  BY <1>0 DEF FullInv, Handed
<1>2. CASE Release \/ ResolveCardHold
  <2>1. live' \in Database /\ live'.rows = live.rows
    BY <1>1, <1>2 DEF Release, ResolveCardHold, Database, Work
  <2> QED
    BY <1>0, <2>1, HandedSame, NoDbIsNone
<1>3. CASE Declare \/ EdgedReconcile
  <2>1. live' = live \/ \E g \in 0 .. MaxRestores : live' = EnterRecovery(live, g)
    BY <1>1, <1>3 DEF Declare, EdgedReconcile, Reconciled
  <2>2. CASE live' = live
    BY <1>0, <1>1, <2>2, HandedSame
  <2>3. ASSUME NEW g \in 0 .. MaxRestores, live' = EnterRecovery(live, g) PROVE Handed'
    BY <1>0, <1>1, <2>3, EnterRecoveryFacts, HandedSame
  <2> QED
    BY <2>1, <2>2, <2>3
<1>4. ASSUME NEW i \in Items, NEW h \in {"CONFIRMED_COMPLETED", "CONFIRMED_NOT_COMPLETED", "ABANDONED"}, ResolveHold(i, h)
      PROVE  Handed'
  <2> DEFINE r == live.rows[i]
             s == IF r.st = "HELD_RECOVERY" /\ h # "CONFIRMED_NOT_COMPLETED" THEN "DONE" ELSE r.st
             q == [r EXCEPT !.hold = h, !.st = s]
  <2>1. r \in Row /\ SetRow(i, q)
    BY <1>1, <1>4, LiveRowFacts DEF ResolveHold, FullInv
  <2>2. s \in Stat /\ s \in {r.st, "DONE"}
    BY <2>1 DEF Row, Stat
  <2> HIDE DEF s
  <2>3. q \in Row /\ q.st = s /\ q.out = r.out /\ q.n = r.n
    BY <2>1, <2>2 DEF Row, Stat
  <2>4. \A c \in cmds : c.i = i => CommandRow(q, c)
    BY <2>2, <2>3 DEF FullInv, Handed, CommandRow
  <2> HIDE DEF q
  <2> QED
    BY <1>0, <1>1, <1>l, <2>1, <2>3, <2>4, HandedRow
<1>5. ASSUME NEW i \in Items, ResolveSettlementHold(i) PROVE Handed'
  <2> DEFINE r == live.rows[i]
  <2>1. PICK w \in Work : SetRow(i, [r EXCEPT !.settle = w])
    BY <1>5 DEF ResolveSettlementHold, Work
  <2> DEFINE q == [r EXCEPT !.settle = w]
  <2>2. r \in Row
    BY <1>1, LiveRowFacts DEF FullInv
  <2>3. q \in Row /\ q.n = r.n /\ q.st = r.st /\ q.out = r.out
    BY <2>2, SettleRowFacts
  <2>4. \A c \in cmds : c.i = i => CommandRow(q, c)
    BY <2>3 DEF FullInv, Handed, CommandRow
  <2>5. SetRow(i, q)
    BY <2>1
  <2> HIDE DEF q, r
  <2> QED
    BY <1>0, <1>1, <1>l, <2>3, <2>4, <2>5, HandedRow
<1>6. ASSUME NEW i \in Items, AuthoriseRetry(i) PROVE Handed'
  <2> DEFINE r == live.rows[i]
             q == [r EXCEPT !.st = "QUEUED", !.auth = TRUE]
  <2>1. r \in Row /\ r.out = "NONE" /\ SetRow(i, q)
    BY <1>1, <1>6, LiveRowFacts DEF AuthoriseRetry, FullInv
  <2>2. \A c \in cmds : c.i # i
    BY <2>1 DEF FullInv, Handed, CommandRow
  <2>3. q \in Row
    BY <2>1 DEF Row
  <2> HIDE DEF q, r
  <2> QED
    BY <1>0, <1>1, <1>l, <2>1, <2>2, <2>3, HandedRow
<1> QED
  BY <1>2, <1>3, <1>4, <1>5, <1>6 DEF OperatorStep

\* A new charge has no command yet; backups, crashes and cards do not touch one.
LEMMA OtherHanded ==
    ASSUME FullInv, \/ PurchaseStep \/ TakeBackup \/ ScdCrash \/ Reboot
                    \/ \E b \in backups : Stage(b)
    PROVE  Handed'
<1>1. ASSUME NEW i \in Items, CommitCharge(i) PROVE Handed'
  <2>1. UNCHANGED <<cmds, step, pmsd, sent, lane>> /\ live # NoDb /\ SetRow(i, NewRow)
        /\ opening' = opening \ {i} /\ made' = made \cup {i} /\ i \in opening
    BY <1>1 DEF CommitCharge, restoreVars, Present
  <2>2. opening' \cap made' = {} /\ i \notin made
    BY <2>1 DEF FullInv, Handed
  <2>3. \A c \in cmds : c.i # i
    BY <2>2, CommandFacts
  <2>4. \A c \in cmds : lane'.res \in {"begun", "NOT_SENT"} => c.i # lane'.i
    BY <2>1 DEF FullInv, Handed
  <2> QED
    BY <2>1, <2>2, <2>3, <2>4, NewRowFacts, HandedRow
<1>2. CASE CommitCard \/ CardOutcome \/ \E w \in Items \cup {Card} : BeginCreate(w)
  <2>1. live \in Database
    BY <1>2 DEF CommitCard, CardOutcome, BeginCreate, Present, FullInv, RestoreInv, TypeOK
  <2>2. live' \in Database /\ live'.rows = live.rows
    BY <1>2, <2>1 DEF CommitCard, CardOutcome, BeginCreate, dbVars, Database, Work
  <2>3. UNCHANGED <<cmds, step, pmsd, sent, lane>>
    BY <1>2 DEF CommitCard, CardOutcome, BeginCreate, restoreVars
  <2>4. opening' \cap made' = {}
    BY <1>2 DEF CommitCard, CardOutcome, BeginCreate, FullInv, Handed
  <2> QED
    BY <2>2, <2>3, <2>4, HandedSame, NoDbIsNone
<1>3. CASE TakeBackup \/ ScdCrash \/ \E b \in backups : Stage(b)
  <2>1. UNCHANGED <<live, cmds, pmsd, sent, made>> /\ opening' \subseteq opening /\ lane' \in {lane, NoLane}
        /\ step' \in {step, "idle", "staged"}
    BY <1>3 DEF TakeBackup, ScdCrash, Stage, dbVars, restoreVars
  <2>2. opening' \cap made' = {}
    BY <2>1 DEF FullInv, Handed
  <2>3. \A c \in cmds' : lane'.res \in {"begun", "NOT_SENT"} => c.i # lane'.i
    BY <2>1, NoLaneFacts DEF FullInv, Handed
  <2> QED
    BY <2>1, <2>2, <2>3, HandedKept DEF FullInv, Handed
<1>4. CASE Reboot
  <2>1. cmds' = {} /\ opening' = {} /\ step' = "idle"
    BY <1>4 DEF Reboot
  <2> QED
    BY <2>1, HandedKept DEF FullInv
<1> QED
  BY <1>1, <1>2, <1>3, <1>4 DEF PurchaseStep

-----------------------------------------------------------------------------
(* The theorems *)

\* A new appliance: an empty database, no backup, no restore.
LEMMA InitRestore == Init => FullInv
<1> SUFFICES ASSUME Init PROVE FullInv
  OBVIOUS
<1>1. live \in Database /\ live # NoDb /\ live.gen = 0 /\ \A i \in Items : live.rows[i] = NoRow
  <2> DEFINE rows == [i \in Items |-> NoRow]
  <2>1. rows \in [Items -> Row] /\ \A i \in Items : rows[i] = NoRow
    BY NewRowFacts
  <2>2. 0 \in 0 .. MaxRestores
    BY RestoreBounds
  <2>3. live = [rows |-> rows, gen |-> 0, recovery |-> FALSE, held |-> {}, card |-> "over"]
    BY DEF Init
  <2> HIDE DEF rows
  <2>4. live \in Database /\ live.gen = 0 /\ live.rows = rows
    BY <2>2, <2>1, <2>3 DEF Database, Work
  <2> QED
    BY <2>1, <2>4, NoDbIsNone
<1>2. NoRow.st = "NONE" /\ NoRow.out = "NONE"
  BY DEF NoRow
<1>3. TypeOK
  <2>1. maint \in BOOLEAN
    BY DEF Init
  <2>2. sent \in [Items -> Nat] /\ aside = NoDb /\ staging = NoDb /\ backups = {} /\ marker = 0 /\ step = "idle"
        /\ next = 0 /\ edged = "up" /\ pmsd = "up" /\ lane = NoLane /\ opening = {} /\ cmds = {} /\ made = {} /\ faults = 0 /\ reboots = 0
    BY DEF Init
  <2> QED
    BY <1>1, <2>1, <2>2, NoLaneFacts, RestoreBounds DEF TypeOK, Step
<1> QED
  BY <1>1, <1>2, <1>3, NoLaneFacts
     DEF Init, FullInv, Handed, RestoreInv, RowsKnown, Known, KnownRow, Generations, Stages, NothingSentWaits, SafeRow, InHand

\* Every step keeps the invariant.
LEMMA NextRestore == FullInv /\ [Next]_vars => FullInv'
<1> SUFFICES ASSUME FullInv, [Next]_vars PROVE FullInv'
  OBVIOUS
<1>0. RestoreInv
  BY DEF FullInv
<1>1. CASE UNCHANGED vars
  <2>1. TypeOK'
    BY <1>0, <1>1 DEF vars, dbVars, restoreVars, boundVars, RestoreInv, TypeOK
  <2>2. RestoreInv'
    BY <1>0, <1>1, <2>1 DEF vars, dbVars, restoreVars, boundVars, RestoreInv, RowsKnown, Generations, Stages,
       NothingSentWaits, SafeRow, InHand
  <2>3. Handed'
    BY <1>1 DEF vars, dbVars, restoreVars, FullInv, Handed
  <2> QED
    BY <2>2, <2>3 DEF FullInv
<1>2. CASE RestoreStep
  BY <1>0, <1>2, MarkKeeps, RenameKeeps, RecordKeeps, RestoreHanded DEF RestoreStep, FullInv
<1>3. CASE LaneStep
  <2>1. RestoreInv'
    BY <1>0, <1>3, LaneMoveKeeps, SettleKeeps, ClaimKeeps, RecoverOrphanKeeps, SettlementKeeps DEF LaneStep
  <2>2. Handed'
    BY <1>3, AuthoriseHanded, AnswerHanded, SettleHanded, LaneRowHanded DEF LaneStep
  <2> QED
    BY <2>1, <2>2 DEF FullInv
<1>4. CASE PmsdStep
  <2>1. RestoreInv'
    BY <1>0, <1>4, WriteKeeps, LaneMoveKeeps DEF PmsdStep
  <2>2. Handed'
    BY <1>4, AnswerHanded DEF PmsdStep
  <2> QED
    BY <2>1, <2>2 DEF FullInv
<1>5. CASE OperatorStep
  <2>1. RestoreInv'
    BY <1>0, <1>5, RecoveryKeeps, ResolveHoldKeeps, AuthoriseRetryKeeps, SettlementKeeps, CardKeeps DEF OperatorStep
  <2> QED
    BY <1>5, <2>1, OperatorHanded DEF FullInv
<1>6. CASE TakeBackup \/ EdgedReconcile \/ ScdCrash \/ Reboot \/ \E b \in backups : Stage(b)
  <2>1. RestoreInv'
    BY <1>0, <1>6, BackupKeeps, RecoveryKeeps, CrashKeeps
  <2> QED
    BY <1>6, <2>1, OtherHanded, OperatorHanded DEF FullInv
<1>7. CASE PurchaseStep
  <2>1. RestoreInv'
    BY <1>0, <1>7, CreateKeeps, CardKeeps DEF PurchaseStep
  <2> QED
    BY <1>7, <2>1, OtherHanded DEF FullInv
<1> QED
  BY <1>1, <1>2, <1>3, <1>4, <1>5, <1>6, <1>7 DEF Next

\* The invariant holds in every reachable state, whatever fails and crashes: the databases
\* and the marker, and the purchases and commands that are between their two steps.
THEOREM RestoreInvariance == Spec => []FullInv
BY InitRestore, NextRestore, PTL DEF Spec

\* Types.
THEOREM RestoreTypes == Spec => []TypeOK
<1>1. FullInv => TypeOK
  BY DEF FullInv, RestoreInv
<1> QED
  BY <1>1, RestoreInvariance, PTL

\* advanceMarker before the swap: whatever step of a restore failed or crashed, a live
\* database that would repeat a charge is older than the marker.
THEOREM RepeatDetectable == Spec => []RepeatIsDetectable
<1>1. FullInv => RepeatIsDetectable
  <2> SUFFICES ASSUME RestoreInv, live # NoDb, NEW i \in Items, sent[i] > 0, live.rows[i].st = "QUEUED"
               PROVE  live.gen < marker
    BY DEF FullInv, RepeatIsDetectable, Present
  <2>1. sent[i] # 0
    BY DEF RestoreInv, TypeOK
  <2> QED
    BY <2>1, LiveRowFacts DEF SafeRow
<1> QED
  BY <1>1, RestoreInvariance, PTL

\* renameDB and rollback: the original database survives every failure and crash of a
\* restore, and a database the detector accepts misses charges only after a restore.
THEOREM OriginalKept == Spec => []OriginalSurvives
<1>1. FullInv => OriginalSurvives
  <2>1. RestoreInv => marker \in Int /\ marker >= 0
    BY RestoreBounds DEF RestoreInv, TypeOK
  <2> QED
    BY <2>1 DEF FullInv, RestoreInv, Stages, OriginalSurvives, Present
<1> QED
  BY <1>1, RestoreInvariance, PTL

\* ReconcileEpoch at edged's start: while edged serves, a charge the PMS already has is
\* transmitted again only by a command pmsd had found authorised before edged reconciled.
THEOREM NoRepeatReconciled == Spec => NoRepeatOnceReconciled
<1>1. FullInv /\ [Next]_vars =>
        [\A i \in Items : sent[i] > 0 /\ sent'[i] > sent[i] =>
            edged # "up" \/ \E c \in cmds \ cmds' : c.i = i /\ c.early]_vars
  <2> SUFFICES ASSUME FullInv, [Next]_vars, NEW i \in Items, sent[i] > 0, sent'[i] > sent[i]
               PROVE  \E c \in cmds \ cmds' : c.i = i /\ c.early
    OBVIOUS
  <2>0. sent \in [Items -> Nat] /\ sent[i] # 0 /\ sent' # sent
    BY DEF FullInv, RestoreInv, TypeOK
  <2>1. PICK c \in cmds : Write(c)
    BY <2>0 DEF Next, vars, RestoreStep, LaneStep, PmsdStep, OperatorStep, PurchaseStep, Quiesce, AdvanceMarker,
       RenameAside, RenameIn, Verify, Record, BackInService, Authorise, NotTransmitted, LostAnswer, WriteRefused,
       Settle, Claim, RecoverOrphan, ApplyOutcome, Declare, Release, ResolveCardHold, ResolveHold,
       ResolveSettlementHold, AuthoriseRetry, TakeBackup, EdgedReconcile, ScdCrash, Reboot, BeginCreate,
       CommitCharge, CommitCard, CardOutcome, Stage
  <2>2. c.i = i /\ c \notin cmds'
    <3>1. sent' \in {sent, [sent EXCEPT ![c.i] = @ + 1]} /\ cmds' = cmds \ {c}
      BY <2>1 DEF Write
    <3>2. i # c.i => sent'[i] = sent[i]
      BY <2>0, <3>1
    <3> QED
      BY <2>0, <3>1, <3>2
  <2>3. c \in Command /\ (~c.early => sent[c.i] = 0)
    BY DEF FullInv, RestoreInv, TypeOK, Handed
  <2> QED
    BY <2>0, <2>2, <2>3 DEF Command
<1> QED
  BY <1>1, RestoreInvariance, PTL DEF Spec, NoRepeatOnceReconciled

=============================================================================
