--------------------------- MODULE ChargeContract ---------------------------
(***************************************************************************)
(* What the room-charge pipeline promises of each charge, with no lane,    *)
(* relay, link or queue in sight (IAM Phase 0 contract, sections 9a, 16):  *)
(* a charge is transmitted once, and once more after an audited            *)
(* CONFIRM_NOT_POSTED_RETRY; that decision is given at most once, and only *)
(* for a charge that is not on the folio; access is granted only against a *)
(* debit, and a charge fails only without one; SETTLED and FAILED are      *)
(* final, and a FAILED charge is never transmitted or debited afterwards.  *)
(***************************************************************************)
EXTENDS Naturals

CONSTANT Charge

VARIABLES
    status,        \* NONE, OPEN, SETTLED or FAILED
    sends,         \* how often a PS of the charge may have reached the PMS
    retries,       \* 1 after the audited retry decision
    debits         \* how often the PMS debited it

contractVars == <<status, sends, retries, debits>>

Init ==
    /\ status = [p \in Charge |-> "NONE"]
    /\ sends = [p \in Charge |-> 0]
    /\ retries = [p \in Charge |-> 0]
    /\ debits = [p \in Charge |-> 0]

Open(p) ==
    /\ status[p] = "NONE"
    /\ status' = [status EXCEPT ![p] = "OPEN"]
    /\ UNCHANGED <<sends, retries, debits>>

Transmit(p) ==
    /\ status[p] = "OPEN"
    /\ sends[p] < 1 + retries[p]
    /\ sends' = [sends EXCEPT ![p] = @ + 1]
    /\ UNCHANGED <<status, retries, debits>>

\* The PMS debits it, on its own time but never after the charge was declared failed.
Debit(p) ==
    /\ status[p] = "OPEN"
    /\ sends[p] > 0 /\ debits[p] = 0
    /\ debits' = [debits EXCEPT ![p] = 1]
    /\ UNCHANGED <<status, sends, retries>>

AuthoriseRetry(p) ==
    /\ status[p] \in {"OPEN", "FAILED"}
    /\ retries[p] = 0 /\ debits[p] = 0
    /\ retries' = [retries EXCEPT ![p] = 1]
    /\ UNCHANGED <<status, sends, debits>>

Settle(p) ==
    /\ status[p] = "OPEN" /\ debits[p] = 1
    /\ status' = [status EXCEPT ![p] = "SETTLED"]
    /\ UNCHANGED <<sends, retries, debits>>

Fail(p) ==
    /\ status[p] = "OPEN" /\ debits[p] = 0
    /\ status' = [status EXCEPT ![p] = "FAILED"]
    /\ UNCHANGED <<sends, retries, debits>>

Next ==
    \E p \in Charge :
        \/ Open(p) \/ Transmit(p) \/ Debit(p)
        \/ AuthoriseRetry(p) \/ Settle(p) \/ Fail(p)

Spec == Init /\ [][Next]_contractVars

=============================================================================
