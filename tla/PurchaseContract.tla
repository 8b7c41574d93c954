-------------------------- MODULE PurchaseContract --------------------------
(***************************************************************************)
(* What the card path promises of each purchase, with no caller, provider  *)
(* answer, recovery or sweep in sight: money is asked for only once the    *)
(* charge is in the books; a charge is concluded once, as captured only    *)
(* when the pinned amount was paid, as void only when nobody paid or will; *)
(* access opens once, on a settled purchase of which nothing is booked as  *)
(* returned; what is booked as returned has really gone back; and a        *)
(* purchase that failed, or went to review, stays there.                   *)
(***************************************************************************)
EXTENDS Integers

CONSTANTS Purchase,    \* card purchases
          Price        \* the pinned amount of each

VARIABLES
    status,        \* of the purchase: NONE, OPEN, SETTLED, FAILED or REVIEW
    outcome,       \* of its charge: NONE, PENDING, CAPTURED, FAILED, VOID or UNKNOWN
    paid,          \* what the guest paid: NO, EXACT or OTHER
    returned,      \* how much of it went back
    booked,        \* how much of that is in the books
    access         \* NONE, ACTIVE or ENDED

contractVars == <<status, outcome, paid, returned, booked, access>>

Init ==
    /\ status = [p \in Purchase |-> "NONE"]
    /\ outcome = [p \in Purchase |-> "NONE"]
    /\ paid = [p \in Purchase |-> "NO"]
    /\ returned = [p \in Purchase |-> 0]
    /\ booked = [p \in Purchase |-> 0]
    /\ access = [p \in Purchase |-> "NONE"]

Open(p) ==
    /\ status[p] = "NONE"
    /\ status' = [status EXCEPT ![p] = "OPEN"]
    /\ UNCHANGED <<outcome, paid, returned, booked, access>>

Charge(p) ==
    /\ status[p] = "OPEN" /\ outcome[p] = "NONE"
    /\ outcome' = [outcome EXCEPT ![p] = "PENDING"]
    /\ UNCHANGED <<status, paid, returned, booked, access>>

\* A purchase nobody ever charged fails.
Abandon(p) ==
    /\ status[p] = "OPEN" /\ outcome[p] = "NONE"
    /\ status' = [status EXCEPT ![p] = "FAILED"]
    /\ UNCHANGED <<outcome, paid, returned, booked, access>>

\* The guest pays, also after the charge was given up: but never one that was declared void.
Pay(p) ==
    /\ paid[p] = "NO" /\ outcome[p] \notin {"NONE", "VOID"}
    /\ \E r \in {"EXACT", "OTHER"} : paid' = [paid EXCEPT ![p] = r]
    /\ UNCHANGED <<status, outcome, returned, booked, access>>

\* What an open purchase becomes: a failure may be left open for finance, money may not.
Verdicts(o) ==
    CASE o = "CAPTURED"           -> {"SETTLED"}
      [] o \in {"FAILED", "VOID"} -> {"FAILED", "OPEN"}
      [] o = "UNKNOWN"            -> {"REVIEW"}

Conclude(p, o) ==
    /\ outcome[p] = "PENDING"
    /\ o = "CAPTURED" => paid[p] = "EXACT"
    /\ o = "VOID" => paid[p] = "NO"
    /\ outcome' = [outcome EXCEPT ![p] = o]
    /\ \E s \in IF status[p] = "OPEN" THEN Verdicts(o) ELSE {status[p]} :
          status' = [status EXCEPT ![p] = s]
    /\ UNCHANGED <<paid, returned, booked, access>>

\* Finance takes over a purchase whose money is open; one that is settled is never taken back.
Escalate(p) ==
    /\ status[p] = "OPEN" /\ outcome[p] \in {"PENDING", "FAILED"}
    /\ status' = [status EXCEPT ![p] = "REVIEW"]
    /\ UNCHANGED <<outcome, paid, returned, booked, access>>

GiveBack(p) ==
    /\ paid[p] = "EXACT"
    /\ \E n \in 1..Price : returned' = [returned EXCEPT ![p] = @ + n]
    /\ UNCHANGED <<status, outcome, paid, booked, access>>

Book(p) ==
    /\ outcome[p] = "CAPTURED"
    /\ \E n \in 1..Price :
          /\ booked[p] + n <= returned[p] /\ booked[p] + n <= Price
          /\ booked' = [booked EXCEPT ![p] = @ + n]
    /\ UNCHANGED <<status, outcome, paid, returned, access>>

Grant(p) ==
    /\ access[p] = "NONE"
    /\ status[p] = "SETTLED" /\ booked[p] = 0
    /\ access' = [access EXCEPT ![p] = "ACTIVE"]
    /\ UNCHANGED <<status, outcome, paid, returned, booked>>

End(p) ==
    /\ access[p] = "ACTIVE"
    /\ access' = [access EXCEPT ![p] = "ENDED"]
    /\ UNCHANGED <<status, outcome, paid, returned, booked>>

Next ==
    \E p \in Purchase :
        \/ Open(p) \/ Charge(p) \/ Abandon(p) \/ Pay(p) \/ Escalate(p)
        \/ \E o \in {"CAPTURED", "FAILED", "VOID", "UNKNOWN"} : Conclude(p, o)
        \/ GiveBack(p) \/ Book(p) \/ Grant(p) \/ End(p)

Spec == Init /\ [][Next]_contractVars

=============================================================================
