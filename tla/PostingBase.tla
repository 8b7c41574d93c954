---------------------------- MODULE PostingBase ----------------------------
(***************************************************************************)
(* What the ledger and the relay of one PMS interface both speak about:    *)
(* reservations, rooms, protocol-attempt references (P#) and the status    *)
(* codes of a posting answer (PA).                                         *)
(***************************************************************************)
EXTENDS Integers, FiniteSets

CONSTANTS
    Stay,          \* the stays; each has its own reservation number (G#)
    Room,          \* the room numbers (RN)
    Away,          \* not in house, or departed: no room
    MaxAttempt,    \* bound: P# numbers the model allocates
    AnswerCode     \* the PA status codes (AS) this PMS answers with

ASSUME BaseConstants ==
    /\ MaxAttempt \in Nat
    /\ Away \notin Room
    /\ "OK" \in AnswerCode /\ "none" \notin AnswerCode

\* P# numbers, in the order allocate_p_number hands them out.
PNum == 1 .. MaxAttempt

=============================================================================
