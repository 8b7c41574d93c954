----------------------------- MODULE RelayAlone -----------------------------
(***************************************************************************)
(* The relay against any client of its socket: connections may repeat a    *)
(* P#, arrive late and overlap, and the ledger behind the authoriser is    *)
(* reduced to what the relay can see of it: P#s are allocated in order, at *)
(* most one attempt of the interface is SENDING, and it concludes at any   *)
(* moment.  The PMS answers what was written, once or more, in any order.  *)
(* The process does not restart here: its memory is what is checked        *)
(* (RoomCharge restarts it).                                               *)
(***************************************************************************)
EXTENDS FinancialRelay

CONSTANTS
    Guest,         \* the one reservation the commands name
    HomeRoom       \* the room they carry

ASSUME RelayAloneConstants == Guest \in Stay /\ HomeRoom \in Room

VARIABLES
    sending,       \* the P# of the SENDING attempt, 0 if there is none
    allocated      \* the highest P# allocated

vars == <<relayVars, sending, allocated>>

Init == RelayInit /\ sending = 0 /\ allocated = 0

Begins ==
    /\ sending = 0 /\ allocated < MaxAttempt
    /\ sending' = allocated + 1 /\ allocated' = allocated + 1
    /\ UNCHANGED relayVars

Concludes ==
    /\ sending # 0 /\ sending' = 0
    /\ UNCHANGED <<relayVars, allocated>>

Arrives(c) ==
    /\ \E n \in 1 .. allocated : Receive(c, n)
    /\ UNCHANGED <<sending, allocated>>

Asks(c) ==
    /\ Authorise(c, IF cmd[c] = sending THEN "AUTHORISED" ELSE "ATTEMPT_NOT_SENDING")
    /\ UNCHANGED <<sending, allocated>>

Handles(c) ==
    /\ \/ CheckCarried(c) \/ Register(c) \/ Submit(c) \/ WriterGone(c)
       \/ TakeAnswer(c) \/ GiveUp(c)
    /\ UNCHANGED <<sending, allocated>>

Writes(c) ==
    /\ GuardRefuses(c, Guest, HomeRoom) \/ Write(c, Guest, HomeRoom)
    /\ UNCHANGED <<sending, allocated>>

Breaks(c) ==
    /\ WriteFails(c, Guest, HomeRoom)
    /\ UNCHANGED <<sending, allocated>>

LinkMoves ==
    /\ \/ LinkUp \/ LinkDown \/ DetachEnds \/ WriterEnds \/ ResyncBegins \/ ResyncUnanswered
       \/ ResyncEnds([g \in {Guest} |-> HomeRoom])
       \/ \E place \in Room \cup {Away} : Observe(Guest, place)
    /\ UNCHANGED <<sending, allocated>>

Answers(n) ==
    /\ n \in onWire
    /\ DeliverPA(n, "OK")
    /\ UNCHANGED <<sending, allocated>>

Next ==
    \/ Begins \/ Concludes \/ LinkMoves
    \/ \E c \in Conn : Arrives(c) \/ Asks(c) \/ Handles(c) \/ Writes(c) \/ Breaks(c)
    \/ \E n \in PNum : Answers(n)

Spec == Init /\ [][Next]_vars

-----------------------------------------------------------------------------
\* A P# is written to the PMS at most once by one process: a command at the writer is
\* one that was never written, and the only one of its P# there, whatever the client
\* repeats and however checks, hand-overs and conclusions of its connections overlap.
WrittenOnce ==
    \A c \in Conn : hs[c] = "enqueued" =>
        /\ cmd[c] \notin onWire
        /\ \A d \in Conn \ {c} : cmd[d] = cmd[c] => hs[d] \notin {"enqueued", "written"}

\* The answer a connection is given is the PMS's answer to its own P#, and its command
\* did reach the wire: a late PA of an earlier command never answers a later one.
AnswerIsItsOwn ==
    \A c \in Conn : resp[c].result = "ANSWERED" =>
        cmd[c] \in onWire /\ resp[c].pa.pn = cmd[c]

\* The pending slot belongs to a handler that will still release it.
SlotIsHeld == pending # 0 => hs[pending] \in {"registered", "enqueued", "written"}

\* No handler is ever stuck: until it has answered, its own goroutine or the writer has a
\* step to take, whatever the PMS does and wherever the link's cycle is.  Handlers only
\* move forward, so with their deadlines every command read from the socket is answered;
\* and none leaves the pending slot taken, on any of its ways out, which would answer
\* LINK_BUSY to every later command until the link is replaced.
HandlerCanAdvance ==
    /\ SlotIsHeld
    /\ \A c \in Conn : hs[c] \notin {"idle", "done"} =>
          ENABLED (Asks(c) \/ Handles(c) \/ Writes(c))

=============================================================================
