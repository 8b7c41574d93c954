--------------------------- MODULE FinancialRelay ---------------------------
(***************************************************************************)
(* pmsd's FinancialRelay and the single writer behind it                   *)
(* (internal/pmsd/financial_relay.go, writer.go, adapter_fias.go), for one *)
(* PMS interface.  A connection of the hand-off socket carries one command *)
(* (one P#) and gets one response; its handler, the link's read loop and   *)
(* the writer goroutine interleave here as they do in the process: one     *)
(* action per stretch of code that runs under one lock or on one           *)
(* goroutine without waiting for another.                                  *)
(*                                                                         *)
(* The relay does not know why a command is authorised, so Authorise takes *)
(* the database's verdict as its parameter; the room of a command and the  *)
(* reservation it names are parameters of the write guard.                 *)
(***************************************************************************)
EXTENDS PostingBase, Sequences

CONSTANTS
    Conn,          \* connections of the hand-off socket
    Unseen,        \* the link has not mentioned this reservation
    MaxCarried     \* maxCarriedPerLink

ASSUME RelayConstants ==
    /\ MaxCarried \in Nat \ {0}
    /\ Unseen \notin Room \cup {Away}
    /\ 0 \notin Conn

VARIABLES
    link,          \* the ownership cycle: see LinkState
    pending,       \* port.pending's connection, 0 for nil
    carried,       \* r.carried: P#s handed to a writer
    carriedOrder,  \* r.carriedOrder: insertion order, may hold forgotten P#s
    seen,          \* r.seen: what this link said last of a reservation
    hs,            \* where each connection's handler is
    cmd,           \* the command the connection carries, 0 before it is read
    cut,           \* connections whose port was withdrawn under them
    answer,        \* pendingCommand.answer: the buffered PA
    resp,          \* the response written back
    onWire         \* P#s whose PS passed the write guard: they may be with the PMS

relayVars == <<link, pending, carried, carriedOrder, seen, hs, cmd, cut, answer, resp, onWire>>
linkVars == <<link, seen>>

\* DOWN: no port.  INITIAL, RESYNC: a port, not steady.  STEADY: commands are carried.
\* BROKEN: the port is still offered, its writer has ended.  DETACHING: detach has
\* removed the port and the link's view and has not yet cleared the steady flag.
LinkState == {"DOWN", "INITIAL", "RESYNC", "STEADY", "BROKEN", "DETACHING"}
HandlerState == {"idle", "received", "checked", "authorised", "registered", "enqueued",
                 "written", "done"}
Result == {"ANSWERED", "NOT_TRANSMITTED", "UNKNOWN"}
\* The bounded reasons: the authoriser's refusals, then the relay's own.
RefusalCode == {"NO_SUCH_ATTEMPT", "ATTEMPT_NOT_SENDING", "POSTING_NOT_IN_FLIGHT",
                "INTERFACE_NOT_FINANCIALLY_READY", "STAY_NOT_POSTABLE", "ROOM_CHANGED",
                "INTERFACE_NOT_FRESH", "AUTHORISATION_UNAVAILABLE"}
RelayCode == RefusalCode \cup
    {"", "DUPLICATE_COMMAND", "LINK_NOT_CONNECTED", "LINK_RESYNCING", "LINK_BUSY",
     "LINK_WRITER_UNAVAILABLE", "RESERVATION_DEPARTED_ON_LINK", "ROOM_CHANGED_ON_LINK",
     "WRITE_INCOMPLETE", "LINK_LOST_AFTER_WRITE", "ANSWER_TIMEOUT"}
\* A PA record: the P# it answers and its status.
PA == [pn: PNum \cup {0}, as: AnswerCode \cup {"none"}]
NoPA == [pn |-> 0, as |-> "none"]

Response == [result: Result \cup {"none"}, pa: PA, code: RelayCode]
NoResponse == [result |-> "none", pa |-> NoPA, code |-> ""]
notSent(code) == [result |-> "NOT_TRANSMITTED", pa |-> NoPA, code |-> code]
unknown(code) == [result |-> "UNKNOWN", pa |-> NoPA, code |-> code]
answered(record) == [result |-> "ANSWERED", pa |-> record, code |-> ""]

RelayTypeOK ==
    /\ link \in LinkState
    /\ pending \in Conn \cup {0}
    /\ carried \in SUBSET PNum
    /\ carriedOrder \in Seq(PNum)
    /\ seen \in [Stay -> Room \cup {Away, Unseen}]
    /\ hs \in [Conn -> HandlerState]
    /\ cmd \in [Conn -> PNum \cup {0}]
    /\ cut \in SUBSET Conn
    /\ answer \in [Conn -> PA]
    /\ resp \in [Conn -> Response]
    /\ onWire \in SUBSET PNum

RelayInit ==
    /\ link = "DOWN"
    /\ pending = 0
    /\ carried = {} /\ carriedOrder = <<>>
    /\ seen = [g \in Stay |-> Unseen]
    /\ hs = [c \in Conn |-> "idle"]
    /\ cmd = [c \in Conn |-> 0]
    /\ cut = {}
    /\ answer = [c \in Conn |-> NoPA]
    /\ resp = [c \in Conn |-> NoResponse]
    /\ onWire = {}

-----------------------------------------------------------------------------
(* The handler of one connection: FinancialRelay.Handle *)

Respond(c, r) ==
    /\ hs' = [hs EXCEPT ![c] = "done"]
    /\ resp' = [resp EXCEPT ![c] = r]

\* release(): the port's pending slot, if it is still this command's.
Release(c) == pending' = IF pending = c THEN 0 ELSE pending

Forget(c) == carried' = carried \ {cmd[c]}

\* serveConn reads the request.
Receive(c, n) ==
    /\ hs[c] = "idle"
    /\ hs' = [hs EXCEPT ![c] = "received"]
    /\ cmd' = [cmd EXCEPT ![c] = n]
    /\ UNCHANGED <<linkVars, pending, carried, carriedOrder, cut, answer, resp, onWire>>

\* Handle up to wasCarried.
CheckCarried(c) ==
    /\ hs[c] = "received"
    /\ IF cmd[c] \in carried
       THEN Respond(c, unknown("DUPLICATE_COMMAND"))
       ELSE /\ hs' = [hs EXCEPT ![c] = "checked"]
            /\ UNCHANGED resp
    /\ UNCHANGED <<linkVars, pending, carried, carriedOrder, cmd, cut, answer, onWire>>

\* The database's verdict; a failed query is a verdict too (AUTHORISATION_UNAVAILABLE).
Authorise(c, verdict) ==
    /\ hs[c] = "checked"
    /\ IF verdict = "AUTHORISED"
       THEN /\ hs' = [hs EXCEPT ![c] = "authorised"]
            /\ UNCHANGED resp
       ELSE Respond(c, notSent(verdict))
    /\ UNCHANGED <<linkVars, pending, carried, carriedOrder, cmd, cut, answer, onWire>>

\* portFor, the steady flag, and the pending slot.
Register(c) ==
    /\ hs[c] = "authorised"
    /\ LET refusal == CASE link \in {"DOWN", "DETACHING"} -> "LINK_NOT_CONNECTED"
                        [] link \in {"INITIAL", "RESYNC"} -> "LINK_RESYNCING"
                        [] link \in {"STEADY", "BROKEN"} -> IF pending # 0 THEN "LINK_BUSY" ELSE ""
       IN  IF refusal # ""
           THEN Respond(c, notSent(refusal)) /\ UNCHANGED pending
           ELSE /\ hs' = [hs EXCEPT ![c] = "registered"]
                /\ pending' = c
                /\ UNCHANGED resp
    /\ UNCHANGED <<linkVars, carried, carriedOrder, cmd, cut, answer, onWire>>

\* markCarried's eviction loop: the k oldest entries of the order are dropped, k being
\* the fewest that bring the set under its bound (or all of them).
Remaining(k) == carried \ {carriedOrder[i] : i \in 1 .. k}
Evicts(k) ==
    /\ k = Len(carriedOrder) \/ Cardinality(Remaining(k)) < MaxCarried
    /\ \A j \in 0 .. k - 1 : Cardinality(Remaining(j)) >= MaxCarried

\* The writer of the connection's port has ended, or may have.
Orphaned(c) == c \in cut \/ link = "BROKEN"

\* Mutant of Submit: the P# is marked without looking whether it was carried already.
SubmitUnchecked(c) ==
    /\ hs[c] = "registered"
    /\ hs' = [hs EXCEPT ![c] = "enqueued"]
    /\ carried' = carried \cup {cmd[c]}
    /\ UNCHANGED <<linkVars, pending, carriedOrder, cmd, cut, answer, resp, onWire>>

\* markCarried, then the hand-over to the writer's queue.  A writer that has ended
\* takes nothing and the P# is forgotten, or its queue still accepts the command.
Submit(c) ==
    /\ hs[c] = "registered"
    /\ IF cmd[c] \in carried
       THEN /\ Respond(c, unknown("DUPLICATE_COMMAND"))
            /\ Release(c)
            /\ UNCHANGED <<carried, carriedOrder>>
       ELSE \E k \in 0 .. Len(carriedOrder) :
              /\ Evicts(k)
              /\ carriedOrder' = Append(SubSeq(carriedOrder, k + 1, Len(carriedOrder)), cmd[c])
              /\ \/ /\ hs' = [hs EXCEPT ![c] = "enqueued"]
                    /\ carried' = Remaining(k) \cup {cmd[c]}
                    /\ UNCHANGED <<pending, resp>>
                 \/ /\ Orphaned(c)
                    /\ Respond(c, notSent("LINK_WRITER_UNAVAILABLE"))
                    /\ carried' = Remaining(k)
                    /\ Release(c)
    /\ UNCHANGED <<linkVars, cmd, cut, answer, onWire>>

-----------------------------------------------------------------------------
(* The writer goroutine: serialWriter.run for a financial request *)

\* Mutant of GuardCode: only a departure stops the command.
GuardIgnoresRoom(c, g, rn) ==
    IF c \in cut \/ link \notin {"STEADY", "DETACHING"} THEN "LINK_RESYNCING"
    ELSE IF seen[g] = Away THEN "RESERVATION_DEPARTED_ON_LINK"
    ELSE ""

\* The guard at the first byte: what the link knows of the reservation now.
GuardCode(c, g, rn) ==
    IF c \in cut \/ link \notin {"STEADY", "DETACHING"} THEN "LINK_RESYNCING"
    ELSE IF seen[g] = Away THEN "RESERVATION_DEPARTED_ON_LINK"
    ELSE IF seen[g] \in Room \ {rn} THEN "ROOM_CHANGED_ON_LINK"
    ELSE ""

GuardRefuses(c, g, rn) ==
    /\ hs[c] = "enqueued"
    /\ c \in cut \/ link # "BROKEN"
    /\ GuardCode(c, g, rn) # ""
    /\ Respond(c, notSent(GuardCode(c, g, rn)))
    /\ Forget(c)
    /\ Release(c)
    /\ UNCHANGED <<linkVars, carriedOrder, cmd, cut, answer, onWire>>

\* writeFinancialFrame succeeds; the handler waits for the PA.
Write(c, g, rn) ==
    /\ hs[c] = "enqueued"
    /\ GuardCode(c, g, rn) = ""
    /\ hs' = [hs EXCEPT ![c] = "written"]
    /\ onWire' = onWire \cup {cmd[c]}
    /\ UNCHANGED <<linkVars, pending, carried, carriedOrder, cmd, cut, answer, resp>>

\* The write fails after the first byte: UNKNOWN, and the writer ends.
WriteFails(c, g, rn) ==
    /\ hs[c] = "enqueued"
    /\ GuardCode(c, g, rn) = ""
    /\ Respond(c, unknown("WRITE_INCOMPLETE"))
    /\ onWire' = onWire \cup {cmd[c]}
    /\ link' = IF link = "STEADY" THEN "BROKEN" ELSE link
    /\ Release(c)
    /\ UNCHANGED <<seen, carried, carriedOrder, cmd, cut, answer>>

\* Another frame of the writer fails (a keepalive, an acknowledgement, a DR).
WriterEnds ==
    /\ link = "STEADY"
    /\ link' = "BROKEN"
    /\ UNCHANGED <<seen, pending, carried, carriedOrder, hs, cmd, cut, answer, resp, onWire>>

\* Mutant of WriterGone: the handler waits for the link to be withdrawn.
WriterGoneUnnoticed(c) ==
    /\ hs[c] = "enqueued" /\ c \in cut
    /\ Respond(c, unknown("WRITE_INCOMPLETE"))
    /\ Release(c)
    /\ UNCHANGED <<linkVars, carried, carriedOrder, cmd, cut, answer, onWire>>

\* A command queued behind a writer that ended: enqueued, never written.
WriterGone(c) ==
    /\ hs[c] = "enqueued" /\ Orphaned(c)
    /\ Respond(c, unknown("WRITE_INCOMPLETE"))
    /\ Release(c)
    /\ UNCHANGED <<linkVars, carried, carriedOrder, cmd, cut, answer, onWire>>

-----------------------------------------------------------------------------
(* Waiting for the answer *)

\* Mutant of DeliverPA: whatever command waits gets the answer.
DeliverAnyPA(n, as) ==
    /\ link \notin {"DOWN", "DETACHING"}
    /\ IF pending # 0
       THEN /\ answer' = [answer EXCEPT ![pending] = [pn |-> n, as |-> as]]
            /\ pending' = 0
       ELSE UNCHANGED <<answer, pending>>
    /\ UNCHANGED <<linkVars, carried, carriedOrder, hs, cmd, cut, resp, onWire>>

\* onPA on the read loop: delivered to the command waiting for this P#, else dropped.
DeliverPA(n, as) ==
    /\ link \notin {"DOWN", "DETACHING"}
    /\ IF pending # 0 /\ cmd[pending] = n
       THEN /\ answer' = [answer EXCEPT ![pending] = [pn |-> n, as |-> as]]
            /\ pending' = 0
       ELSE UNCHANGED <<answer, pending>>
    /\ UNCHANGED <<linkVars, carried, carriedOrder, hs, cmd, cut, resp, onWire>>

TakeAnswer(c) ==
    /\ hs[c] = "written" /\ answer[c] # NoPA
    /\ Respond(c, answered(answer[c]))
    /\ UNCHANGED <<linkVars, pending, carried, carriedOrder, cmd, cut, answer, onWire>>

\* Mutant of GiveUp: a command that got no answer is reported as not sent.
GiveUpAsNotSent(c) ==
    /\ hs[c] = "written"
    /\ Respond(c, notSent("ANSWER_TIMEOUT"))
    /\ Release(c)
    /\ UNCHANGED <<linkVars, carried, carriedOrder, cmd, cut, answer, onWire>>

\* The timer, the lost channel and the context: each ends the wait UNKNOWN.
GiveUp(c) ==
    /\ hs[c] = "written"
    /\ Respond(c, unknown(IF c \in cut THEN "LINK_LOST_AFTER_WRITE" ELSE "ANSWER_TIMEOUT"))
    /\ Release(c)
    /\ UNCHANGED <<linkVars, carried, carriedOrder, cmd, cut, answer, onWire>>

-----------------------------------------------------------------------------
(* The link: fiasAdapter.serve *)

LinkUp ==
    /\ link = "DOWN"
    /\ link' = "INITIAL"
    /\ seen' = [g \in Stay |-> Unseen]
    /\ pending' = 0
    /\ UNCHANGED <<carried, carriedOrder, hs, cmd, cut, answer, resp, onWire>>

\* Commands whose port is withdrawn under them.
Severed == cut \cup {c \in Conn : hs[c] \in {"registered", "enqueued", "written"}}

\* The read loop ends and detach begins: the port and the link's view are removed
\* under r.mu.  Where the port was not steady or its writer is gone, the rest of
\* detach makes no difference and belongs to the same step.
LinkDown ==
    /\ link \notin {"DOWN", "DETACHING"}
    /\ seen' = [g \in Stay |-> Unseen]
    /\ pending' = 0
    /\ IF link = "STEADY"
       THEN link' = "DETACHING" /\ UNCHANGED cut
       ELSE link' = "DOWN" /\ cut' = Severed
    /\ UNCHANGED <<carried, carriedOrder, hs, cmd, answer, resp, onWire>>

\* detach ends: the steady flag is cleared and lost is closed.
DetachEnds ==
    /\ link = "DETACHING"
    /\ link' = "DOWN"
    /\ cut' = Severed
    /\ UNCHANGED <<seen, pending, carried, carriedOrder, hs, cmd, answer, resp, onWire>>

\* A DR goes out, or a DS arrives: nothing is carried inside the window.
ResyncBegins ==
    /\ link = "STEADY"
    /\ link' = "RESYNC"
    /\ UNCHANGED <<seen, pending, carried, carriedOrder, hs, cmd, cut, answer, resp, onWire>>

\* The PMS never began a requested financial resync: the gate is released.
ResyncUnanswered ==
    /\ link = "RESYNC"
    /\ link' = "STEADY"
    /\ UNCHANGED <<seen, pending, carried, carriedOrder, hs, cmd, cut, answer, resp, onWire>>

\* DE after a sweep that mentioned the guests in house, as a function to rooms.
ResyncEnds(roster) ==
    /\ link \in {"INITIAL", "RESYNC"}
    /\ link' = "STEADY"
    /\ seen' = [g \in Stay |-> IF g \in DOMAIN roster THEN roster[g] ELSE seen[g]]
    /\ UNCHANGED <<pending, carried, carriedOrder, hs, cmd, cut, answer, resp, onWire>>

\* ObserveGuestRecord: GI/GC with a room, GO for a departure.
Observe(g, place) ==
    /\ link \notin {"DOWN", "DETACHING"}
    /\ seen' = [seen EXCEPT ![g] = place]
    /\ UNCHANGED <<link, pending, carried, carriedOrder, hs, cmd, cut, answer, resp, onWire>>

\* The process stops: every handler dies without a response, memory is lost.
RelayStops ==
    /\ link' = "DOWN"
    /\ seen' = [g \in Stay |-> Unseen]
    /\ pending' = 0
    /\ carried' = {} /\ carriedOrder' = <<>>
    /\ hs' = [c \in Conn |-> IF hs[c] = "idle" THEN "idle" ELSE "done"]
    /\ resp' = [c \in Conn |-> IF hs[c] = "done" THEN resp[c] ELSE NoResponse]
    /\ answer' = [c \in Conn |-> NoPA]
    /\ cut' = {}
    /\ UNCHANGED <<cmd, onWire>>

=============================================================================
