-------------------------- MODULE RelayAloneProofs --------------------------
(***************************************************************************)
(* Theorems about RelayAlone, for every set of connections and rooms, any  *)
(* number of P#s and any bound of the carried set: clients of the socket   *)
(* may repeat and overlap commands as they like, and the link may come and *)
(* go under them.                                                          *)
(***************************************************************************)
EXTENDS RelayAlone, FinancialRelayProofs, FiniteSetTheorems, WellFoundedInduction

-----------------------------------------------------------------------------
(* The inductive invariant *)

Types ==
    /\ RelayTypeOK
    /\ allocated \in 0 .. MaxAttempt
    /\ sending \in 0 .. allocated

\* What a connection's memory says about its own command: a buffered answer and an
\* answered response are the ones of its P#, and a command that waits was written.
Knows(c) ==
    /\ hs[c] = "idle" => answer[c] = NoPA /\ resp[c].result = "none" /\ pending # c
    /\ hs[c] # "idle" => cmd[c] \in PNum
    /\ answer[c] # NoPA => answer[c].pn = cmd[c]
    /\ hs[c] = "written" => cmd[c] \in onWire
    /\ resp[c].result = "ANSWERED" => cmd[c] \in onWire /\ resp[c].pa.pn = cmd[c]

RelayInv == Types /\ \A c \in Conn : Knows(c)

\* What was written is still remembered as carried, and so is what waits at the writer,
\* once for each P#.
Alone(c) ==
    hs[c] = "enqueued" =>
        /\ cmd[c] \in carried \ onWire
        /\ \A d \in Conn \ {c} : cmd[d] = cmd[c] => hs[d] \notin {"enqueued", "written"}

CarriedOnce == onWire \subseteq carried /\ \A c \in Conn : Alone(c)

\* The carried set has room for a command that is about to be marked.
NoEvictionDue ==
    \A c \in Conn : hs[c] = "registered" /\ cmd[c] \notin carried => Cardinality(carried) < MaxCarried

-----------------------------------------------------------------------------
(* Types *)

\* No client, PMS or link can make the relay leave its types.
LEMMA TypesKept ==
    ASSUME RelayInv, [Next]_vars
    PROVE  Types'
<1> USE DEF RelayInv
<1>0. CASE UNCHANGED vars
  BY <1>0 DEF vars, relayVars, Types, RelayTypeOK
<1>1. CASE Begins \/ Concludes
  BY <1>1, BaseConstants DEF Begins, Concludes, Types, relayVars, RelayTypeOK
<1>2. CASE LinkMoves
  <2>1. CASE LinkAction
    BY <2>1, <1>2, LinkTyped DEF LinkMoves, Types
  <2>2. CASE ResyncEnds([g \in {Guest} |-> HomeRoom])
    <3>1. {Guest} \in SUBSET Stay /\ [g \in {Guest} |-> HomeRoom] \in [{Guest} -> Room \cup {Away}]
      BY RelayAloneConstants
    <3> QED
      BY <3>1, <2>2, <1>2, SweepTyped DEF LinkMoves, Types
  <2> QED
    BY <1>2, <2>1, <2>2, RelayAloneConstants DEF LinkMoves, LinkAction
<1>3. ASSUME NEW c \in Conn, Arrives(c) PROVE Types'
  <2>1. PICK n \in 1 .. allocated : Receive(c, n)
    BY <1>3 DEF Arrives
  <2>2. n \in PNum
    BY BaseConstants DEF PNum, Types
  <2> QED
    BY <1>3, <2>1, <2>2, ReceiveTyped DEF Arrives, Types
<1>4. ASSUME NEW c \in Conn, Asks(c) PROVE Types'
  <2> DEFINE v == IF cmd[c] = sending THEN "AUTHORISED" ELSE "ATTEMPT_NOT_SENDING"
  <2>1. v \in RefusalCode \cup {"AUTHORISED"}
    BY DEF RefusalCode
  <2>2. Authorise(c, v)
    BY <1>4 DEF Asks
  <2> HIDE DEF v
  <2> QED
    BY <1>4, <2>1, <2>2, HandlerTyped DEF Asks, Types
<1>5. ASSUME NEW c \in Conn, Handles(c) PROVE Types'
  <2>0. "AUTHORISED" \in RefusalCode \cup {"AUTHORISED"}
    OBVIOUS
  <2>1. CASE CheckCarried(c) \/ Register(c)
    BY <1>5, <2>0, <2>1, HandlerTyped DEF Handles, Types
  <2>2. CASE Submit(c) \/ WriterGone(c)
    <3>1. cmd[c] \in PNum
      BY <2>2 DEF Knows, Submit, WriterGone
    <3> QED
      BY <1>5, <2>2, <3>1, SubmitTyped, WriterTyped DEF Handles, Types
  <2>3. CASE TakeAnswer(c) \/ GiveUp(c)
    BY <1>5, <2>3, WaitTyped DEF Handles, Types
  <2> QED
    BY <1>5, <2>1, <2>2, <2>3 DEF Handles
<1>6. ASSUME NEW c \in Conn, Writes(c) \/ Breaks(c) PROVE Types'
  <2>1. cmd[c] \in PNum
    BY <1>6 DEF Knows, Writes, Breaks, GuardRefuses, Write, WriteFails
  <2> QED
    BY <1>6, <2>1, WriterTyped DEF Writes, Breaks, Types
<1>7. ASSUME NEW n \in PNum, Answers(n) PROVE Types'
  BY <1>7, DeliverTyped, BaseConstants DEF Answers, Types
<1> QED
  BY <1>0, <1>1, <1>2, <1>3, <1>4, <1>5, <1>6, <1>7 DEF Next

-----------------------------------------------------------------------------
(* What each connection knows *)

\* A step of one connection's handler, or of the writer for it: it answers UNKNOWN or
\* NOT_TRANSMITTED, or goes on, and the others keep what they know.
LEMMA HandlerKeepsKnows ==
    ASSUME RelayInv, NEW c \in Conn, hs[c] # "idle",
           NEW h \in HandlerState \ {"idle"}, NEW r \in Response,
           hs' = [hs EXCEPT ![c] = h], resp' = [resp EXCEPT ![c] = r],
           UNCHANGED <<cmd, answer>>, pending' \in {pending, 0, c}, onWire \subseteq onWire',
           h = "written" => cmd[c] \in onWire',
           r.result = "ANSWERED" => cmd[c] \in onWire /\ r.pa.pn = cmd[c]
    PROVE  \A d \in Conn : Knows(d)'
<1> SUFFICES ASSUME NEW d \in Conn PROVE Knows(d)'
  OBVIOUS
<1>1. Knows(d) /\ hs \in [Conn -> HandlerState] /\ resp \in [Conn -> Response]
  BY DEF RelayInv, Types, RelayTypeOK
<1>2. CASE d = c
  BY <1>1, <1>2 DEF Knows
<1>3. CASE d # c
  BY <1>1, <1>3, RelayConstants DEF Knows
<1> QED
  BY <1>2, <1>3

\* A response without an answer does not disturb what connections know.
LEMMA RespondKeepsKnows ==
    ASSUME RelayInv, NEW c \in Conn, hs[c] # "idle", NEW r \in Response, Respond(c, r),
           UNCHANGED <<cmd, answer>>, pending' \in {pending, 0}, onWire \subseteq onWire',
           r.result = "ANSWERED" => cmd[c] \in onWire /\ r.pa.pn = cmd[c]
    PROVE  \A d \in Conn : Knows(d)'
BY HandlerKeepsKnows DEF Respond, HandlerState

\* A handler that goes on without answering.
LEMMA AdvanceKeepsKnows ==
    ASSUME RelayInv, NEW c \in Conn, hs[c] # "idle", NEW h \in HandlerState \ {"idle"},
           hs' = [hs EXCEPT ![c] = h],
           UNCHANGED <<cmd, answer, resp>>, pending' \in {pending, 0, c}, onWire \subseteq onWire',
           h = "written" => cmd[c] \in onWire'
    PROVE  \A d \in Conn : Knows(d)'
<1>1. resp[c] \in Response /\ resp' = [resp EXCEPT ![c] = resp[c]]
  BY DEF RelayInv, Types, RelayTypeOK
<1>2. resp[c].result = "ANSWERED" => cmd[c] \in onWire /\ resp[c].pa.pn = cmd[c]
  BY DEF RelayInv, Knows
<1> QED
  BY <1>1, <1>2, HandlerKeepsKnows

\* Steps of the link leave commands and answers alone.
LEMMA LinkKeepsKnows ==
    ASSUME RelayInv, UNCHANGED <<hs, cmd, answer, resp, onWire>>, pending' \in {pending, 0}
    PROVE  \A d \in Conn : Knows(d)'
BY RelayConstants DEF RelayInv, Knows

\* Every step keeps what the connections know.
LEMMA KnowsKept ==
    ASSUME RelayInv, [Next]_vars
    PROVE  \A d \in Conn : Knows(d)'
<1>0. CASE UNCHANGED vars
  BY <1>0, LinkKeepsKnows DEF vars, relayVars
<1>1. CASE Begins \/ Concludes
  BY <1>1, LinkKeepsKnows DEF Begins, Concludes, relayVars
<1>2. CASE LinkMoves
  BY <1>2, LinkKeepsKnows
     DEF LinkMoves, LinkUp, LinkDown, DetachEnds, WriterEnds, ResyncBegins, ResyncUnanswered,
         ResyncEnds, Observe
<1>3. ASSUME NEW c \in Conn, Arrives(c) PROVE \A d \in Conn : Knows(d)'
  <2>1. PICK n \in 1 .. allocated : Receive(c, n)
    BY <1>3 DEF Arrives
  <2>2. n \in PNum
    BY BaseConstants DEF PNum, RelayInv, Types
  <2> SUFFICES ASSUME NEW d \in Conn PROVE Knows(d)'
    OBVIOUS
  <2>3. Knows(d) /\ hs \in [Conn -> HandlerState] /\ cmd \in [Conn -> PNum \cup {0}]
    BY DEF RelayInv, Types, RelayTypeOK
  <2> QED
    BY <2>1, <2>2, <2>3 DEF Knows, Receive
<1>4. ASSUME NEW c \in Conn, Asks(c) PROVE \A d \in Conn : Knows(d)'
  <2>1. CASE cmd[c] = sending
    BY <1>4, <2>1, AdvanceKeepsKnows DEF Asks, Authorise, HandlerState
  <2>2. CASE cmd[c] # sending
    <3>1. notSent("ATTEMPT_NOT_SENDING") \in Response
      BY ResponsesTyped DEF RelayCode, RefusalCode
    <3> QED
      BY <1>4, <2>2, <3>1, RespondKeepsKnows DEF Asks, Authorise, notSent
  <2> QED
    BY <2>1, <2>2
<1>5. ASSUME NEW c \in Conn, Handles(c) PROVE \A d \in Conn : Knows(d)'
  <2>0. \A code \in RelayCode :
          /\ unknown(code) \in Response /\ unknown(code).result = "UNKNOWN"
          /\ notSent(code) \in Response /\ notSent(code).result = "NOT_TRANSMITTED"
    BY ResponsesTyped DEF unknown, notSent
  <2>1. CASE CheckCarried(c)
    <3>1. CASE cmd[c] \in carried
      BY <2>0, <2>1, <3>1, RespondKeepsKnows DEF CheckCarried, RelayCode
    <3>2. CASE cmd[c] \notin carried
      BY <2>1, <3>2, AdvanceKeepsKnows DEF CheckCarried, HandlerState
    <3> QED
      BY <3>1, <3>2
  <2>2. CASE Register(c)
    <3>1. CASE hs' = [hs EXCEPT ![c] = "registered"] /\ pending' = c /\ UNCHANGED resp
      BY <2>2, <3>1, AdvanceKeepsKnows DEF Register, HandlerState
    <3>2. ASSUME NEW code \in RelayCode, Respond(c, notSent(code)), UNCHANGED pending
          PROVE  \A d \in Conn : Knows(d)'
      BY <2>0, <2>2, <3>2, RespondKeepsKnows DEF Register
    <3> DEFINE refusal == CASE link \in {"DOWN", "DETACHING"} -> "LINK_NOT_CONNECTED"
                            [] link \in {"INITIAL", "RESYNC"} -> "LINK_RESYNCING"
                            [] link \in {"STEADY", "BROKEN"} -> IF pending # 0 THEN "LINK_BUSY" ELSE ""
    <3>3. refusal \in RelayCode
      BY DEF RelayInv, Types, RelayTypeOK, LinkState, RelayCode
    <3>4. \/ Respond(c, notSent(refusal)) /\ UNCHANGED pending
          \/ hs' = [hs EXCEPT ![c] = "registered"] /\ pending' = c /\ UNCHANGED resp
      BY <2>2 DEF Register
    <3> QED
      BY <3>1, <3>2, <3>3, <3>4
  <2>3. CASE Submit(c)
    <3>1. \/ Respond(c, unknown("DUPLICATE_COMMAND")) /\ Release(c)
          \/ hs' = [hs EXCEPT ![c] = "enqueued"] /\ UNCHANGED <<pending, resp>>
          \/ Respond(c, notSent("LINK_WRITER_UNAVAILABLE")) /\ Release(c)
      BY <2>3 DEF Submit
    <3>2. hs[c] # "idle" /\ UNCHANGED <<cmd, answer, onWire>>
      BY <2>3 DEF Submit
    <3>3. CASE Respond(c, unknown("DUPLICATE_COMMAND")) /\ Release(c)
      BY <2>0, <3>2, <3>3, RespondKeepsKnows DEF RelayCode, Release
    <3>4. CASE hs' = [hs EXCEPT ![c] = "enqueued"] /\ UNCHANGED <<pending, resp>>
      BY <3>2, <3>4, AdvanceKeepsKnows DEF HandlerState
    <3>5. CASE Respond(c, notSent("LINK_WRITER_UNAVAILABLE")) /\ Release(c)
      BY <2>0, <3>2, <3>5, RespondKeepsKnows DEF RelayCode, Release
    <3> QED
      BY <3>1, <3>3, <3>4, <3>5
  <2>4. CASE WriterGone(c)
    BY <2>0, <2>4, RespondKeepsKnows DEF WriterGone, RelayCode, Release
  <2>5. CASE TakeAnswer(c)
    <3>1. answer[c] \in PA /\ answered(answer[c]) \in Response
      BY ResponsesTyped DEF RelayInv, Types, RelayTypeOK
    <3>2. answer[c].pn = cmd[c] /\ cmd[c] \in onWire
      BY <2>5 DEF TakeAnswer, RelayInv, Knows
    <3>3. answered(answer[c]).pa = answer[c]
      BY DEF answered
    <3> QED
      BY <2>5, <3>1, <3>2, <3>3, RespondKeepsKnows DEF TakeAnswer
  <2>6. CASE GiveUp(c)
    <3> DEFINE code == IF c \in cut THEN "LINK_LOST_AFTER_WRITE" ELSE "ANSWER_TIMEOUT"
    <3>1. code \in RelayCode
      BY DEF RelayCode
    <3>2. hs[c] # "idle" /\ Respond(c, unknown(code)) /\ Release(c) /\ UNCHANGED <<cmd, answer, onWire>>
      BY <2>6 DEF GiveUp
    <3> HIDE DEF code
    <3> QED
      BY <2>0, <3>1, <3>2, RespondKeepsKnows DEF Release
  <2> QED
    BY <1>5, <2>1, <2>2, <2>3, <2>4, <2>5, <2>6 DEF Handles
<1>6. ASSUME NEW c \in Conn, Writes(c) \/ Breaks(c) PROVE \A d \in Conn : Knows(d)'
  <2>1. CASE GuardRefuses(c, Guest, HomeRoom)
    <3>1. GuardCode(c, Guest, HomeRoom) \in RelayCode
      BY DEF GuardCode, RelayCode
    <3>2. notSent(GuardCode(c, Guest, HomeRoom)) \in Response
          /\ notSent(GuardCode(c, Guest, HomeRoom)).result = "NOT_TRANSMITTED"
      BY <3>1, ResponsesTyped DEF notSent
    <3> QED
      BY <2>1, <3>2, RespondKeepsKnows DEF GuardRefuses, Release
  <2>2. CASE Write(c, Guest, HomeRoom)
    BY <2>2, AdvanceKeepsKnows DEF Write, HandlerState
  <2>3. CASE WriteFails(c, Guest, HomeRoom)
    <3>1. unknown("WRITE_INCOMPLETE") \in Response /\ unknown("WRITE_INCOMPLETE").result = "UNKNOWN"
      BY ResponsesTyped DEF RelayCode, unknown
    <3> QED
      BY <2>3, <3>1, RespondKeepsKnows DEF WriteFails, Release
  <2> QED
    BY <1>6, <2>1, <2>2, <2>3 DEF Writes, Breaks
<1>7. ASSUME NEW n \in PNum, Answers(n) PROVE \A d \in Conn : Knows(d)'
  <2> SUFFICES ASSUME NEW d \in Conn PROVE Knows(d)'
    OBVIOUS
  <2>1. Knows(d) /\ answer \in [Conn -> PA] /\ pending \in Conn \cup {0}
    BY DEF RelayInv, Types, RelayTypeOK
  <2>2. Knows(pending) \/ pending = 0
    BY <2>1 DEF RelayInv
  <2> QED
    BY <1>7, <2>1, <2>2, RelayConstants DEF Answers, DeliverPA, Knows
<1> QED
  BY <1>0, <1>1, <1>2, <1>3, <1>4, <1>5, <1>6, <1>7 DEF Next

-----------------------------------------------------------------------------
(* The carried set *)

\* While there is room in the carried set, marking a command evicts nothing.
LEMMA NothingEvicted ==
    ASSUME Types, Cardinality(carried) < MaxCarried, NEW k \in 0 .. Len(carriedOrder), Evicts(k)
    PROVE  Remaining(k) = carried
<1>1. Remaining(0) = carried
  BY DEF Remaining
<1>2. ~(Cardinality(carried) >= MaxCarried)
  <2>1. carried \in SUBSET PNum /\ IsFiniteSet(PNum)
    BY FS_Interval, BaseConstants DEF Types, RelayTypeOK, PNum
  <2>2. Cardinality(carried) \in Nat
    BY <2>1, FS_Subset, FS_CardinalityType
  <2> QED
    BY <2>2, RelayConstants
<1>3. k = 0
  <2>1. k \in Nat
    BY LenProperties DEF Types, RelayTypeOK
  <2>2. ~(0 \in 0 .. k - 1)
    BY <1>1, <1>2 DEF Evicts
  <2> QED
    BY <2>1, <2>2
<1> QED
  BY <1>1, <1>3

\* A handler that neither starts nor stops waiting at the writer, and no P# is forgotten.
LEMMA OthersStayAlone ==
    ASSUME RelayInv, CarriedOnce, NEW c \in Conn, NEW h \in HandlerState \ {"enqueued", "written"},
           hs' = [hs EXCEPT ![c] = h], UNCHANGED <<cmd, onWire>>, carried \subseteq carried'
    PROVE  CarriedOnce'
BY DEF RelayInv, Types, RelayTypeOK, CarriedOnce, Alone

\* A command that waited at the writer is written, or its write failed.
LEMMA WrittenIsRemembered ==
    ASSUME RelayInv, CarriedOnce, NEW c \in Conn, hs[c] = "enqueued", NEW h \in {"written", "done"},
           hs' = [hs EXCEPT ![c] = h], onWire' = onWire \cup {cmd[c]}, UNCHANGED <<cmd, carried>>
    PROVE  CarriedOnce'
BY DEF RelayInv, Types, RelayTypeOK, CarriedOnce, Alone

\* Every step keeps what was written remembered, and each P# at the writer alone.
LEMMA CarriedOnceKept ==
    ASSUME RelayInv, NoEvictionDue, CarriedOnce, [Next]_vars
    PROVE  CarriedOnce'
<1>0. CASE UNCHANGED vars \/ Begins \/ Concludes \/ LinkMoves \/ \E n \in PNum : Answers(n)
  <2>1. UNCHANGED <<hs, cmd, carried, onWire>>
    BY <1>0 DEF vars, relayVars, Begins, Concludes, LinkMoves, Answers, DeliverPA, LinkUp, LinkDown,
       DetachEnds, WriterEnds, ResyncBegins, ResyncUnanswered, ResyncEnds, Observe
  <2> QED
    BY <2>1 DEF CarriedOnce, Alone
<1>1. ASSUME NEW c \in Conn, Arrives(c) PROVE CarriedOnce'
  BY <1>1 DEF Arrives, Receive, RelayInv, Types, RelayTypeOK, CarriedOnce, Alone
<1>2. ASSUME NEW c \in Conn, Asks(c) PROVE CarriedOnce'
  BY <1>2, OthersStayAlone DEF Asks, Authorise, Respond, HandlerState
<1>3. ASSUME NEW c \in Conn, Handles(c) PROVE CarriedOnce'
  <2>1. CASE CheckCarried(c) \/ Register(c)
    BY <2>1, OthersStayAlone DEF CheckCarried, Register, Respond, HandlerState
  <2>2. CASE WriterGone(c) \/ TakeAnswer(c) \/ GiveUp(c)
    BY <2>2, OthersStayAlone DEF WriterGone, TakeAnswer, GiveUp, Respond, HandlerState
  <2>3. CASE Submit(c)
    <3>1. CASE cmd[c] \in carried
      BY <2>3, <3>1, OthersStayAlone DEF Submit, Respond, HandlerState
    <3>2. CASE cmd[c] \notin carried
      <4>1. PICK k \in 0 .. Len(carriedOrder) :
              /\ Evicts(k)
              /\ \/ hs' = [hs EXCEPT ![c] = "enqueued"] /\ carried' = Remaining(k) \cup {cmd[c]}
                 \/ hs' = [hs EXCEPT ![c] = "done"] /\ carried' = Remaining(k)
        BY <2>3, <3>2 DEF Submit, Respond
      <4>2. Remaining(k) = carried
        BY <2>3, <3>2, <4>1, NothingEvicted DEF Submit, NoEvictionDue, RelayInv
      <4>3. UNCHANGED <<cmd, onWire>>
        BY <2>3 DEF Submit
      <4>4. CASE hs' = [hs EXCEPT ![c] = "enqueued"] /\ carried' = carried \cup {cmd[c]}
        <5>1. \A d \in Conn : hs[d] = "written" => cmd[d] \in onWire
          BY DEF RelayInv, Knows
        <5> QED
          BY <3>2, <4>3, <4>4, <5>1 DEF RelayInv, Types, RelayTypeOK, CarriedOnce, Alone
      <4>5. CASE hs' = [hs EXCEPT ![c] = "done"] /\ carried' = carried
        BY <4>3, <4>5, OthersStayAlone DEF HandlerState
      <4> QED
        BY <4>1, <4>2, <4>4, <4>5
    <3> QED
      BY <3>1, <3>2
  <2> QED
    BY <1>3, <2>1, <2>2, <2>3 DEF Handles
<1>4. ASSUME NEW c \in Conn, Writes(c) \/ Breaks(c) PROVE CarriedOnce'
  <2>1. CASE GuardRefuses(c, Guest, HomeRoom)
    BY <2>1 DEF GuardRefuses, Respond, Forget, RelayInv, Types, RelayTypeOK, CarriedOnce, Alone
  <2>2. CASE Write(c, Guest, HomeRoom) \/ WriteFails(c, Guest, HomeRoom)
    BY <2>2, WrittenIsRemembered DEF Write, WriteFails, Respond
  <2> QED
    BY <1>4, <2>1, <2>2 DEF Writes, Breaks
<1> QED
  BY <1>0, <1>1, <1>2, <1>3, <1>4 DEF Next

-----------------------------------------------------------------------------
(* The theorems *)

\* A relay that has just started satisfies the invariant.
LEMMA InitRelay == Init => RelayInv /\ CarriedOnce
<1> SUFFICES ASSUME Init PROVE RelayInv /\ CarriedOnce
  OBVIOUS
<1>1. carriedOrder \in Seq(PNum)
  BY DEF Init, RelayInit
<1>2. Types
  BY <1>1, BaseConstants, ResponsesTyped DEF Init, RelayInit, Types, RelayTypeOK, LinkState, HandlerState
<1> QED
  BY <1>2, RelayConstants DEF Init, RelayInit, RelayInv, Knows, CarriedOnce, Alone, NoResponse

\* With as many places in the carried set as there are P#s, marking never evicts.
LEMMA RoomForAll ==
    ASSUME RelayInv, MaxAttempt <= MaxCarried
    PROVE  NoEvictionDue
<1> SUFFICES ASSUME NEW c \in Conn, hs[c] = "registered", cmd[c] \notin carried
             PROVE  Cardinality(carried) < MaxCarried
  BY DEF NoEvictionDue
<1>1. cmd[c] \in PNum /\ carried \subseteq PNum \ {cmd[c]}
  BY DEF RelayInv, Types, RelayTypeOK, Knows
<1>2. IsFiniteSet(PNum) /\ Cardinality(PNum) = MaxAttempt
  BY FS_Interval, BaseConstants DEF PNum
<1>3. IsFiniteSet(PNum \ {cmd[c]}) /\ Cardinality(PNum \ {cmd[c]}) = MaxAttempt - 1
  BY <1>1, <1>2, FS_RemoveElement
<1>4. Cardinality(carried) <= MaxAttempt - 1 /\ Cardinality(carried) \in Nat
  BY <1>1, <1>3, FS_Subset, FS_CardinalityType
<1> QED
  BY <1>4, BaseConstants, RelayConstants

\* Types, and what each connection knows of its command, hold in every reachable state.
THEOREM RelayInvariance == Spec => []RelayInv
<1>1. RelayInv /\ [Next]_vars => RelayInv'
  BY TypesKept, KnowsKept DEF RelayInv
<1> QED
  BY InitRelay, <1>1, PTL DEF Spec

\* onPA and Handle: a connection is told ANSWERED only with the PMS's answer to its own
\* P#, which was written; for every number of connections and commands, whatever they
\* repeat, however late the PMS answers and wherever the link's cycle is.
THEOREM AnswersAreOwn == Spec => []AnswerIsItsOwn
<1>1. RelayInv => AnswerIsItsOwn
  BY DEF RelayInv, Knows, AnswerIsItsOwn
<1> QED
  BY <1>1, RelayInvariance, PTL

\* wasCarried, markCarried and forget: as long as the carried set evicts nothing, a P# is
\* handed to the writer only if it was never written and is not there already.
THEOREM WrittenOnceInMemory == Spec /\ []NoEvictionDue => []WrittenOnce
<1>1. RelayInv /\ CarriedOnce /\ NoEvictionDue /\ [Next]_vars => CarriedOnce'
  BY CarriedOnceKept
<1>2. CarriedOnce => WrittenOnce
  BY DEF CarriedOnce, Alone, WrittenOnce
<1> QED
  BY InitRelay, <1>1, <1>2, RelayInvariance, PTL DEF Spec

\* The same without a hypothesis on the run: a carried set with a place for every P# never
\* evicts, so every P# is written at most once.
THEOREM EveryCommandWrittenOnce == MaxAttempt <= MaxCarried => (Spec => []WrittenOnce)
<1> SUFFICES ASSUME MaxAttempt <= MaxCarried PROVE Spec => []WrittenOnce
  OBVIOUS
<1>1. RelayInv => NoEvictionDue
  BY RoomForAll
<1> QED
  BY <1>1, RelayInvariance, WrittenOnceInMemory, PTL

-----------------------------------------------------------------------------
(* No handler is stuck.  ENABLED is out of the provers' reach: the theorem states the guards of the steps instead, *)
(* which is all that can refuse them (every primed variable is assigned once the guard holds).                     *)

\* The guards of CheckCarried, Asks, Register and GiveUp; of Submit; of WriterGone, GuardRefuses and Write.
StepOffered(c) ==
    \/ hs[c] \in {"received", "checked", "authorised", "written"}
    \/ hs[c] = "registered" /\ (cmd[c] \in carried \/ \E k \in 0 .. Len(carriedOrder) : Evicts(k))
    \/ /\ hs[c] = "enqueued"
       /\ \/ Orphaned(c)
          \/ (c \in cut \/ link # "BROKEN") /\ GuardCode(c, Guest, HomeRoom) # ""
          \/ GuardCode(c, Guest, HomeRoom) = ""

HandlerHasStep == \A c \in Conn : hs[c] \notin {"idle", "done"} => StepOffered(c)

\* markCarried's eviction loop ends: there is a fewest number of oldest entries to drop.
LEMMA EvictionEnds ==
    ASSUME RelayTypeOK
    PROVE  \E k \in 0 .. Len(carriedOrder) : Evicts(k)
<1> DEFINE R == OpToRel(<, Nat)
           n == Len(carriedOrder)
           T == {k \in 0 .. n : k = n \/ Cardinality(Remaining(k)) < MaxCarried}
<1>1. n \in Nat
  BY LenProperties DEF RelayTypeOK
<1>2. T \subseteq Nat /\ n \in T
  BY <1>1
<1>3. IsWellFoundedOn(R, Nat)
  BY NatLessThanWellFounded, Zenon
<1> HIDE DEF R
<1>4. PICK k \in T : \A j \in T : <<j, k>> \notin R
  BY <1>2, <1>3, WFMin
<1>5. \A j \in T : ~(j < k)
  BY <1>2, <1>4 DEF R, OpToRel
<1>6. k \in 0 .. n /\ (k = n \/ Cardinality(Remaining(k)) < MaxCarried)
  OBVIOUS
<1>7. ASSUME NEW j \in 0 .. k - 1
      PROVE  Cardinality(Remaining(j)) >= MaxCarried
  <2>1. j \in 0 .. n /\ j < k
    BY <1>1, <1>6
  <2>2. ~(Cardinality(Remaining(j)) < MaxCarried)
    BY <1>5, <2>1
  <2>3. Cardinality(Remaining(j)) \in Nat
    <3>1. Remaining(j) \subseteq PNum
      BY DEF Remaining, RelayTypeOK
    <3>2. IsFiniteSet(PNum)
      BY FS_Interval, BaseConstants DEF PNum
    <3> QED
      BY <3>1, <3>2, FS_Subset, FS_CardinalityType
  <2> QED
    BY <2>2, <2>3, RelayConstants
<1> QED
  BY <1>6, <1>7 DEF Evicts

\* Handle, the writer and its guard: a connection that has not been answered always has a step to take, for every
\* number of connections, wherever the link's cycle is, whether its writer ended and however full the carried set.
THEOREM HandlersNeverStuck == Spec => []HandlerHasStep
<1>1. RelayInv => HandlerHasStep
  <2> SUFFICES ASSUME RelayInv, NEW c \in Conn, hs[c] \notin {"idle", "done"} PROVE StepOffered(c)
    BY DEF HandlerHasStep
  <2>1. RelayTypeOK
    BY DEF RelayInv, Types
  <2>2. hs[c] \in {"received", "checked", "authorised", "registered", "enqueued", "written"}
    BY <2>1 DEF RelayTypeOK, HandlerState
  <2>3. CASE hs[c] = "registered"
    BY <2>1, <2>3, EvictionEnds DEF StepOffered
  <2>4. CASE hs[c] = "enqueued"
    BY <2>4 DEF StepOffered, Orphaned
  <2> QED
    BY <2>2, <2>3, <2>4 DEF StepOffered
<1> QED
  BY <1>1, RelayInvariance, PTL

-----------------------------------------------------------------------------
(* The pending slot is never left taken. *)

\* A connection that was given its answer does not hold the slot, and it once had it.
AnsweredHasLeft ==
    \A c \in Conn : answer[c] # NoPA =>
        pending # c /\ hs[c] \in {"registered", "enqueued", "written", "done"}

SlotInv == SlotIsHeld /\ AnsweredHasLeft

\* A step of one connection's handler, or of the writer for it.
LEMMA HandlerKeepsSlot ==
    ASSUME RelayInv, SlotInv, NEW c \in Conn, Asks(c) \/ Handles(c) \/ Writes(c) \/ Breaks(c)
    PROVE  SlotInv'
<1>1. hs \in [Conn -> HandlerState] /\ pending \in Conn \cup {0} /\ answer' = answer
  BY DEF RelayInv, Types, RelayTypeOK, Asks, Handles, Writes, Breaks, Authorise, CheckCarried, Register, Submit,
         WriterGone, TakeAnswer, GiveUp, GuardRefuses, Write, WriteFails
<1>2. CASE Asks(c) \/ CheckCarried(c)
  BY <1>1, <1>2 DEF SlotInv, SlotIsHeld, AnsweredHasLeft, Asks, Authorise, CheckCarried, Respond
<1>3. CASE Register(c)
  BY <1>1, <1>3 DEF SlotInv, SlotIsHeld, AnsweredHasLeft, Register, Respond
<1>4. CASE Submit(c)
  BY <1>1, <1>4, RelayConstants DEF SlotInv, SlotIsHeld, AnsweredHasLeft, Submit, Respond, Release
<1>5. CASE WriterGone(c) \/ GiveUp(c) \/ TakeAnswer(c)
  BY <1>1, <1>5, RelayConstants DEF SlotInv, SlotIsHeld, AnsweredHasLeft, WriterGone, GiveUp, TakeAnswer, Respond, Release
<1>6. CASE Writes(c) \/ Breaks(c)
  BY <1>1, <1>6, RelayConstants
     DEF SlotInv, SlotIsHeld, AnsweredHasLeft, Writes, Breaks, GuardRefuses, Write, WriteFails, Respond, Release
<1> QED
  BY <1>2, <1>3, <1>4, <1>5, <1>6 DEF Handles

\* The link, the PMS, the ledger and a new connection.
LEMMA OthersKeepSlot ==
    ASSUME RelayInv, SlotInv,
           Begins \/ Concludes \/ LinkMoves \/ (\E c \in Conn : Arrives(c)) \/ (\E n \in PNum : Answers(n))
    PROVE  SlotInv'
<1>1. hs \in [Conn -> HandlerState] /\ pending \in Conn \cup {0} /\ answer \in [Conn -> PA]
  BY DEF RelayInv, Types, RelayTypeOK
<1>2. CASE Begins \/ Concludes
  BY <1>2 DEF SlotInv, SlotIsHeld, AnsweredHasLeft, Begins, Concludes, relayVars
<1>3. CASE LinkMoves
  <2>1. pending' \in {pending, 0} /\ UNCHANGED <<hs, answer>>
    BY <1>3 DEF LinkMoves, LinkUp, LinkDown, DetachEnds, WriterEnds, ResyncBegins, ResyncUnanswered, ResyncEnds, Observe
  <2> QED
    BY <1>1, <2>1, RelayConstants DEF SlotInv, SlotIsHeld, AnsweredHasLeft
<1>4. ASSUME NEW c \in Conn, Arrives(c) PROVE SlotInv'
  BY <1>1, <1>4 DEF SlotInv, SlotIsHeld, AnsweredHasLeft, Arrives, Receive
<1>5. ASSUME NEW n \in PNum, Answers(n) PROVE SlotInv'
  BY <1>1, <1>5, RelayConstants DEF SlotInv, SlotIsHeld, AnsweredHasLeft, Answers, DeliverPA
<1> QED
  BY <1>2, <1>3, <1>4, <1>5

\* Handle and its release(): on no way out does a handler leave the slot taken, for any number of connections and
\* repeated P#s and wherever the link's cycle is; the slot's owner is always a handler that has yet to answer.
THEOREM SlotNeverLeaks == Spec => []SlotIsHeld
<1>1. Init => SlotInv
  BY DEF Init, RelayInit, SlotInv, SlotIsHeld, AnsweredHasLeft
<1>2. RelayInv /\ SlotInv /\ [Next]_vars => SlotInv'
  <2> SUFFICES ASSUME RelayInv, SlotInv, [Next]_vars PROVE SlotInv'
    OBVIOUS
  <2>1. CASE UNCHANGED vars
    BY <2>1 DEF vars, relayVars, SlotInv, SlotIsHeld, AnsweredHasLeft
  <2> QED
    BY <2>1, HandlerKeepsSlot, OthersKeepSlot DEF Next
<1>3. SlotInv => SlotIsHeld
  BY DEF SlotInv
<1> QED
  BY <1>1, <1>2, <1>3, RelayInvariance, PTL DEF Spec

=============================================================================
