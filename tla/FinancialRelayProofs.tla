------------------------ MODULE FinancialRelayProofs ------------------------
(***************************************************************************)
(* The steps of the relay, its writer and its link keep the relay's types, *)
(* whoever the clients of the socket are and whatever the PMS answers:     *)
(* lemmas for RoomChargeProofs and RelayAloneProofs.                       *)
(***************************************************************************)
EXTENDS FinancialRelay, TLAPS, SequenceTheorems

\* The three responses of Handle are responses of the hand-off protocol.
LEMMA ResponsesTyped ==
    /\ NoPA \in PA /\ NoResponse \in Response
    /\ \A code \in RelayCode : notSent(code) \in Response /\ unknown(code) \in Response
    /\ \A record \in PA : answered(record) \in Response
BY DEF NoPA, PA, NoResponse, Response, Result, RelayCode, notSent, unknown, answered

\* Writing a response back keeps the types of handlers and responses.
LEMMA RespondTyped ==
    ASSUME RelayTypeOK, NEW c \in Conn, NEW r \in Response, Respond(c, r)
    PROVE  /\ hs' \in [Conn -> HandlerState]
           /\ resp' \in [Conn -> Response]
BY DEF RelayTypeOK, Respond, HandlerState

\* Reading a request keeps the relay's types.
LEMMA ReceiveTyped ==
    ASSUME RelayTypeOK, NEW c \in Conn, NEW n \in PNum, Receive(c, n)
    PROVE  RelayTypeOK'
BY DEF RelayTypeOK, Receive, HandlerState, linkVars

\* Handle's checks up to the pending slot keep the relay's types.
LEMMA HandlerTyped ==
    ASSUME RelayTypeOK, NEW c \in Conn, NEW v \in RefusalCode \cup {"AUTHORISED"},
           CheckCarried(c) \/ Authorise(c, v) \/ Register(c)
    PROVE  RelayTypeOK'
<1>1. CASE CheckCarried(c)
  <2>1. hs' \in [Conn -> HandlerState] /\ resp' \in [Conn -> Response]
    BY <1>1, ResponsesTyped, RespondTyped DEF CheckCarried, RelayTypeOK, HandlerState, RelayCode
  <2> QED
    BY <1>1, <2>1 DEF RelayTypeOK, CheckCarried, linkVars
<1>2. CASE Authorise(c, v)
  <2>1. hs' \in [Conn -> HandlerState] /\ resp' \in [Conn -> Response]
    BY <1>2, ResponsesTyped, RespondTyped DEF Authorise, RelayTypeOK, HandlerState, RelayCode
  <2> QED
    BY <1>2, <2>1 DEF RelayTypeOK, Authorise, linkVars
<1>3. CASE Register(c)
  <2> DEFINE refusal == CASE link \in {"DOWN", "DETACHING"} -> "LINK_NOT_CONNECTED"
                          [] link \in {"INITIAL", "RESYNC"} -> "LINK_RESYNCING"
                          [] link \in {"STEADY", "BROKEN"} -> IF pending # 0 THEN "LINK_BUSY" ELSE ""
  <2>0. refusal \in RelayCode
    BY DEF RelayTypeOK, LinkState, RelayCode
  <2>1. CASE refusal # ""
    <3>1. Respond(c, notSent(refusal)) /\ UNCHANGED pending
      BY <1>3, <2>1 DEF Register
    <3>2. hs' \in [Conn -> HandlerState] /\ resp' \in [Conn -> Response]
      BY <3>1, <2>0, ResponsesTyped, RespondTyped
    <3> QED
      BY <1>3, <3>1, <3>2 DEF RelayTypeOK, Register, linkVars
  <2>2. CASE refusal = ""
    BY <1>3, <2>2 DEF RelayTypeOK, Register, linkVars, HandlerState
  <2> QED
    BY <2>1, <2>2
<1> QED
  BY <1>1, <1>2, <1>3

\* markCarried with its eviction, and the hand-over, keep the relay's types.
LEMMA SubmitTyped ==
    ASSUME RelayTypeOK, NEW c \in Conn, cmd[c] \in PNum, Submit(c)
    PROVE  RelayTypeOK'
<1>1. hs' \in [Conn -> HandlerState] /\ resp' \in [Conn -> Response]
  BY ResponsesTyped, RespondTyped DEF Submit, RelayTypeOK, HandlerState, RelayCode
<1>2. pending' \in Conn \cup {0}
  BY DEF Submit, Release, RelayTypeOK
<1>3. carried' \in SUBSET PNum
  BY DEF Submit, Remaining, RelayTypeOK
<1>4. carriedOrder' \in Seq(PNum)
  <2>1. CASE cmd[c] \in carried
    BY <2>1 DEF Submit, RelayTypeOK
  <2>2. CASE cmd[c] \notin carried
    <3>1. PICK k \in 0 .. Len(carriedOrder) :
            carriedOrder' = Append(SubSeq(carriedOrder, k + 1, Len(carriedOrder)), cmd[c])
      BY <2>2 DEF Submit
    <3>2. carriedOrder \in Seq(PNum) /\ Len(carriedOrder) \in Nat
      BY LenProperties DEF RelayTypeOK
    <3>3. SubSeq(carriedOrder, k + 1, Len(carriedOrder)) \in Seq(PNum)
      BY <3>2
    <3> QED
      BY <3>1, <3>3, AppendProperties
  <2> QED
    BY <2>1, <2>2
<1> QED
  BY <1>1, <1>2, <1>3, <1>4 DEF RelayTypeOK, Submit, linkVars

\* The writer's guard, write and failures keep the relay's types.
LEMMA WriterTyped ==
    ASSUME RelayTypeOK, NEW c \in Conn, NEW g, NEW rn, cmd[c] \in PNum,
           GuardRefuses(c, g, rn) \/ Write(c, g, rn) \/ WriteFails(c, g, rn) \/ WriterGone(c)
    PROVE  RelayTypeOK'
<1>1. CASE GuardRefuses(c, g, rn)
  <2>1. GuardCode(c, g, rn) \in RelayCode
    BY DEF GuardCode, RelayCode
  <2>2. hs' \in [Conn -> HandlerState] /\ resp' \in [Conn -> Response]
    BY <1>1, <2>1, ResponsesTyped, RespondTyped DEF GuardRefuses
  <2> QED
    BY <1>1, <2>2 DEF RelayTypeOK, GuardRefuses, Forget, Release, linkVars
<1>2. CASE Write(c, g, rn)
  BY <1>2 DEF RelayTypeOK, Write, HandlerState, linkVars
<1>3. CASE WriteFails(c, g, rn)
  <2>1. hs' \in [Conn -> HandlerState] /\ resp' \in [Conn -> Response]
    BY <1>3, ResponsesTyped, RespondTyped DEF WriteFails, RelayCode
  <2> QED
    BY <1>3, <2>1 DEF RelayTypeOK, WriteFails, Release, LinkState
<1>4. CASE WriterGone(c)
  <2>1. hs' \in [Conn -> HandlerState] /\ resp' \in [Conn -> Response]
    BY <1>4, ResponsesTyped, RespondTyped DEF WriterGone, RelayCode
  <2> QED
    BY <1>4, <2>1 DEF RelayTypeOK, WriterGone, Release, linkVars
<1> QED
  BY <1>1, <1>2, <1>3, <1>4

\* The end of Handle's wait keeps the relay's types.
LEMMA WaitTyped ==
    ASSUME RelayTypeOK, NEW c \in Conn, TakeAnswer(c) \/ GiveUp(c)
    PROVE  RelayTypeOK'
<1>1. CASE TakeAnswer(c)
  <2>1. answer[c] \in PA
    BY <1>1 DEF TakeAnswer, RelayTypeOK
  <2>2. hs' \in [Conn -> HandlerState] /\ resp' \in [Conn -> Response]
    BY <1>1, <2>1, ResponsesTyped, RespondTyped DEF TakeAnswer
  <2> QED
    BY <1>1, <2>2 DEF RelayTypeOK, TakeAnswer, linkVars
<1>2. CASE GiveUp(c)
  <2>1. hs' \in [Conn -> HandlerState] /\ resp' \in [Conn -> Response]
    BY <1>2, ResponsesTyped, RespondTyped DEF GiveUp, RelayCode
  <2> QED
    BY <1>2, <2>1 DEF RelayTypeOK, GiveUp, Release, linkVars
<1> QED
  BY <1>1, <1>2

\* onPA keeps the relay's types.
LEMMA DeliverTyped ==
    ASSUME RelayTypeOK, NEW n \in PNum, NEW as \in AnswerCode, DeliverPA(n, as)
    PROVE  RelayTypeOK'
<1>1. [pn |-> n, as |-> as] \in PA
  BY DEF PA
<1> QED
  BY <1>1 DEF RelayTypeOK, DeliverPA, linkVars

\* The link's own steps.
LinkAction ==
    \/ LinkUp \/ LinkDown \/ DetachEnds \/ WriterEnds \/ ResyncBegins \/ ResyncUnanswered
    \/ RelayStops
    \/ \E g \in Stay : \E place \in Room \cup {Away} : Observe(g, place)

\* The link's ownership cycle keeps the relay's types.
LEMMA LinkTyped ==
    ASSUME RelayTypeOK, LinkAction
    PROVE  RelayTypeOK'
<1>1. CASE LinkUp \/ WriterEnds \/ ResyncBegins \/ ResyncUnanswered
  BY <1>1 DEF RelayTypeOK, LinkUp, WriterEnds, ResyncBegins, ResyncUnanswered, LinkState
<1>2. CASE LinkDown \/ DetachEnds
  BY <1>2 DEF RelayTypeOK, LinkDown, DetachEnds, Severed, LinkState
<1>3. CASE RelayStops
  <2>1. carriedOrder' \in Seq(PNum)
    BY <1>3 DEF RelayStops
  <2>2. hs' \in [Conn -> HandlerState] /\ resp' \in [Conn -> Response]
    BY <1>3, ResponsesTyped DEF RelayStops, RelayTypeOK, HandlerState
  <2> QED
    BY <1>3, <2>1, <2>2, ResponsesTyped DEF RelayTypeOK, RelayStops, LinkState
<1>4. ASSUME NEW g \in Stay, NEW place \in Room \cup {Away}, Observe(g, place)
      PROVE  RelayTypeOK'
  BY <1>4 DEF RelayTypeOK, Observe
<1> QED
  BY <1>1, <1>2, <1>3, <1>4 DEF LinkAction

\* A resync sweep and a guest record keep the relay's types.
LEMMA SweepTyped ==
    ASSUME RelayTypeOK, NEW D \in SUBSET Stay, NEW f \in [D -> Room \cup {Away}], ResyncEnds(f)
    PROVE  RelayTypeOK'
BY DEF RelayTypeOK, ResyncEnds, LinkState

=============================================================================
