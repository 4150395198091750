--------------------------- MODULE RhpClientProofs ---------------------------
(***************************************************************************)
(* Proofs about RhpClient, with and without authentication and for any     *)
(* number of sends and of pushes: the type invariant, that requests get    *)
(* their own answers, that the end of the transport settles everything,    *)
(* that bytes reach the link without a gap, and that RhpClient implements  *)
(* the transport seam RhpLink.                                             *)
(***************************************************************************)
EXTENDS RhpClient, TLAPS

\* The frames on the way to the client, in whatever order.
OnWire == {wire[k] : k \in 1..Len(wire)}

\* A frame read leaves the wire, a frame written joins it.
LEMMA WireRead ==
  ASSUME TypeOK, wire # <<>>, wire' = Tail(wire)
  PROVE  /\ wire' \in Seq(Frames) /\ OnWire' \subseteq OnWire
         /\ Head(wire) \in OnWire /\ Head(wire) \in Frames
  BY DEF TypeOK, OnWire

LEMMA WireWritten ==
  ASSUME TypeOK, NEW f \in Frames, wire' = Append(wire, f)
  PROVE  wire' \in Seq(Frames) /\ OnWire' \subseteq OnWire \cup {f}
  BY DEF TypeOK, OnWire

LEMMA WireEmpty ==
  ASSUME wire' = <<>>
  PROVE  wire' \in Seq(Frames) /\ OnWire' = {}
  BY DEF OnWire

LEMMA WireTyped == TypeOK => OnWire \subseteq Frames
  BY DEF TypeOK, OnWire

LEMMA AppendType ==
  ASSUME NEW S, NEW s \in Seq(S), NEW e \in S
  PROVE  Append(s, e) \in Seq(S)
  OBVIOUS

\* What the frames carry.
LEMMA FrameFields ==
  ASSUME NEW f \in Frames
  PROVE  /\ f.type = "reply" => f.id \in Ids
         /\ f.type = "recv" => f.n \in 1..MaxRecv
  BY DEF Frames

LEMMA WireIds ==
  ASSUME TypeOK
  PROVE  \A f \in OnWire : f.type = "reply" => f.id \in Ids
  BY WireTyped, FrameFields

LEMMA FramesMade ==
  /\ \A id \in Ids : [type |-> "reply", id |-> id] \in Frames
  /\ \A n \in 1..MaxRecv : [type |-> "recv", n |-> n] \in Frames
  /\ [type |-> "close"] \in Frames /\ [type |-> "fin"] \in Frames
  BY DEF Frames

(***************************************************************************)
(* None of the invariants is inductive.  IInv adds how the ids are handed  *)
(* out, where a request can be that has not settled, and what a stage of   *)
(* open() and the end of the transport say of each other.                  *)
(***************************************************************************)

\* Ids are handed out one by one, to open()'s requests first.
Numbered ==
  /\ nextId >= 1
  /\ stage = "dialling" => nextId = 1
  /\ stage = "authing" => Auth /\ nextId = 2
  /\ stage = "opening" => nextId = Opening + 1
  /\ stage = "linked" => nextId > Opening

\* An id not handed out yet is nobody's.
Unused ==
  /\ \A i \in Ids : i >= nextId => i \notin pending /\ i \notin asked /\ outcome[i] = "none"
  /\ \A f \in OnWire : f.type = "reply" => f.id < nextId

\* The host answers once: what it may still answer has not been told an answer, and
\* an answer on its way is the one it gave.
AnsweredOnce ==
  /\ \A i \in asked : outcome[i] \notin {"ok", "err"}
  /\ \A f \in OnWire : f.type = "reply" => f.id \notin asked /\ answered[f.id] # "none"

\* The connection is closed exactly when its socket is dead; open() then waits for
\* nothing any more, and before that for a pending request or its own continuation.
Transport ==
  /\ stage = "dialling" => sock = "none"
  /\ stage = "failed" => sock \in {"none", "dead"}
  /\ closed <=> sock = "dead"
  /\ closed => pending = {} /\ ~listening
  /\ stage \in {"authing", "opening"} =>
       IF closed THEN outcome[Awaited] = "ended"
       ELSE outcome[Awaited] = "none" => Awaited \in pending

\* A link listens until its close was announced; before there is a link nobody does.
Announced ==
  IF stage = "linked" THEN closes = IF listening THEN 0 ELSE 1
                      ELSE ~listening /\ closes = 0

IInv == TypeOK /\ Numbered /\ Unused /\ AnsweredOnce /\ Transport /\ Announced /\ RepliesMatch

-----------------------------------------------------------------------------
(* Types.                                                                  *)

LEMMA OpeningIsId == Opening \in Ids /\ Opening \in {1, 2} /\ 1 \in Ids /\ Opening >= 1
  <1>1. Opening \in {1, 2}
    BY AuthAssumption DEF Opening
  <1> QED BY <1>1, MaxSendsAssumption DEF Ids

Outcomes == {"none", "ok", "err", "timeout", "ended", "tooLong"}

\* #request() and the end of the transport keep the types of what they set.
LEMMA RequestType ==
  ASSUME TypeOK, Request, nextId \in Ids
  PROVE  nextId' \in Nat /\ outcome' \in [Ids -> Outcomes] /\ pending' \subseteq Ids
         /\ asked' \subseteq Ids
  <1>1. nextId' \in Nat
    BY DEF TypeOK, Request
  <1>2. outcome' \in [Ids -> Outcomes]
    BY DEF TypeOK, Request, Outcomes
  <1>3. pending' \subseteq Ids
    BY DEF TypeOK, Request
  <1>4. asked' \subseteq Ids
    BY DEF TypeOK, Request
  <1> QED BY <1>1, <1>2, <1>3, <1>4

LEMMA EndType ==
  ASSUME TypeOK, Announced, TransportEnd
  PROVE  /\ closed' \in BOOLEAN /\ listening' \in BOOLEAN /\ sock' = "dead" /\ closes' \in 0..1
         /\ wire' \in Seq(Frames) /\ outcome' \in [Ids -> Outcomes]
         /\ pending' \subseteq Ids /\ asked' \subseteq Ids
  <1>1. closed' \in BOOLEAN /\ listening' \in BOOLEAN
    BY DEF TransportEnd
  <1>2. closes' \in 0..1
    BY DEF TransportEnd, TypeOK, Announced
  <1>3. outcome' \in [Ids -> Outcomes]
    BY DEF TransportEnd, TypeOK, Outcomes
  <1> QED BY <1>1, <1>2, <1>3, WireEmpty DEF TransportEnd

LEMMA InitType == Init => TypeOK
  <1> SUFFICES ASSUME Init PROVE TypeOK
    OBVIOUS
  <1>1. closed \in BOOLEAN /\ listening \in BOOLEAN /\ localClosed \in BOOLEAN
    BY DEF Init
  <1>2. pushed \in 0..MaxRecv /\ closes \in 0..1
    BY MaxRecvAssumption DEF Init
  <1>3. got \in Seq(1..MaxRecv) /\ wire \in Seq(Frames)
    BY DEF Init
  <1> QED BY <1>1, <1>2, <1>3 DEF Init, TypeOK

\* Every step keeps the types: IInv keeps ids and closes within their bounds.
LEMMA NextType == IInv /\ [Next]_vars => TypeOK'
  <1> SUFFICES ASSUME IInv, [Next]_vars PROVE TypeOK'
    OBVIOUS
  <1> USE DEF clientVars, hostVars, Outcomes
  <1>a. TypeOK /\ Numbered /\ Announced /\ Transport
    BY DEF IInv
  <1>b. wire # <<>> => /\ Tail(wire) \in Seq(Frames) /\ Head(wire) \in Frames
    BY <1>a DEF TypeOK
  <1>1. CASE DialSucceeds
    <2>1. nextId \in Ids /\ Request
      BY <1>1, <1>a, OpeningIsId DEF DialSucceeds, Numbered
    <2> QED BY <1>1, <2>1, <1>a, RequestType DEF DialSucceeds, TypeOK
  <1>2. CASE DialFails
    BY <1>2, <1>a DEF DialFails, TypeOK
  <1>3. CASE ResumeAuthenticated
    <2>1. nextId \in Ids /\ Request
      BY <1>3, <1>a, OpeningIsId DEF ResumeAuthenticated, Numbered, Opening
    <2> QED BY <1>3, <2>1, <1>a, RequestType DEF ResumeAuthenticated, TypeOK
  <1>4. CASE ResumeOpened
    <2>1. listening' \in BOOLEAN
      BY <1>4 DEF ResumeOpened
    <2> QED BY <1>4, <2>1, <1>a DEF ResumeOpened, TypeOK
  <1>5. CASE ResumeRefused
    <2>1. CASE closed
      BY <1>5, <2>1, <1>a DEF ResumeRefused, TypeOK
    <2>2. CASE ~closed
      <3>1. TransportEnd
        BY <1>5, <2>2 DEF ResumeRefused
      <3> QED BY <1>5, <3>1, <1>a, EndType DEF ResumeRefused, TypeOK
    <2> QED BY <2>1, <2>2
  <1>6. CASE ReadReply
    <2>1. wire' = Tail(wire) /\ wire # <<>> /\ Head(wire).type = "reply"
      BY <1>6 DEF ReadReply, Reading, Consumed
    <2>2. Head(wire).id \in Ids
      BY <2>1, <1>b, FrameFields
    <2>3. pending' \subseteq Ids /\ outcome' \in [Ids -> Outcomes]
      BY <1>6, <2>2, <1>a DEF ReadReply, TypeOK
    <2> QED BY <1>6, <2>1, <2>3, <1>a, <1>b DEF ReadReply, TypeOK
  <1>7. CASE ReadRecv
    <2>1. wire' = Tail(wire) /\ wire # <<>> /\ Head(wire).type = "recv"
      BY <1>7 DEF ReadRecv, Reading
    <2>2. Head(wire).n \in 1..MaxRecv
      BY <2>1, <1>b, FrameFields
    <2>3. got' \in Seq(1..MaxRecv)
      <3>1. got \in Seq(1..MaxRecv)
        BY <1>a DEF TypeOK
      <3>2. got' = Append(got, Head(wire).n) \/ got' = got
        BY <1>7 DEF ReadRecv
      <3> QED BY <3>1, <3>2, <2>2, AppendType
    <2> QED BY <1>7, <2>1, <2>3, <1>a, <1>b DEF ReadRecv, TypeOK
  <1>8. CASE ReadClose
    <2>1. listening' \in BOOLEAN
      BY <1>8 DEF ReadClose, Unsubscribed
    <2>2. closes' \in 0..1
      BY <1>8, <1>a DEF ReadClose, Announced, TypeOK
    <2>3. wire' \in Seq(Frames)
      BY <1>8, <1>b DEF ReadClose, Reading
    <2> QED BY <1>8, <2>1, <2>2, <2>3, <1>a DEF ReadClose, TypeOK
  <1>9. CASE ReadFin
    <2>1. TransportEnd
      BY <1>9 DEF ReadFin
    <2> QED BY <1>9, <2>1, <1>a, EndType DEF ReadFin, TypeOK
  <1>10. CASE SocketError
    <2>1. TransportEnd
      BY <1>10 DEF SocketError
    <2> QED BY <1>10, <2>1, <1>a, EndType DEF SocketError, TypeOK
  <1>11. CASE Send
    <2>1. nextId \in Ids /\ Request
      BY <1>11 DEF Send
    <2> QED BY <1>11, <2>1, <1>a, RequestType DEF Send, TypeOK
  <1>12. CASE SendTooLong
    <2>1. outcome' \in [Ids -> Outcomes] /\ nextId' \in Nat
      BY <1>12, <1>a DEF SendTooLong, TypeOK
    <2> QED BY <1>12, <2>1, <1>a DEF SendTooLong, TypeOK
  <1>13. CASE Close
    <2>1. localClosed' \in BOOLEAN
      BY <1>13 DEF Close
    <2>2. sock' \in {"none", "open", "ended", "dead"} /\ handle' \in {"none", "up", "down"}
      BY <1>13, <1>a DEF Close, Ended, TypeOK
    <2> QED BY <1>13, <2>1, <2>2, <1>a DEF Close, TypeOK
  <1>14. CASE HostRecv
    <2>1. pushed' \in 0..MaxRecv /\ pushed + 1 \in 1..MaxRecv
      BY <1>14, <1>a, MaxRecvAssumption DEF HostRecv, TypeOK
    <2>2. wire' \in Seq(Frames)
      BY <1>14, <2>1, <1>a, FramesMade, WireWritten DEF HostRecv
    <2> QED BY <1>14, <2>1, <2>2, <1>a DEF HostRecv, TypeOK
  <1>15. CASE HostClose
    <2>1. wire' \in Seq(Frames)
      BY <1>15, <1>a, FramesMade, WireWritten DEF HostClose
    <2> QED BY <1>15, <2>1, <1>a DEF HostClose, TypeOK
  <1>16. CASE HostEnds
    <2>1. wire' \in Seq(Frames)
      BY <1>16, <1>a, FramesMade, WireWritten DEF HostEnds
    <2> QED BY <1>16, <2>1, <1>a DEF HostEnds, TypeOK
  <1>17. ASSUME NEW id \in Ids, Timeout(id) PROVE TypeOK'
    <2>1. pending' \subseteq Ids /\ outcome' \in [Ids -> Outcomes]
      BY <1>17, <1>a DEF Timeout, TypeOK
    <2> QED BY <1>17, <2>1, <1>a DEF Timeout, TypeOK
  <1>18. ASSUME NEW id \in Ids, NEW ok \in BOOLEAN, HostReply(id, ok) PROVE TypeOK'
    <2>1. wire' \in Seq(Frames)
      BY <1>18, <1>a, FramesMade, WireWritten DEF HostReply
    <2>2. answered' \in [Ids -> {"none", "ok", "err"}] /\ asked' \subseteq Ids
      BY <1>18, <1>a DEF HostReply, TypeOK
    <2>3. handle' \in {"none", "up", "down"}
      BY <1>18, <1>a DEF HostReply, TypeOK
    <2> QED BY <1>18, <2>1, <2>2, <2>3, <1>a DEF HostReply, TypeOK
  <1>19. CASE UNCHANGED vars
    BY <1>19, <1>a DEF vars, TypeOK
  <1> QED
    BY <1>1, <1>2, <1>3, <1>4, <1>5, <1>6, <1>7, <1>8, <1>9, <1>10, <1>11, <1>12, <1>13,
       <1>14, <1>15, <1>16, <1>17, <1>18, <1>19 DEF Next, Read, Resume

-----------------------------------------------------------------------------
(* What the pieces of the handlers do to the requests.                     *)

\* What the invariant says of each request by itself.
Requests == Unused /\ AnsweredOnce /\ RepliesMatch

\* A new request takes an id that is nobody's.
LEMMA RequestKeeps ==
  ASSUME IInv, Request, nextId \in Ids, UNCHANGED <<answered, wire>>
  PROVE  Requests'
  <1> USE DEF IInv
  <1>0. OnWire' = OnWire
    BY DEF OnWire
  <1>1. /\ nextId' = nextId + 1
        /\ \/ outcome' = outcome
           \/ outcome' = [outcome EXCEPT ![nextId] = "ended"] /\ pending' = pending
        /\ pending' \subseteq pending \cup {nextId} /\ asked' \subseteq asked \cup {nextId}
    BY DEF Request
  <1>2. \A i \in Ids : \/ outcome'[i] = outcome[i]
                       \/ i = nextId /\ outcome'[i] = "ended" /\ pending' = pending
    BY <1>1 DEF TypeOK
  <1>3. nextId \notin pending /\ nextId \notin asked /\ outcome[nextId] = "none"
    BY DEF Unused, TypeOK
  <1>4. Ids \subseteq Nat
    BY DEF Ids
  <1>a. \A f \in OnWire : f.type = "reply" => f.id # nextId /\ f.id < nextId + 1
    <2> SUFFICES ASSUME NEW f \in OnWire, f.type = "reply"
                 PROVE  f.id # nextId /\ f.id < nextId + 1
      OBVIOUS
    <2>1. f.id \in Nat /\ nextId \in Nat
      BY <1>4, WireIds DEF TypeOK
    <2>2. f.id < nextId
      BY DEF Unused
    <2> QED BY <2>1, <2>2
  <1>5. Unused'
    <2>1. \A i \in Ids : i >= nextId' => i >= nextId /\ i # nextId
      BY <1>1, <1>4 DEF TypeOK
    <2>2. \A f \in OnWire' : f.type = "reply" => f.id < nextId'
      BY <1>0, <1>1, <1>a
    <2> QED BY <1>1, <1>2, <2>1, <2>2 DEF Unused
  <1>6. AnsweredOnce'
    <2>1. \A i \in asked' : outcome'[i] \notin {"ok", "err"}
      BY <1>1, <1>2, <1>3 DEF AnsweredOnce, TypeOK
    <2> QED BY <1>0, <1>1, <1>a, <2>1 DEF AnsweredOnce
  <1>7. RepliesMatch'
    BY <1>1, <1>2, <1>3 DEF RepliesMatch
  <1> QED BY <1>5, <1>6, <1>7 DEF Requests

\* The end of the transport answers none of them.
LEMMA EndKeeps ==
  ASSUME IInv, TransportEnd, UNCHANGED <<nextId, answered>>
  PROVE  Requests'
  <1> USE DEF IInv, TypeOK
  <1>1. OnWire' = {} /\ pending' = {} /\ asked' = {}
    BY WireEmpty DEF TransportEnd
  <1>2. \A i \in Ids : outcome'[i] = IF i \in pending THEN "ended" ELSE outcome[i]
    BY DEF TransportEnd
  <1> QED BY <1>1, <1>2 DEF Requests, Unused, AnsweredOnce, RepliesMatch

\* Neither does a frame read that is no reply, nor one the host sends.
LEMMA OtherFramesKeep ==
  ASSUME IInv, UNCHANGED <<nextId, pending, outcome, asked, answered>>,
         \A f \in OnWire' : f \in OnWire \/ f.type # "reply"
  PROVE  Requests'
  BY DEF IInv, Requests, Unused, AnsweredOnce, RepliesMatch

-----------------------------------------------------------------------------
(* The invariant, action by action.                                        *)

\* The rest of it: the stage, the socket and the listeners.
Stages == Numbered /\ Transport /\ Announced

\* The end of the transport, wherever it comes from, in the same stage.
LEMMA EndStages ==
  ASSUME IInv, TransportEnd, UNCHANGED <<stage, nextId>>, sock # "none", ~JobPending
  PROVE  Stages'
  <1> USE DEF IInv
  <1>1. closed' /\ sock' = "dead" /\ pending' = {} /\ ~listening'
    BY DEF TransportEnd
  <1>2. closes' = IF listening THEN closes + 1 ELSE closes
    BY DEF TransportEnd
  <1>3. Awaited' = Awaited
    BY DEF Awaited
  <1>4. stage \notin {"dialling", "failed"} \/ sock = "dead"
    BY DEF Transport
  <1>5. ASSUME stage \in {"authing", "opening"} PROVE outcome'[Awaited] = "ended"
    <2>1. Awaited \in Ids
      BY OpeningIsId DEF Awaited
    <2>2. outcome[Awaited] = "none"
      BY <1>5 DEF JobPending
    <2>3. Awaited \in pending \/ closed
      BY <1>5, <2>2 DEF Transport
    <2>4. ~closed
      BY <1>5, <2>2 DEF Transport
    <2> QED BY <2>1, <2>3, <2>4 DEF TransportEnd
  <1>6. Transport'
    BY <1>1, <1>3, <1>4, <1>5 DEF Transport
  <1>7. Announced'
    BY <1>1, <1>2 DEF Announced
  <1> QED BY <1>6, <1>7 DEF Stages, Numbered

LEMMA InitIInv == Init => IInv
  <1> SUFFICES ASSUME Init PROVE IInv
    OBVIOUS
  <1>1. OnWire = {}
    BY DEF Init, OnWire
  <1>2. Numbered /\ Unused /\ AnsweredOnce
    BY <1>1 DEF Init, Numbered, Unused, AnsweredOnce
  <1>3. Transport /\ Announced /\ RepliesMatch
    BY DEF Init, Transport, Announced, RepliesMatch
  <1> QED BY <1>2, <1>3, InitType DEF IInv

LEMMA NextIInv == IInv /\ [Next]_vars => IInv'
  <1> SUFFICES ASSUME IInv, [Next]_vars PROVE Requests' /\ Stages'
    BY NextType DEF IInv, Requests, Stages
  <1> USE DEF clientVars, hostVars
  <1>a. TypeOK /\ Requests /\ Stages
    BY DEF IInv, Requests, Stages
  <1>b. \A w : wire' = w /\ w = wire => OnWire' = OnWire
    BY DEF OnWire
  <1>c. wire # <<>> /\ wire' = Tail(wire) => OnWire' \subseteq OnWire /\ Head(wire) \in OnWire
    BY <1>a, WireRead
  <1>d. Awaited \in Ids /\ Opening \in Ids
    BY OpeningIsId DEF Awaited
  <1>1. CASE DialSucceeds
    <2>1. /\ stage = "dialling" /\ nextId = 1 /\ sock = "none" /\ ~closed /\ ~listening /\ closes = 0
      BY <1>1, <1>a DEF DialSucceeds, Stages, Numbered, Transport, Announced
    <2>2. Requests'
      BY <1>1, <2>1, <1>d, OpeningIsId, RequestKeeps DEF DialSucceeds
    <2>3. /\ nextId' = 2 /\ pending' = pending \cup {1} /\ closed' = closed /\ sock' = "open"
          /\ listening' = listening /\ closes' = closes
          /\ stage' = IF Auth THEN "authing" ELSE "opening"
      BY <1>1, <2>1 DEF DialSucceeds, Request
    <2>4. Numbered'
      BY <2>3 DEF Numbered, Opening
    <2>5. Transport'
      BY <2>1, <2>3 DEF Transport, Awaited, Opening
    <2> QED BY <2>1, <2>2, <2>3, <2>4, <2>5 DEF Stages, Announced
  <1>2. CASE DialFails
    <2>1. Requests'
      BY <1>2, <1>b, OtherFramesKeep DEF DialFails
    <2> QED BY <1>2, <2>1, <1>a DEF DialFails, Stages, Numbered, Transport, Announced
  <1>3. CASE ResumeAuthenticated
    <2>1. /\ stage = "authing" /\ nextId = 2 /\ Auth /\ ~closed /\ Opening = 2
      BY <1>3, <1>a DEF ResumeAuthenticated, Stages, Numbered, Transport, Opening
    <2>2. Requests'
      BY <1>3, <2>1, <1>d, RequestKeeps DEF ResumeAuthenticated
    <2>3. /\ nextId' = 3 /\ pending' = pending \cup {2} /\ outcome' = outcome
          /\ stage' = "opening" /\ UNCHANGED <<closed, sock, listening, closes>>
      BY <1>3, <2>1 DEF ResumeAuthenticated, Request
    <2>4. Numbered'
      BY <2>1, <2>3 DEF Numbered
    <2>5. Transport'
      BY <2>1, <2>3, <1>a DEF Stages, Transport, Awaited
    <2> QED BY <2>1, <2>2, <2>3, <2>4, <2>5, <1>a DEF Stages, Announced
  <1>4. CASE ResumeOpened
    <2>1. Requests'
      BY <1>4, <1>b, OtherFramesKeep DEF ResumeOpened
    <2>2. stage = "opening" /\ ~closed /\ closes = 0 /\ nextId > Opening
      BY <1>4, <1>a, OpeningIsId DEF ResumeOpened, Stages, Transport, Announced, Numbered
    <2> QED BY <1>4, <2>1, <2>2, <1>a DEF ResumeOpened, Stages, Numbered, Transport, Announced
  <1>5. CASE ResumeRefused
    <2>1. stage' = "failed" /\ stage # "linked" /\ UNCHANGED <<nextId, answered>>
      BY <1>5 DEF ResumeRefused
    <2>2. CASE closed
      <3>1. Requests'
        BY <1>5, <2>2, <1>b, OtherFramesKeep DEF ResumeRefused
      <3> QED BY <1>5, <2>1, <2>2, <3>1, <1>a
              DEF ResumeRefused, Stages, Numbered, Transport, Announced
    <2>3. CASE ~closed
      <3>1. TransportEnd
        BY <1>5, <2>3 DEF ResumeRefused
      <3>2. Requests'
        BY <2>1, <3>1, EndKeeps
      <3> QED BY <2>1, <3>1, <3>2, <1>a
              DEF TransportEnd, Stages, Numbered, Transport, Announced
    <2> QED BY <2>2, <2>3
  <1>6. CASE ReadReply
    <2> DEFINE id == Head(wire).id
    <2>1. /\ wire # <<>> /\ wire' = Tail(wire) /\ Head(wire).type = "reply"
          /\ UNCHANGED <<stage, sock, closed, nextId, listening, closes, asked, answered>>
      BY <1>6 DEF ReadReply, Reading, Consumed
    <2>2. /\ id \in Ids /\ id < nextId /\ id \notin asked /\ answered[id] \in {"ok", "err"}
      BY <2>1, <1>a, <1>c, WireIds DEF Requests, Unused, AnsweredOnce, TypeOK
    <2>3. \/ UNCHANGED <<pending, outcome>>
          \/ /\ id \in pending /\ pending' = pending \ {id}
             /\ outcome' = [outcome EXCEPT ![id] = answered[id]]
      BY <1>6 DEF ReadReply, Expected, Correlated
    <2> HIDE DEF id
    <2>4. Requests'
      BY <2>1, <2>2, <2>3, <1>a, <1>c DEF Requests, Unused, AnsweredOnce, RepliesMatch, TypeOK
    <2>5. Transport'
      BY <2>1, <2>2, <2>3, <1>a, <1>d DEF Stages, Transport, Awaited, TypeOK
    <2> QED BY <2>1, <2>4, <2>5, <1>a DEF Stages, Numbered, Announced
  <1>7. CASE ReadRecv
    <2>1. Requests'
      BY <1>7, <1>c, OtherFramesKeep DEF ReadRecv, Reading
    <2> QED BY <1>7, <2>1, <1>a DEF ReadRecv, Stages, Numbered, Transport, Announced, Awaited
  <1>8. CASE ReadClose
    <2>1. Requests'
      BY <1>8, <1>c, OtherFramesKeep DEF ReadClose, Reading
    <2>2. /\ listening' = FALSE /\ closes' = IF listening THEN closes + 1 ELSE closes
          /\ UNCHANGED <<stage, sock, closed, nextId, pending, outcome>>
      BY <1>8 DEF ReadClose, Unsubscribed
    <2>3. Announced'
      BY <2>2, <1>a DEF Stages, Announced
    <2> QED BY <2>1, <2>2, <2>3, <1>a DEF Stages, Numbered, Transport, Awaited
  <1>9. CASE ReadFin
    <2>1. TransportEnd /\ UNCHANGED <<stage, nextId, answered>> /\ sock # "none" /\ ~JobPending
      BY <1>9 DEF ReadFin, Reading
    <2> QED BY <2>1, EndKeeps, EndStages
  <1>10. CASE SocketError
    <2>1. TransportEnd /\ UNCHANGED <<stage, nextId, answered>> /\ sock # "none" /\ ~JobPending
      BY <1>10 DEF SocketError
    <2> QED BY <2>1, EndKeeps, EndStages
  <1>11. CASE Send
    <2>1. Requests'
      BY <1>11, RequestKeeps DEF Send
    <2>2. /\ stage = "linked" /\ nextId' = nextId + 1
          /\ closed => pending' = pending
          /\ UNCHANGED <<stage, sock, closed, listening, closes>>
      BY <1>11 DEF Send, Request
    <2>3. Numbered'
      BY <2>2, <1>a, OpeningIsId DEF Stages, Numbered, TypeOK
    <2> QED BY <2>1, <2>2, <2>3, <1>a DEF Stages, Transport, Announced
  <1>12. CASE SendTooLong
    <2>1. /\ stage = "linked" /\ nextId' = nextId + 1 /\ nextId \in Ids
          /\ outcome' = [outcome EXCEPT ![nextId] = "tooLong"]
          /\ UNCHANGED <<stage, sock, closed, listening, closes, pending, asked, answered, wire>>
      BY <1>12 DEF SendTooLong
    <2>2. nextId \notin pending /\ nextId \notin asked
      BY <2>1, <1>a DEF Requests, Unused, TypeOK
    <2>3. \A i \in Ids : i >= nextId' => i >= nextId /\ i # nextId
      BY <2>1, <1>a DEF Ids, TypeOK
    <2>4. \A f \in OnWire : f.type = "reply" => f.id < nextId + 1
      <3> SUFFICES ASSUME NEW f \in OnWire, f.type = "reply" PROVE f.id < nextId + 1
        OBVIOUS
      <3>1. f.id \in Nat /\ nextId \in Nat /\ f.id < nextId
        BY <1>a, WireIds DEF Requests, Unused, TypeOK, Ids
      <3> QED BY <3>1
    <2>5. Requests'
      BY <2>1, <2>2, <2>3, <2>4, <1>a, <1>b DEF Requests, Unused, AnsweredOnce, RepliesMatch, TypeOK
    <2>6. Numbered'
      BY <2>1, <1>a, OpeningIsId DEF Stages, Numbered, TypeOK
    <2> QED BY <2>1, <2>5, <2>6, <1>a DEF Stages, Transport, Announced
  <1>13. CASE Close
    <2>1. Requests'
      BY <1>13, <1>b, OtherFramesKeep DEF Close
    <2> QED BY <1>13, <2>1, <1>a DEF Close, Ended, Stages, Numbered, Transport, Announced
  <1>14. CASE HostRecv \/ HostClose \/ HostEnds
    <2>1. \A f \in OnWire' : f \in OnWire \/ f.type # "reply"
      <3>1. CASE HostRecv
        <4>1. pushed + 1 \in 1..MaxRecv
          BY <3>1, <1>a, MaxRecvAssumption DEF HostRecv, TypeOK
        <4> QED BY <3>1, <4>1, <1>a, FramesMade, WireWritten DEF HostRecv
      <3>2. CASE HostClose
        BY <3>2, <1>a, FramesMade, WireWritten DEF HostClose
      <3>3. CASE HostEnds
        BY <3>3, <1>a, FramesMade, WireWritten DEF HostEnds
      <3> QED BY <1>14, <3>1, <3>2, <3>3
    <2>2. Requests'
      BY <1>14, <2>1, OtherFramesKeep DEF HostRecv, HostClose, HostEnds
    <2> QED BY <1>14, <2>2, <1>a
            DEF HostRecv, HostClose, HostEnds, Stages, Numbered, Transport, Announced, Awaited
  <1>15. ASSUME NEW id \in Ids, Timeout(id) PROVE Requests' /\ Stages'
    <2>1. /\ id \in pending /\ pending' = pending \ {id}
          /\ outcome' = [outcome EXCEPT ![id] = "timeout"]
          /\ UNCHANGED <<stage, sock, closed, nextId, listening, closes, asked, answered, wire>>
      BY <1>15 DEF Timeout
    <2>2. Requests'
      BY <2>1, <1>a, <1>b DEF Requests, Unused, AnsweredOnce, RepliesMatch, TypeOK
    <2>3. Transport'
      BY <2>1, <1>a, <1>d DEF Stages, Transport, Awaited, TypeOK
    <2> QED BY <2>1, <2>2, <2>3, <1>a DEF Stages, Numbered, Announced
  <1>16. ASSUME NEW id \in Ids, NEW ok \in BOOLEAN, HostReply(id, ok) PROVE Requests' /\ Stages'
    <2> DEFINE reply == [type |-> "reply", id |-> id]
    <2>1. /\ id \in asked /\ asked' = asked \ {id} /\ wire' = Append(wire, reply)
          /\ answered' = [answered EXCEPT ![id] = IF ok THEN "ok" ELSE "err"]
          /\ UNCHANGED clientVars
      BY <1>16 DEF HostReply
    <2>2. OnWire' \subseteq OnWire \cup {reply}
      BY <2>1, <1>a, FramesMade, WireWritten
    <2>3. id < nextId /\ outcome[id] \notin {"ok", "err"}
      BY <2>1, <1>a DEF Requests, Unused, AnsweredOnce, TypeOK, Ids
    <2>4. Requests'
      BY <2>1, <2>2, <2>3, <1>a, WireIds DEF Requests, Unused, AnsweredOnce, RepliesMatch, TypeOK
    <2> QED BY <2>1, <2>4, <1>a DEF Stages, Numbered, Transport, Announced, Awaited
  <1>17. CASE UNCHANGED vars
    <2>1. Requests'
      BY <1>17, <1>b, OtherFramesKeep DEF vars
    <2> QED BY <1>17, <2>1, <1>a DEF vars, Stages, Numbered, Transport, Announced, Awaited
  <1> QED
    BY <1>1, <1>2, <1>3, <1>4, <1>5, <1>6, <1>7, <1>8, <1>9, <1>10, <1>11, <1>12, <1>13,
       <1>14, <1>15, <1>16, <1>17 DEF Next, Read, Resume

\* IInv is an invariant.
LEMMA IInvHolds == Spec => []IInv
  <1> QED BY InitIInv, NextIInv, PTL DEF Spec

\* The connection's state is well typed: no id beyond those open() and the sends
\* take, and no link that announces its close twice.
THEOREM TypeCorrect == Spec => []TypeOK
  <1>1. IInv => TypeOK
    BY DEF IInv
  <1> QED BY <1>1, IInvHolds, PTL

\* Each request is told the host's answer to itself, once.
THEOREM OwnReplies == Spec => []RepliesMatch
  <1>1. IInv => RepliesMatch
    BY DEF IInv
  <1> QED BY <1>1, IInvHolds, PTL

\* The end of the transport leaves no request pending and no holder of a link
\* uninformed, at whatever stage of open() or of a close it comes.
THEOREM EndSettles == Spec => []EndSettlesAll
  <1>1. IInv => EndSettlesAll
    BY DEF IInv, Transport, Announced, EndSettlesAll
  <1> QED BY <1>1, IInvHolds, PTL

-----------------------------------------------------------------------------
(***************************************************************************)
(* No gap.  NoGap says nothing of what is still on its way; the invariant  *)
(* does: the pushes on the wire follow each other up to the host's last    *)
(* one, and the first of them follows what the listener was handed last.   *)
(***************************************************************************)
Recv(k) == wire[k].type = "recv"
Last(s) == s[Len(s)]

WireInOrder ==
  /\ \A k \in 1..Len(wire) : Recv(k) =>
       \/ wire[k].n = pushed
       \/ \E j \in 1..Len(wire) : Recv(j) /\ wire[j].n = wire[k].n + 1
  /\ \A j, k \in 1..Len(wire) : j < k /\ Recv(j) /\ Recv(k) => wire[j].n < wire[k].n
  /\ \A k \in 1..Len(wire) : Recv(k) => wire[k].n <= pushed

\* What the listener gets next is on the wire, before anything else, or not pushed.
HandedOver ==
  /\ stage # "linked" => got = <<>>
  /\ listening /\ got # <<>> =>
       /\ \/ Last(got) = pushed
          \/ \E k \in 1..Len(wire) : Recv(k) /\ wire[k].n = Last(got) + 1
       /\ \A k \in 1..Len(wire) : Recv(k) => Last(got) < wire[k].n
       /\ Last(got) <= pushed

GapInv == WireInOrder /\ HandedOver /\ NoGap

LEMMA Numbers ==
  ASSUME TypeOK
  PROVE  /\ \A k \in 1..Len(wire) : Recv(k) => wire[k].n \in 1..MaxRecv
         /\ pushed \in Nat /\ Len(wire) \in Nat /\ Len(got) \in Nat
         /\ \A k \in 1..Len(got) : got[k] \in Nat
         /\ got # <<>> => Len(got) >= 1 /\ Last(got) \in Nat
  <1>1. \A k \in 1..Len(wire) : wire[k] \in Frames
    BY DEF TypeOK
  <1>2. \A k \in 1..Len(wire) : Recv(k) => wire[k].n \in 1..MaxRecv
    BY <1>1, FrameFields DEF Recv
  <1>3. got \in Seq(Nat)
    BY MaxRecvAssumption DEF TypeOK
  <1> QED BY <1>2, <1>3 DEF TypeOK, Last

\* Where the frames are after one is read, or one is written.
LEMMA AfterRead ==
  ASSUME TypeOK, wire # <<>>, wire' = Tail(wire)
  PROVE  /\ Len(wire) \in Nat \ {0} /\ Len(wire') = Len(wire) - 1
         /\ \A k \in 1..Len(wire') : k + 1 \in 1..Len(wire) /\ wire'[k] = wire[k + 1]
         /\ \A k \in 1..Len(wire) : k > 1 => k - 1 \in 1..Len(wire') /\ wire'[k - 1] = wire[k]
         /\ Head(wire) = wire[1]
  BY DEF TypeOK

LEMMA AfterWrite ==
  ASSUME TypeOK, NEW f \in Frames, wire' = Append(wire, f)
  PROVE  /\ Len(wire) \in Nat /\ Len(wire') = Len(wire) + 1
         /\ \A k \in 1..Len(wire) : k \in 1..Len(wire') /\ wire'[k] = wire[k]
         /\ wire'[Len(wire) + 1] = f
  BY DEF TypeOK

\* A frame read takes the first push, if it is one, and leaves the others in order.
LEMMA ReadInOrder ==
  ASSUME TypeOK, WireInOrder, wire # <<>>, wire' = Tail(wire), pushed' = pushed
  PROVE  WireInOrder'
  <1>1. \A k \in 1..Len(wire') : Recv(k)' <=> Recv(k + 1)
    BY AfterRead DEF Recv
  <1>2. ASSUME NEW k \in 1..Len(wire'), Recv(k)'
        PROVE  \/ wire'[k].n = pushed
               \/ \E j \in 1..Len(wire') : Recv(j)' /\ wire'[j].n = wire'[k].n + 1
    <2>1. k + 1 \in 1..Len(wire) /\ Recv(k + 1) /\ wire'[k] = wire[k + 1]
      BY <1>1, <1>2, AfterRead
    <2>2. CASE wire[k + 1].n = pushed
      BY <2>1, <2>2
    <2>3. CASE wire[k + 1].n # pushed
      <3>1. PICK j \in 1..Len(wire) : Recv(j) /\ wire[j].n = wire[k + 1].n + 1
        BY <2>1, <2>3 DEF WireInOrder
      <3>2. j # 1
        <4> SUFFICES ASSUME j = 1 PROVE FALSE
          OBVIOUS
        <4>1. wire[j].n < wire[k + 1].n
          BY <2>1, <3>1 DEF WireInOrder
        <4>2. wire[j].n \in Nat /\ wire[k + 1].n \in Nat
          BY <2>1, <3>1, Numbers, MaxRecvAssumption
        <4> QED BY <3>1, <4>1, <4>2
      <3>3. j - 1 \in 1..Len(wire') /\ wire'[j - 1] = wire[j]
        BY <3>2, AfterRead
      <3>4. Recv(j - 1)'
        BY <3>1, <3>3 DEF Recv
      <3> QED BY <2>1, <3>1, <3>3, <3>4
    <2> QED BY <2>2, <2>3
  <1>3. \A j, k \in 1..Len(wire') : j < k /\ Recv(j)' /\ Recv(k)' => wire'[j].n < wire'[k].n
    BY <1>1, AfterRead DEF WireInOrder
  <1>4. \A k \in 1..Len(wire') : Recv(k)' => wire'[k].n <= pushed'
    BY <1>1, AfterRead DEF WireInOrder
  <1> QED BY <1>2, <1>3, <1>4 DEF WireInOrder

\* A frame that is no push changes nothing of the pushes, read or written.
LEMMA OtherRead ==
  ASSUME TypeOK, WireInOrder, HandedOver, wire # <<>>, wire' = Tail(wire), ~Recv(1),
         UNCHANGED <<pushed, stage, got>>, listening' => listening
  PROVE  WireInOrder' /\ HandedOver'
  <1>1. WireInOrder'
    BY ReadInOrder
  <1>2. \A k \in 1..Len(wire') : Recv(k)' <=> Recv(k + 1)
    BY AfterRead DEF Recv
  <1>3. ASSUME NEW m, \E k \in 1..Len(wire) : Recv(k) /\ wire[k].n = m
        PROVE  \E k \in 1..Len(wire') : Recv(k)' /\ wire'[k].n = m
    <2>1. PICK k \in 1..Len(wire) : Recv(k) /\ wire[k].n = m
      BY <1>3
    <2>2. k > 1
      BY <2>1
    <2>3. k - 1 \in 1..Len(wire') /\ wire'[k - 1] = wire[k]
      BY <2>2, AfterRead
    <2> QED BY <2>1, <2>3 DEF Recv
  <1>4. \A k \in 1..Len(wire') : Recv(k)' => k + 1 \in 1..Len(wire) /\ Recv(k + 1) /\ wire'[k] = wire[k + 1]
    BY <1>2, AfterRead
  <1>5. HandedOver'
    BY <1>3, <1>4 DEF HandedOver, Last
  <1> QED BY <1>1, <1>5

LEMMA OtherWritten ==
  ASSUME TypeOK, WireInOrder, HandedOver, NEW f \in Frames, f.type # "recv",
         wire' = Append(wire, f), UNCHANGED <<pushed, stage, got, listening>>
  PROVE  WireInOrder' /\ HandedOver'
  <1>1. \A k \in 1..Len(wire) : k \in 1..Len(wire') /\ wire'[k] = wire[k] /\ (Recv(k)' <=> Recv(k))
    BY AfterWrite DEF Recv
  <1>2. \A k \in 1..Len(wire') : Recv(k)' => k \in 1..Len(wire)
    <2> SUFFICES ASSUME NEW k \in 1..Len(wire'), Recv(k)', k \notin 1..Len(wire) PROVE FALSE
      OBVIOUS
    <2>1. k = Len(wire) + 1
      BY AfterWrite
    <2>2. wire'[k] = f
      BY <2>1, AfterWrite
    <2> QED BY <2>2 DEF Recv
  <1>3. WireInOrder'
    BY <1>1, <1>2 DEF WireInOrder
  <1>4. HandedOver'
    BY <1>1, <1>2 DEF HandedOver, Last
  <1> QED BY <1>3, <1>4

\* A push joins the end of the wire with the number after the last one's.
LEMMA PushWritten ==
  ASSUME TypeOK, WireInOrder, HandedOver, pushed < MaxRecv, pushed' = pushed + 1,
         wire' = Append(wire, [type |-> "recv", n |-> pushed + 1]),
         UNCHANGED <<stage, got, listening>>
  PROVE  WireInOrder' /\ HandedOver'
  <1> DEFINE f == [type |-> "recv", n |-> pushed + 1]
  <1>0. pushed \in Nat /\ pushed + 1 \in 1..MaxRecv
    BY MaxRecvAssumption DEF TypeOK
  <1>1. f \in Frames /\ wire' = Append(wire, f) /\ f.type = "recv" /\ f.n = pushed + 1
    BY <1>0, FramesMade
  <1> HIDE DEF f
  <1>2. \A k \in 1..Len(wire) : k \in 1..Len(wire') /\ wire'[k] = wire[k] /\ (Recv(k)' <=> Recv(k))
    BY <1>1, AfterWrite DEF Recv
  <1>l. PICK last : last = Len(wire) + 1
    OBVIOUS
  <1>3. /\ last \in 1..Len(wire') /\ Recv(last)' /\ wire'[last].n = pushed'
        /\ \A k \in 1..Len(wire') : k \in 1..Len(wire) \/ k = last
        /\ \A k \in 1..Len(wire) : k < last
    <2>1. /\ last \in 1..Len(wire') /\ wire'[last] = f
          /\ \A k \in 1..Len(wire') : k \in 1..Len(wire) \/ k = last
          /\ \A k \in 1..Len(wire) : k < last
      BY <1>1, <1>l, AfterWrite
    <2> QED BY <2>1, <1>1 DEF Recv
  <1>4. \A k \in 1..Len(wire) : Recv(k) => wire[k].n \in Nat /\ wire[k].n <= pushed
    BY Numbers, MaxRecvAssumption DEF WireInOrder
  <1>5. \A k \in 1..Len(wire') : Recv(k)' =>
          \/ wire'[k].n = pushed'
          \/ \E j \in 1..Len(wire') : Recv(j)' /\ wire'[j].n = wire'[k].n + 1
    <2> SUFFICES ASSUME NEW k \in 1..Len(wire'), Recv(k)', k # last
                 PROVE  \E j \in 1..Len(wire') : Recv(j)' /\ wire'[j].n = wire'[k].n + 1
      BY <1>3
    <2>1. k \in 1..Len(wire) /\ Recv(k) /\ wire'[k] = wire[k]
      BY <1>2, <1>3
    <2>2. CASE wire[k].n = pushed
      BY <2>1, <2>2, <1>3
    <2>3. CASE wire[k].n # pushed
      BY <2>1, <2>3, <1>2 DEF WireInOrder
    <2> QED BY <2>2, <2>3
  <1>6. \A j, k \in 1..Len(wire') : j < k /\ Recv(j)' /\ Recv(k)' => wire'[j].n < wire'[k].n
    <2> SUFFICES ASSUME NEW j \in 1..Len(wire'), NEW k \in 1..Len(wire'), j < k, Recv(j)', Recv(k)'
                 PROVE  wire'[j].n < wire'[k].n
      OBVIOUS
    <2>1. j \in 1..Len(wire)
      BY <1>3, <1>l, AfterWrite, <1>1
    <2>2. Recv(j) /\ wire'[j] = wire[j] /\ wire[j].n \in Nat /\ wire[j].n <= pushed
      BY <2>1, <1>2, <1>4
    <2>3. CASE k = last
      <3>1. wire'[k].n = pushed + 1
        BY <2>3, <1>3
      <3> QED BY <2>2, <3>1, <1>0
    <2>4. CASE k # last
      BY <2>1, <2>2, <2>4, <1>2, <1>3 DEF WireInOrder
    <2> QED BY <2>3, <2>4
  <1>7. \A k \in 1..Len(wire') : Recv(k)' => wire'[k].n <= pushed'
    BY <1>0, <1>2, <1>3, <1>4
  <1>8. WireInOrder'
    BY <1>5, <1>6, <1>7 DEF WireInOrder
  <1>9. HandedOver'
    <2>1. got # <<>> => Last(got) \in Nat
      BY Numbers
    <2>2. Last(got)' = Last(got)
      BY DEF Last
    <2>3. ASSUME listening, got # <<>>
          PROVE  \E k \in 1..Len(wire') : Recv(k)' /\ wire'[k].n = Last(got) + 1
      <3>1. CASE Last(got) = pushed
        BY <3>1, <1>3
      <3>2. CASE Last(got) # pushed
        BY <2>3, <3>2, <1>2 DEF HandedOver
      <3> QED BY <3>1, <3>2
    <2>4. ASSUME listening, got # <<>>
          PROVE  Last(got) <= pushed' /\ \A k \in 1..Len(wire') : Recv(k)' => Last(got) < wire'[k].n
      <3>1. Last(got) \in Nat /\ Last(got) <= pushed
        BY <2>1, <2>4 DEF HandedOver
      <3> QED BY <2>4, <3>1, <1>0, <1>2, <1>3 DEF HandedOver
    <2> QED BY <2>2, <2>3, <2>4 DEF HandedOver
  <1> QED BY <1>8, <1>9

\* A push read while the link listens is the one after the last.
LEMMA PushRead ==
  ASSUME TypeOK, GapInv, wire # <<>>, Recv(1), wire' = Tail(wire), listening, stage = "linked",
         got' = Append(got, wire[1].n), UNCHANGED <<pushed, stage>>
  PROVE  GapInv'
  <1> DEFINE n == wire[1].n
  <1>0. /\ 1 \in 1..Len(wire) /\ n \in 1..MaxRecv /\ n \in Nat /\ pushed \in Nat
        /\ n <= pushed /\ Len(got) \in Nat
    BY Numbers, AfterRead, MaxRecvAssumption DEF GapInv, WireInOrder
  <1>1. /\ Len(got') = Len(got) + 1 /\ got'[Len(got) + 1] = n /\ got' # <<>>
        /\ \A k \in 1..Len(got) : got'[k] = got[k]
    BY <1>0 DEF TypeOK
  <1>2. \A k \in 1..Len(wire) : k > 1 /\ Recv(k) => n < wire[k].n
    BY <1>0 DEF GapInv, WireInOrder
  <1>3. ASSUME got # <<>> PROVE n = Last(got) + 1
    <2>1. Last(got) \in Nat /\ Last(got) < n
      BY <1>3, <1>0, Numbers DEF GapInv, HandedOver
    <2>2. PICK k \in 1..Len(wire) : Recv(k) /\ wire[k].n = Last(got) + 1
      BY <1>0, <1>3, <2>1 DEF GapInv, HandedOver
    <2>3. k = 1
      BY <1>0, <1>2, <2>1, <2>2
    <2> QED BY <2>2, <2>3
  <1>4. NoGap'
    <2> SUFFICES ASSUME NEW k \in 1..(Len(got') - 1) PROVE got'[k + 1] = got'[k] + 1
      BY DEF NoGap
    <2>1. CASE k = Len(got)
      <3>1. got # <<>> /\ got'[k] = Last(got)
        BY <2>1, <1>0, <1>1 DEF Last, TypeOK
      <3> QED BY <3>1, <2>1, <1>1, <1>3
    <2>2. CASE k # Len(got)
      <3>1. k \in 1..(Len(got) - 1) /\ k + 1 \in 1..Len(got) /\ k \in 1..Len(got)
        BY <2>2, <1>0, <1>1
      <3> QED BY <3>1, <1>1 DEF GapInv, NoGap
    <2> QED BY <2>1, <2>2
  <1>5. WireInOrder'
    BY ReadInOrder DEF GapInv
  <1>6. Last(got)' = n
    BY <1>1 DEF Last
  <1>7. \A k \in 1..Len(wire') : Recv(k)' => k + 1 \in 1..Len(wire) /\ Recv(k + 1) /\ wire'[k] = wire[k + 1] /\ k + 1 > 1
    BY AfterRead DEF Recv
  <1>8. n = pushed \/ \E k \in 1..Len(wire') : Recv(k)' /\ wire'[k].n = n + 1
    <2>1. n = pushed \/ \E k \in 1..Len(wire) : Recv(k) /\ wire[k].n = n + 1
      BY <1>0 DEF GapInv, WireInOrder
    <2>2. ASSUME NEW k \in 1..Len(wire), Recv(k), wire[k].n = n + 1
          PROVE  \E j \in 1..Len(wire') : Recv(j)' /\ wire'[j].n = n + 1
      <3>1. k > 1
        BY <2>2, <1>0
      <3>2. k - 1 \in 1..Len(wire') /\ wire'[k - 1] = wire[k]
        BY <3>1, AfterRead
      <3> QED BY <2>2, <3>2 DEF Recv
    <2> QED BY <2>1, <2>2
  <1> HIDE DEF n
  <1>9. HandedOver'
    BY <1>0, <1>2, <1>6, <1>7, <1>8 DEF HandedOver
  <1> QED BY <1>4, <1>5, <1>9 DEF GapInv

LEMMA NextGapInv == IInv /\ GapInv /\ [Next]_vars => GapInv'
  <1> SUFFICES ASSUME IInv, GapInv, [Next]_vars PROVE GapInv'
    OBVIOUS
  <1> USE DEF clientVars, hostVars
  <1>0. TypeOK /\ WireInOrder /\ HandedOver /\ NoGap /\ Announced
    BY DEF IInv, GapInv
  <1>a. got' = got => NoGap'
    BY <1>0 DEF NoGap
  <1>b. UNCHANGED <<wire, pushed, got, stage, listening>> => GapInv'
    BY <1>0, <1>a DEF GapInv, WireInOrder, HandedOver, Recv, Last
  <1>c. wire # <<>> => (Recv(1) <=> Head(wire).type = "recv") /\ Head(wire) = wire[1]
    BY <1>0, AfterRead DEF Recv, TypeOK
  \* The end of the transport takes the wire and the listener at once.
  <1>d. TransportEnd /\ UNCHANGED <<got, pushed>> /\ (stage' = "linked" <=> stage = "linked")
          => GapInv'
    <2> SUFFICES ASSUME TransportEnd, UNCHANGED <<got, pushed>>, stage' = "linked" <=> stage = "linked"
                 PROVE  GapInv'
      OBVIOUS
    <2>1. wire' = <<>> /\ listening' = FALSE
      BY DEF TransportEnd
    <2>2. WireInOrder'
      BY <2>1 DEF WireInOrder
    <2>3. HandedOver'
      BY <2>1, <1>0 DEF HandedOver
    <2> QED BY <2>2, <2>3, <1>a DEF GapInv
  <1>1. CASE DialSucceeds
    <2>1. UNCHANGED <<wire, pushed, got, listening>> /\ stage # "linked" /\ stage' # "linked"
      BY <1>1 DEF DialSucceeds
    <2> QED BY <2>1, <1>0, <1>a DEF GapInv, WireInOrder, HandedOver, Recv, Last
  <1>2. CASE DialFails \/ ResumeAuthenticated
    <2>1. UNCHANGED <<wire, pushed, got, listening>> /\ stage # "linked" /\ stage' # "linked"
      BY <1>2 DEF DialFails, ResumeAuthenticated
    <2> QED BY <2>1, <1>0, <1>a DEF GapInv, WireInOrder, HandedOver, Recv, Last
  <1>3. CASE ResumeOpened
    <2>1. UNCHANGED <<wire, pushed, got>> /\ got = <<>>
      BY <1>3, <1>0 DEF ResumeOpened, HandedOver
    <2> QED BY <2>1, <1>0, <1>a DEF GapInv, WireInOrder, HandedOver, Recv
  <1>4. CASE ResumeRefused
    <2>1. UNCHANGED <<got, pushed>> /\ stage # "linked" /\ stage' = "failed"
      BY <1>4 DEF ResumeRefused
    <2>2. CASE closed
      <3>1. UNCHANGED <<wire, listening>>
        BY <1>4, <2>2 DEF ResumeRefused
      <3> QED BY <2>1, <3>1, <1>0, <1>a DEF GapInv, WireInOrder, HandedOver, Recv, Last
    <2>3. CASE ~closed
      BY <1>4, <2>1, <2>3, <1>d DEF ResumeRefused
    <2> QED BY <2>2, <2>3
  <1>5. CASE ReadReply
    <2>1. wire # <<>> /\ wire' = Tail(wire) /\ ~Recv(1) /\ UNCHANGED <<pushed, stage, got, listening>>
      BY <1>5, <1>c DEF ReadReply, Reading, Consumed
    <2> QED BY <2>1, <1>0, <1>a, OtherRead DEF GapInv
  <1>6. CASE ReadRecv
    <2>1. wire # <<>> /\ wire' = Tail(wire) /\ Recv(1) /\ UNCHANGED <<pushed, stage, listening>>
      BY <1>6, <1>c DEF ReadRecv, Reading
    <2>2. CASE listening
      <3>1. stage = "linked" /\ got' = Append(got, wire[1].n)
        BY <1>6, <2>1, <2>2, <1>0, <1>c DEF ReadRecv, Announced
      <3> QED BY <2>1, <2>2, <3>1, <1>0, PushRead
    <2>3. CASE ~listening
      <3>1. got' = got
        BY <1>6, <2>3 DEF ReadRecv
      <3>2. WireInOrder'
        BY <2>1, <1>0, ReadInOrder
      <3> QED BY <2>1, <2>3, <3>1, <3>2, <1>0, <1>a DEF GapInv, HandedOver
    <2> QED BY <2>2, <2>3
  <1>7. CASE ReadClose
    <2>1. /\ wire # <<>> /\ wire' = Tail(wire) /\ ~Recv(1) /\ UNCHANGED <<pushed, stage, got>>
          /\ ~listening'
      BY <1>7, <1>c DEF ReadClose, Reading, Unsubscribed
    <2> QED BY <2>1, <1>0, <1>a, OtherRead DEF GapInv
  <1>8. CASE ReadFin \/ SocketError
    BY <1>8, <1>d DEF ReadFin, SocketError
  <1>9. CASE Send \/ SendTooLong \/ Close
    BY <1>9, <1>b DEF Send, SendTooLong, Close
  <1>10. CASE HostRecv
    <2>1. /\ pushed < MaxRecv /\ pushed' = pushed + 1
          /\ wire' = Append(wire, [type |-> "recv", n |-> pushed + 1])
          /\ UNCHANGED <<stage, got, listening>>
      BY <1>10 DEF HostRecv
    <2> QED BY <2>1, <1>0, <1>a, PushWritten DEF GapInv
  <1>11. CASE HostClose
    <2>1. wire' = Append(wire, [type |-> "close"]) /\ UNCHANGED <<pushed, stage, got, listening>>
      BY <1>11 DEF HostClose
    <2> QED BY <2>1, <1>0, <1>a, FramesMade, OtherWritten DEF GapInv
  <1>12. CASE HostEnds
    <2>1. wire' = Append(wire, [type |-> "fin"]) /\ UNCHANGED <<pushed, stage, got, listening>>
      BY <1>12 DEF HostEnds
    <2> QED BY <2>1, <1>0, <1>a, FramesMade, OtherWritten DEF GapInv
  <1>13. ASSUME NEW id \in Ids, Timeout(id) PROVE GapInv'
    BY <1>13, <1>b DEF Timeout
  <1>14. ASSUME NEW id \in Ids, NEW ok \in BOOLEAN, HostReply(id, ok) PROVE GapInv'
    <2>1. /\ wire' = Append(wire, [type |-> "reply", id |-> id])
          /\ UNCHANGED <<pushed, stage, got, listening>>
      BY <1>14 DEF HostReply
    <2> QED BY <2>1, <1>0, <1>a, FramesMade, OtherWritten DEF GapInv
  <1>15. CASE UNCHANGED vars
    BY <1>15, <1>b DEF vars
  <1> QED
    BY <1>1, <1>2, <1>3, <1>4, <1>5, <1>6, <1>7, <1>8, <1>9, <1>10, <1>11, <1>12, <1>13,
       <1>14, <1>15 DEF Next, Read, Resume

LEMMA InitGapInv == Init => GapInv
  BY DEF Init, GapInv, WireInOrder, HandedOver, NoGap

\* The listener is handed the host's pushes in order and without a gap, whatever
\* comes between them on the wire and however the link ends.
THEOREM NothingSkipped == Spec => []NoGap
  <1>1. GapInv => NoGap
    BY DEF GapInv
  <1> QED BY <1>1, InitGapInv, NextGapInv, IInvHolds, PTL DEF Spec
-----------------------------------------------------------------------------
(***************************************************************************)
(* The RHP client implements the transport seam, with and without          *)
(* authentication and for any number of sends and of pushes: the proof of  *)
(* RhpClient!IsLink.                                                       *)
(*                                                                         *)
(* LinkState and SendState read the seam's two variables off the client.   *)
(* A step changes the state of the link, or the standing of one send, or,  *)
(* when the transport ends, of all the sends that were waiting.            *)
(***************************************************************************)

\* The state of the link is the stage of open(), and then whether it listens.
LEMMA LinkStateIs ==
  ASSUME Announced
  PROVE  /\ stage \in {"dialling", "authing", "opening"} => LinkState = "opening"
         /\ stage = "failed" => LinkState = "failed"
         /\ stage = "linked" => LinkState = IF listening THEN "up" ELSE "down"
  BY DEF Announced, LinkState

LEMMA LinkStateNext ==
  ASSUME Announced'
  PROVE  /\ stage' \in {"dialling", "authing", "opening"} => LinkState' = "opening"
         /\ stage' = "failed" => LinkState' = "failed"
         /\ stage' = "linked" => LinkState' = IF listening' THEN "up" ELSE "down"
  BY DEF Announced, LinkState

LEMMA LinkKept ==
  ASSUME UNCHANGED <<stage, listening, closes>>
  PROVE  LinkState' = LinkState
  BY DEF LinkState

\* Sends are the ids after those of open().
LEMMA SendIds ==
  /\ Sends \subseteq Ids /\ 1 \notin Sends /\ Opening \notin Sends
  /\ \A s \in Sends : s > Opening /\ s \in Nat
  BY OpeningIsId, MaxSendsAssumption DEF Sends, Ids

\* A send waits exactly while its request is pending.
LEMMA WaitingIsPending ==
  ASSUME RepliesMatch, NEW s \in Sends
  PROVE  SendState[s] = "waiting" <=> s \in pending
  BY SendIds DEF SendState, RepliesMatch

\* Until the caller has its link it has sent nothing.
LEMMA NoneBeforeLink ==
  ASSUME IInv, stage \notin {"linked", "failed"}, NEW s \in Sends
  PROVE  s \notin pending /\ outcome[s] = "none" /\ s >= nextId
  <1>1. nextId <= Opening + 1 /\ nextId \in Nat
    BY OpeningIsId, AuthAssumption DEF IInv, Numbered, TypeOK, Opening
  <1>2. s \in Ids /\ s > Opening /\ s \in Nat
    BY SendIds
  <1>3. s >= nextId
    BY <1>1, <1>2, OpeningIsId DEF Ids
  <1> QED BY <1>2, <1>3 DEF IInv, Unused

\* A step that leaves the sends' requests alone leaves their standing.
LEMMA SendsKept ==
  ASSUME \A s \in Sends : outcome'[s] = outcome[s] /\ (s \in pending' <=> s \in pending)
  PROVE  SendState' = SendState
  BY DEF SendState

\* The answer to a pending request, or its timeout, settles a send, unless the
\* request was one of open().
LEMMA SettlesOne ==
  ASSUME IInv, NEW id \in pending, NEW r \in {"ok", "err", "timeout"},
         pending' = pending \ {id}, outcome' = [outcome EXCEPT ![id] = r],
         LinkState' = LinkState
  PROVE  [Seam!Next]_(Seam!vars)
  <1>1. \A s \in Ids : outcome'[s] = IF s = id THEN r ELSE outcome[s]
    BY DEF IInv, TypeOK
  <1>2. CASE id \in Sends
    <2>1. SendState[id] = "waiting"
      BY <1>2, WaitingIsPending DEF IInv
    <2>2. SendState' = [SendState EXCEPT ![id] = IF r = "ok" THEN "accepted" ELSE "failed"]
      BY <1>1, <1>2, SendIds DEF SendState
    <2>3. Seam!Settle(id)
      BY <2>1, <2>2 DEF Seam!Settle
    <2> QED BY <1>2, <2>3 DEF Seam!Next
  <1>3. CASE id \notin Sends
    <2>1. SendState' = SendState
      BY <1>1, <1>3, SendIds, SendsKept
    <2> QED BY <2>1 DEF Seam!vars
  <1> QED BY <1>2, <1>3

\* The end of the transport fails what was waiting.
LEMMA EndFailsAll ==
  ASSUME IInv, TransportEnd
  PROVE  SendState' = Seam!AllFailed
  <1>1. \A s \in Sends : /\ s \notin pending'
                         /\ outcome'[s] = IF s \in pending THEN "ended" ELSE outcome[s]
    BY SendIds DEF TransportEnd
  <1>2. \A s \in Sends : SendState'[s] = IF SendState[s] = "waiting" THEN "failed" ELSE SendState[s]
    BY <1>1, WaitingIsPending, SendIds DEF IInv, SendState
  <1> QED BY <1>2 DEF SendState, Seam!AllFailed

\* The end of the transport under open(), under a listening link, and under a link
\* whose close was announced.
LEMMA EndIsSeen ==
  ASSUME IInv, IInv', TransportEnd, stage' = stage, stage # "failed"
  PROVE  [Seam!Next]_(Seam!vars)
  <1>1. SendState' = Seam!AllFailed
    BY EndFailsAll
  <1>2. ~listening'
    BY DEF TransportEnd
  <1>3. CASE stage # "linked"
    <2>1. LinkState' = LinkState
      BY <1>3, LinkStateIs, LinkStateNext DEF IInv, TypeOK
    <2>2. SendState' = SendState
      BY <1>1, <1>3, NoneBeforeLink DEF SendState, Seam!AllFailed
    <2> QED BY <2>1, <2>2 DEF Seam!vars
  <1>4. CASE stage = "linked" /\ listening
    <2>1. LinkState = "up" /\ LinkState' = "down"
      BY <1>2, <1>4, LinkStateIs, LinkStateNext DEF IInv
    <2> QED BY <1>1, <2>1 DEF Seam!Down, Seam!Next
  <1>5. CASE stage = "linked" /\ ~listening
    <2>1. LinkState = "down" /\ LinkState' = "down"
      BY <1>2, <1>5, LinkStateIs, LinkStateNext DEF IInv
    <2> QED BY <1>1, <2>1 DEF Seam!Ends, Seam!Next
  <1> QED BY <1>3, <1>4, <1>5

\* At first the link is being opened and nothing was sent.
LEMMA InitIsLink == Init => Seam!Init
  BY SendIds DEF Init, Seam!Init, LinkState, SendState

\* Each step of the client is one of the seam's, or is not seen there.
LEMMA NextIsLink ==
  IInv /\ [Next]_vars => [Seam!Next]_(Seam!vars)
  <1> SUFFICES ASSUME IInv, [Next]_vars PROVE [Seam!Next]_(Seam!vars)
    OBVIOUS
  <1> USE DEF clientVars, hostVars
  <1>0. IInv'
    BY NextIInv
  <1>a. TypeOK /\ Numbered /\ Unused /\ AnsweredOnce /\ Transport /\ Announced /\ RepliesMatch
    BY DEF IInv
  <1>b. LinkState' = LinkState /\ SendState' = SendState => [Seam!Next]_(Seam!vars)
    BY DEF Seam!vars
  <1>c. Announced'
    BY <1>0 DEF IInv
  <1>d. ASSUME UNCHANGED <<stage, pending, outcome, listening, closes>>
        PROVE  [Seam!Next]_(Seam!vars)
    BY <1>b, <1>d, LinkKept, SendsKept
  <1>1. CASE DialSucceeds
    <2>1. nextId = 1 /\ ~closed /\ stage = "dialling"
      BY <1>1, <1>a DEF DialSucceeds, Numbered, Transport
    <2>2. pending' = pending \cup {1} /\ outcome' = outcome /\ stage' \in {"authing", "opening"}
      BY <1>1, <2>1 DEF DialSucceeds, Request
    <2>3. LinkState' = LinkState
      BY <2>1, <2>2, <1>a, <1>c, LinkStateIs, LinkStateNext
    <2>4. SendState' = SendState
      BY <2>2, SendIds, SendsKept
    <2> QED BY <2>3, <2>4, <1>b
  <1>2. CASE DialFails
    <2>1. LinkState = "opening" /\ LinkState' = "failed"
      BY <1>2, <1>a, <1>c, LinkStateIs, LinkStateNext DEF DialFails
    <2>2. SendState' = SendState
      BY <1>2, SendsKept DEF DialFails
    <2> QED BY <2>1, <2>2 DEF Seam!OpenFailed, Seam!Next
  <1>3. CASE ResumeAuthenticated
    <2>1. nextId = Opening /\ ~closed /\ stage = "authing" /\ stage' = "opening"
      BY <1>3, <1>a DEF ResumeAuthenticated, Numbered, Transport, Opening
    <2>2. pending' = pending \cup {Opening} /\ outcome' = outcome
      BY <1>3, <2>1 DEF ResumeAuthenticated, Request
    <2>3. LinkState' = LinkState
      BY <2>1, <1>a, <1>c, LinkStateIs, LinkStateNext
    <2>4. SendState' = SendState
      BY <2>2, SendIds, SendsKept
    <2> QED BY <2>3, <2>4, <1>b
  <1>4. CASE ResumeOpened
    <2>1. LinkState = "opening" /\ LinkState' = "up"
      BY <1>4, <1>a, <1>c, LinkStateIs, LinkStateNext DEF ResumeOpened
    <2>2. SendState' = SendState
      BY <1>4, SendsKept DEF ResumeOpened
    <2> QED BY <2>1, <2>2 DEF Seam!Opened, Seam!Next
  <1>5. CASE ResumeRefused
    <2>1. LinkState = "opening" /\ LinkState' = "failed" /\ stage \notin {"linked", "failed"}
      BY <1>5, <1>a, <1>c, LinkStateIs, LinkStateNext DEF ResumeRefused
    <2>2. SendState' = SendState
      <3>1. CASE closed
        BY <1>5, <3>1, SendsKept DEF ResumeRefused
      <3>2. CASE ~closed
        <4>1. SendState' = Seam!AllFailed
          BY <1>5, <3>2, EndFailsAll DEF ResumeRefused
        <4> QED BY <2>1, <4>1, NoneBeforeLink DEF SendState, Seam!AllFailed
      <3> QED BY <3>1, <3>2
    <2> QED BY <2>1, <2>2 DEF Seam!OpenFailed, Seam!Next
  <1>6. CASE ReadReply
    <2> DEFINE id == Head(wire).id
    <2>1. Head(wire) \in OnWire /\ Head(wire).type = "reply"
      BY <1>6, <1>a DEF ReadReply, Reading, OnWire, TypeOK
    <2>2. id \in Ids /\ answered[id] \in {"ok", "err"}
      BY <2>1, <1>a, WireIds DEF AnsweredOnce, TypeOK
    <2>3. \/ UNCHANGED <<pending, outcome>>
          \/ /\ id \in pending /\ pending' = pending \ {id}
             /\ outcome' = [outcome EXCEPT ![id] = answered[id]]
      BY <1>6 DEF ReadReply, Expected, Correlated
    <2>4. UNCHANGED <<stage, listening, closes>>
      BY <1>6 DEF ReadReply
    <2> HIDE DEF id
    <2> QED BY <2>2, <2>3, <2>4, <1>d, LinkKept, SettlesOne
  <1>7. CASE ReadRecv
    BY <1>7, <1>d DEF ReadRecv
  <1>8. CASE ReadClose
    <2>1. listening' = FALSE /\ UNCHANGED <<stage, pending, outcome>>
      BY <1>8 DEF ReadClose, Unsubscribed
    <2>2. SendState' = SendState
      BY <2>1, SendsKept
    <2>3. CASE stage = "linked" /\ listening
      <3>1. LinkState = "up" /\ LinkState' = "down"
        BY <2>1, <2>3, <1>a, <1>c, LinkStateIs, LinkStateNext
      <3> QED BY <2>2, <3>1 DEF Seam!Down, Seam!Next
    <2>4. CASE ~listening
      <3>1. closes' = closes /\ listening' = listening
        BY <1>8, <2>1, <2>4, <1>a DEF ReadClose, TypeOK
      <3> QED BY <2>1, <3>1, <1>d
    <2> QED BY <2>3, <2>4, <1>a DEF Announced
  <1>9. CASE ReadFin \/ SocketError
    <2>1. TransportEnd /\ stage' = stage /\ sock \in {"open", "ended"}
      BY <1>9 DEF ReadFin, SocketError, Reading
    <2>2. stage # "failed"
      BY <2>1, <1>a DEF Transport
    <2> QED BY <2>1, <2>2, <1>0, EndIsSeen
  <1>10. ASSUME NEW r \in {"waiting", "failed"}, Send \/ SendTooLong,
                \/ r = "waiting" /\ pending' = pending \cup {nextId} /\ outcome' = outcome
                \/ /\ r = "failed" /\ pending' = pending
                   /\ outcome' \in {[outcome EXCEPT ![nextId] = o] : o \in {"ended", "tooLong"}}
         PROVE  [Seam!Next]_(Seam!vars)
    <2>1. nextId \in Sends /\ stage = "linked" /\ UNCHANGED <<stage, listening, closes>>
      BY <1>10, <1>a, OpeningIsId, MaxSendsAssumption DEF Send, SendTooLong, Numbered, Ids, Sends
    <2>2. nextId \notin pending /\ outcome[nextId] = "none"
      BY <2>1, <1>a, SendIds DEF Unused
    <2>3. SendState[nextId] = "unsent" /\ SendState' = [SendState EXCEPT ![nextId] = r]
      BY <1>10, <2>1, <2>2, <1>a, SendIds DEF SendState, TypeOK
    <2>4. LinkState \in {"up", "down"} /\ LinkState' = LinkState
      BY <2>1, <1>a, LinkStateIs, LinkKept
    <2>5. Seam!Send(nextId)
      BY <2>3, <2>4 DEF Seam!Send
    <2> QED BY <2>1, <2>5 DEF Seam!Next
  <1>11. CASE Send
    BY <1>11, <1>10 DEF Send, Request
  <1>12. CASE SendTooLong
    BY <1>12, <1>10 DEF SendTooLong
  <1>13. CASE Close \/ HostRecv \/ HostClose \/ HostEnds
    BY <1>13, <1>d DEF Close, HostRecv, HostClose, HostEnds
  <1>14. ASSUME NEW id \in Ids, Timeout(id) PROVE [Seam!Next]_(Seam!vars)
    <2>1. LinkState' = LinkState
      BY <1>14, LinkKept DEF Timeout
    <2> QED BY <1>14, <2>1, SettlesOne DEF Timeout
  <1>15. ASSUME NEW id \in Ids, NEW ok \in BOOLEAN, HostReply(id, ok)
         PROVE  [Seam!Next]_(Seam!vars)
    BY <1>15, <1>d DEF HostReply
  <1>16. CASE UNCHANGED vars
    BY <1>16, <1>d DEF vars
  <1> QED
    BY <1>1, <1>2, <1>3, <1>4, <1>5, <1>6, <1>7, <1>8, <1>9, <1>11, <1>12, <1>13, <1>14,
       <1>15, <1>16 DEF Next, Read, Resume

\* What open() and the link do is what the seam promises the agent: one outcome of
\* open(), one announced close, each send settled once and never left waiting by the
\* end of the transport.
THEOREM ClientIsLink == Spec => IsLink
  <1> QED BY InitIsLink, NextIsLink, IInvHolds, PTL DEF Spec, IsLink, Seam!Spec
=============================================================================
