----------------------------- MODULE RhpClient ------------------------------
(***************************************************************************)
(* One RHP connection (rhp/client.ts): RhpTcpTransport.open() dialling,    *)
(* authenticating and opening, and then the RhpTcpLink it hands over, with *)
(* the id-correlated requests, the pushes routed to the link's listeners,  *)
(* the reply timeout and the teardown of the socket under them.            *)
(*                                                                         *)
(* The host is external: it answers requests in any order, pushes received *)
(* bytes and the close of the handle, and may end the connection; its      *)
(* frames arrive in order, any number of them in one TCP chunk.  A settled *)
(* request's continuation runs after the chunk that settled it.            *)
(***************************************************************************)
EXTENDS Integers, Sequences

CONSTANTS
  Auth,      \* credentials are configured
  MaxSends,  \* bound: sends on the link
  MaxRecv    \* bound: recv pushes by the host

ASSUME AuthAssumption == Auth \in BOOLEAN
ASSUME MaxSendsAssumption == MaxSends \in Nat
ASSUME MaxRecvAssumption == MaxRecv \in Nat

Opening == IF Auth THEN 2 ELSE 1       \* the id the open request gets
Ids == 1..(Opening + MaxSends)
Sends == (Opening + 1)..(Opening + MaxSends)

VARIABLES
  stage,        \* where open() stands; "linked" once the caller has its link
  sock,         \* "none", "open", "ended" (our FIN sent), "dead"
  closed,       \* #closed: the transport's end was processed
  nextId,
  pending,      \* ids in #pending
  outcome,      \* how each request's promise settled
  listening,    \* the link's data and close listeners are registered
  localClosed,
  closes,       \* times the close listener was called
  got,          \* pushes handed to the data listener, in order
  asked,        \* host: requests not answered yet
  answered,     \* host: its answer to each request
  handle,       \* host: "none", "up" or "down"
  pushed,       \* host: recv pushes so far
  wire          \* frames on the way to the client

clientVars == <<stage, sock, closed, nextId, pending, outcome, listening,
                localClosed, closes, got>>
hostVars == <<asked, answered, handle, pushed, wire>>
vars == <<clientVars, hostVars>>

Frames == [type : {"reply"}, id : Ids] \cup [type : {"recv"}, n : 1..MaxRecv]
          \cup [type : {"close", "fin"}]

\* State shape.
TypeOK ==
  /\ stage \in {"dialling", "authing", "opening", "linked", "failed"}
  /\ sock \in {"none", "open", "ended", "dead"}
  /\ closed \in BOOLEAN /\ listening \in BOOLEAN /\ localClosed \in BOOLEAN
  /\ nextId \in Nat /\ closes \in 0..1
  /\ pending \subseteq Ids
  /\ outcome \in [Ids -> {"none", "ok", "err", "timeout", "ended", "tooLong"}]
  /\ got \in Seq(1..MaxRecv)
  /\ asked \subseteq Ids
  /\ answered \in [Ids -> {"none", "ok", "err"}]
  /\ handle \in {"none", "up", "down"}
  /\ pushed \in 0..MaxRecv
  /\ wire \in Seq(Frames)

Init ==
  /\ stage = "dialling" /\ sock = "none" /\ closed = FALSE /\ nextId = 1
  /\ pending = {} /\ outcome = [i \in Ids |-> "none"]
  /\ listening = FALSE /\ localClosed = FALSE /\ closes = 0 /\ got = <<>>
  /\ asked = {} /\ answered = [i \in Ids |-> "none"]
  /\ handle = "none" /\ pushed = 0 /\ wire = <<>>

-----------------------------------------------------------------------------
(* The request open() is suspended on, and whether its continuation waits. *)

Awaited == IF stage = "authing" THEN 1 ELSE Opening
JobPending == stage \in {"authing", "opening"} /\ outcome[Awaited] # "none"

\* #request(): reject at once on a closed connection; otherwise take an id,
\* remember it and write.  A write after our FIN never reaches the host.
Request ==
  /\ nextId' = nextId + 1
  /\ IF closed
     THEN outcome' = [outcome EXCEPT ![nextId] = "ended"] /\ UNCHANGED <<pending, asked>>
     ELSE /\ pending' = pending \cup {nextId}
          /\ asked' = IF sock' = "open" THEN asked \cup {nextId} ELSE asked
          /\ UNCHANGED outcome

\* Variant of TransportEnd: the requests in flight are left to their timeouts.
TransportEndForgets ==
  /\ closed' = TRUE /\ sock' = "dead" /\ wire' = <<>>
  /\ UNCHANGED <<outcome, pending>> /\ asked' = {}
  /\ listening' = FALSE
  /\ closes' = IF listening THEN closes + 1 ELSE closes

\* #onTransportEnd(): reject what is pending, forget the listeners, then call
\* the close listener.
TransportEnd ==
  /\ closed' = TRUE /\ sock' = "dead" /\ wire' = <<>>
  /\ outcome' = [i \in Ids |-> IF i \in pending THEN "ended" ELSE outcome[i]]
  /\ pending' = {} /\ asked' = {}
  /\ listening' = FALSE
  /\ closes' = IF listening THEN closes + 1 ELSE closes

-----------------------------------------------------------------------------
(* RhpTcpTransport.open().                                                 *)

DialSucceeds ==
  /\ stage = "dialling" /\ sock' = "open"
  /\ stage' = IF Auth THEN "authing" ELSE "opening"
  /\ Request
  /\ UNCHANGED <<closed, listening, localClosed, closes, got,
                 answered, handle, pushed, wire>>

DialFails ==
  /\ stage = "dialling" /\ stage' = "failed"
  /\ UNCHANGED <<sock, closed, nextId, pending, outcome, listening, localClosed,
                 closes, got, hostVars>>

\* The authReply was a success: send the open.
ResumeAuthenticated ==
  /\ stage = "authing" /\ outcome[Awaited] = "ok"
  /\ stage' = "opening" /\ UNCHANGED sock /\ Request
  /\ UNCHANGED <<closed, listening, localClosed, closes, got,
                 answered, handle, pushed, wire>>

\* The openReply was a success: the caller gets its link and, in the same turn,
\* registers its listeners.
ResumeOpened ==
  /\ stage = "opening" /\ outcome[Awaited] = "ok"
  /\ stage' = "linked" /\ listening' = TRUE
  /\ UNCHANGED <<sock, closed, nextId, pending, outcome, localClosed, closes, got, hostVars>>

\* Auth or open was refused or timed out: destroy() the socket and throw.
ResumeRefused ==
  /\ stage \in {"authing", "opening"} /\ outcome[Awaited] \in {"err", "timeout", "ended"}
  /\ stage' = "failed"
  /\ IF closed THEN UNCHANGED <<closed, sock, wire, outcome, pending, asked, listening, closes>>
               ELSE TransportEnd
  /\ UNCHANGED <<nextId, localClosed, got, answered, handle, pushed>>

-----------------------------------------------------------------------------
(* #onData() and #dispatch(), a frame at a time.                           *)

Reading(type) == sock \in {"open", "ended"} /\ wire # <<>> /\ Head(wire).type = type

\* Variants of Consumed: a chunk's remaining frames are dropped with the first
\* one that settles a request; replies settle the oldest request, not their own.
ConsumedTwo == IF Len(wire) > 1 THEN Tail(Tail(wire)) ELSE <<>>
Consumed == Tail(wire)
Oldest(id) == CHOOSE i \in pending : \A j \in pending : i <= j
Correlated(id) == id

\* Variant of Expected: every id ever used is taken for a pending one.
Issued(id) == id < nextId
Expected(id) == id \in pending

\* A reply settles the request with its id; a late one is ignored.
ReadReply ==
  /\ Reading("reply")
  /\ LET id == Correlated(Head(wire).id)
     IN  IF Expected(Head(wire).id)
         THEN /\ pending' = pending \ {id}
              /\ outcome' = [outcome EXCEPT ![id] = answered[Head(wire).id]]
         ELSE UNCHANGED <<pending, outcome>>
  /\ wire' = Consumed
  /\ UNCHANGED <<stage, sock, closed, nextId, listening, localClosed, closes, got,
                 asked, answered, handle, pushed>>

\* A recv push goes to the data listener, or nowhere.
ReadRecv ==
  /\ Reading("recv")
  /\ got' = IF listening THEN Append(got, Head(wire).n) ELSE got
  /\ wire' = Tail(wire)
  /\ UNCHANGED <<stage, sock, closed, nextId, pending, outcome, listening, localClosed,
                 closes, asked, answered, handle, pushed>>

\* Variant of Unsubscribed: #onServerClose() keeps the listeners.
StaysSubscribed == listening
Unsubscribed == FALSE

\* A close push forgets the listeners and calls the close listener.  The socket
\* and the requests in flight stay.
ReadClose ==
  /\ Reading("close")
  /\ listening' = Unsubscribed
  /\ closes' = IF listening THEN closes + 1 ELSE closes
  /\ wire' = Tail(wire)
  /\ UNCHANGED <<stage, sock, closed, nextId, pending, outcome, localClosed, got,
                 asked, answered, handle, pushed>>

\* The host's FIN, or an error or reset at any time.
ReadFin ==
  /\ Reading("fin") /\ ~JobPending
  /\ TransportEnd
  /\ UNCHANGED <<stage, nextId, localClosed, got, answered, handle, pushed>>

SocketError ==
  /\ sock \in {"open", "ended"} /\ ~JobPending
  /\ TransportEnd
  /\ UNCHANGED <<stage, nextId, localClosed, got, answered, handle, pushed>>

\* Variant of Timeout: the requests of open() are not timed.
TimeoutOfSends(id) ==
  /\ id \in pending \cap Sends /\ ~JobPending
  /\ pending' = pending \ {id}
  /\ outcome' = [outcome EXCEPT ![id] = "timeout"]
  /\ UNCHANGED <<stage, sock, closed, nextId, listening, localClosed, closes, got, hostVars>>

\* The reply timeout of one request.
Timeout(id) ==
  /\ id \in pending /\ ~JobPending
  /\ pending' = pending \ {id}
  /\ outcome' = [outcome EXCEPT ![id] = "timeout"]
  /\ UNCHANGED <<stage, sock, closed, nextId, listening, localClosed, closes, got, hostVars>>

-----------------------------------------------------------------------------
(* The link.                                                               *)

Send ==
  /\ stage = "linked" /\ nextId \in Ids
  /\ UNCHANGED sock /\ Request
  /\ UNCHANGED <<stage, closed, listening, localClosed, closes, got,
                 answered, handle, pushed, wire>>

\* A send whose frame the two bytes of its length cannot announce: remembered,
\* refused by encodeFrame(), forgotten and rejected.  It has used an id.
SendTooLong ==
  /\ stage = "linked" /\ nextId \in Ids /\ ~closed
  /\ nextId' = nextId + 1
  /\ outcome' = [outcome EXCEPT ![nextId] = "tooLong"]
  /\ UNCHANGED <<stage, sock, closed, pending, listening, localClosed, closes, got, hostVars>>

\* Variant of Ended: the handle is closed, the socket kept.
KeptOpen == sock
Ended == IF sock = "open" THEN "ended" ELSE sock

\* close(): a close frame without an id, then a FIN.  Idempotent.
Close ==
  /\ stage = "linked" /\ ~localClosed
  /\ localClosed' = TRUE
  /\ sock' = Ended
  /\ handle' = IF closed THEN handle ELSE "down"
  /\ UNCHANGED <<stage, closed, nextId, pending, outcome, listening, closes, got,
                 asked, answered, pushed, wire>>

-----------------------------------------------------------------------------
(* The host.                                                               *)

HostUp == sock \in {"open", "ended"} /\ ~\E k \in 1..Len(wire) : wire[k].type = "fin"

HostReply(id, ok) ==
  /\ HostUp /\ id \in asked
  /\ asked' = asked \ {id}
  /\ answered' = [answered EXCEPT ![id] = IF ok THEN "ok" ELSE "err"]
  /\ handle' = IF id = Opening /\ ok THEN "up" ELSE handle
  /\ wire' = Append(wire, [type |-> "reply", id |-> id])
  /\ UNCHANGED <<clientVars, pushed>>

HostRecv ==
  /\ HostUp /\ handle = "up" /\ pushed < MaxRecv
  /\ pushed' = pushed + 1
  /\ wire' = Append(wire, [type |-> "recv", n |-> pushed + 1])
  /\ UNCHANGED <<clientVars, asked, answered, handle>>

HostClose ==
  /\ HostUp /\ handle = "up"
  /\ handle' = "down"
  /\ wire' = Append(wire, [type |-> "close"])
  /\ UNCHANGED <<clientVars, asked, answered, pushed>>

HostEnds ==
  /\ HostUp
  /\ wire' = Append(wire, [type |-> "fin"])
  /\ UNCHANGED <<clientVars, asked, answered, handle, pushed>>

-----------------------------------------------------------------------------
Read == ReadReply \/ ReadRecv \/ ReadClose \/ ReadFin
Resume == ResumeAuthenticated \/ ResumeOpened \/ ResumeRefused

Next ==
  \/ DialSucceeds \/ DialFails \/ Resume \/ Read \/ SocketError
  \/ Send \/ SendTooLong \/ Close \/ HostRecv \/ HostClose \/ HostEnds
  \/ \E id \in Ids : Timeout(id) \/ \E ok \in BOOLEAN : HostReply(id, ok)

\* The dial ends, promises continue, frames that arrived are read, timers fire,
\* and a host that was sent a FIN answers with its own.
Fairness ==
  /\ WF_vars(DialSucceeds \/ DialFails)
  /\ WF_vars(Resume)
  /\ WF_vars(Read)
  /\ \A id \in Ids : WF_vars(Timeout(id))
  /\ WF_vars(sock = "ended" /\ HostEnds)

Spec == Init /\ [][Next]_vars
FairSpec == Spec /\ Fairness

-----------------------------------------------------------------------------
(* Properties.                                                             *)

\* A request is told the host's answer to itself and to no other, whatever the
\* order of the answers and the timeouts in between; and it settles once: none that
\* has settled, refused before it was sent included, is still waited for.
RepliesMatch ==
  \A i \in Ids : /\ outcome[i] \in {"ok", "err"} => outcome[i] = answered[i]
                 /\ i \in pending => outcome[i] = "none"

\* The end of the transport leaves nobody waiting and nobody uninformed: no
\* request stays pending, and the holder of a link has heard its close once,
\* from a close push or from the end itself.
EndSettlesAll ==
  closed => /\ pending = {} /\ ~listening
            /\ stage = "linked" => closes = 1

\* Once bytes reach the link they reach it in order and without a gap, across
\* replies, timeouts and chunk boundaries.
NoGap == \A k \in 1..(Len(got) - 1) : got[k + 1] = got[k] + 1

\* The connection is a link as transport.ts promises it.
LinkState ==
  IF closes > 0 THEN "down"
  ELSE CASE stage \in {"dialling", "authing", "opening"} -> "opening"
         [] stage = "failed" -> "failed"
         [] stage = "linked" -> IF listening THEN "up" ELSE "down"
SendState ==
  [s \in Sends |-> IF outcome[s] = "ok" THEN "accepted"
                   ELSE IF outcome[s] # "none" THEN "failed"
                   ELSE IF s \in pending THEN "waiting" ELSE "unsent"]

Seam == INSTANCE RhpLink WITH state <- LinkState, sent <- SendState, Sends <- Sends

IsLink == Seam!Spec

\* Every request settles, also on a host that never answers.
RequestSettles == \A i \in Ids : i \in pending ~> i \notin pending

\* open() settles: it never leaves the agent "connecting" for good.
OpenSettles == stage # "linked" ~> stage \in {"linked", "failed"}

\* A link closed by this client is announced as closed and takes its socket with it.
LocalCloseHeard == localClosed ~> closes = 1 /\ sock = "dead"
=============================================================================
